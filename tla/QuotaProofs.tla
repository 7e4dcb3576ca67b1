----------------------------- MODULE QuotaProofs -----------------------------
(***************************************************************************)
(* Proofs about MinuteQuota: the counters of a minute are what the         *)
(* requests hold, and no ledger lets in more than its limit and the        *)
(* strays.  And about QuotaLedgers: the two ledgers of a long window keep  *)
(* what was charged, and count it twice within bounds only.                *)
(***************************************************************************)
EXTENDS MCQuota, FiniteSetTheorems, WellFoundedInduction, TLAPS

-----------------------------------------------------------------------------
(* Counting requests. *)

One(holds) == IF holds THEN 1 ELSE 0

\* Sets of requests are finite.
LEMMA RequestSets ==
    ASSUME NEW S \in SUBSET Requests
    PROVE  IsFiniteSet(S) /\ Cardinality(S) \in Nat
<1>1. IsFiniteSet(Requests)
  BY QuotaAssumption
<1>2. IsFiniteSet(S)
  BY <1>1, FS_Subset
<1>. QED
  BY <1>2, FS_CardinalityType

\* Two sets that differ in one request at most.
LEMMA OneMoves ==
    ASSUME NEW A \in SUBSET Requests, NEW B \in SUBSET Requests, NEW r \in Requests,
           \A q \in Requests \ {r} : q \in A <=> q \in B
    PROVE  /\ Cardinality(A) \in Nat /\ Cardinality(B) \in Nat
           /\ Cardinality(B) = Cardinality(A) - One(r \in A) + One(r \in B)
<1>1. IsFiniteSet(A) /\ IsFiniteSet(B) /\ Cardinality(A) \in Nat /\ Cardinality(B) \in Nat
  BY RequestSets
<1>2. CASE r \in A <=> r \in B
  <2>1. A = B
    BY <1>2
  <2>. QED
    BY <1>1, <1>2, <2>1 DEF One
<1>3. CASE r \in A /\ r \notin B
  <2>1. A = B \cup {r}
    BY <1>3
  <2>2. Cardinality(A) = Cardinality(B) + 1
    BY <1>1, <1>3, <2>1, FS_AddElement
  <2>. QED
    BY <1>1, <1>3, <2>2 DEF One
<1>4. CASE r \notin A /\ r \in B
  <2>1. B = A \cup {r}
    BY <1>4
  <2>2. Cardinality(B) = Cardinality(A) + 1
    BY <1>1, <1>4, <2>1, FS_AddElement
  <2>. QED
    BY <1>1, <1>4, <2>2 DEF One
<1>. QED
  BY <1>1, <1>2, <1>3, <1>4

-----------------------------------------------------------------------------
(* The types. *)

\* What the database holds is no number below zero.
Positive(counters) == \A s \in Subjects, m \in Minutes : counters["database"][s][m] >= 0

\* A counter that something is added to.
LEMMA Added ==
    ASSUME TypeOK, NEW l \in Ledgers, NEW s \in Subjects, NEW m \in Minutes, NEW n \in Int
    PROVE  /\ Add(l, s, m, n) \in [Ledgers -> [Subjects -> [Minutes -> Int]]]
           /\ \A k \in Ledgers, t \in Subjects, i \in Minutes :
                 Add(l, s, m, n)[k][t][i] =
                     used[k][t][i] + IF k = l /\ t = s /\ i = m THEN n ELSE 0
<1>1. used \in [Ledgers -> [Subjects -> [Minutes -> Int]]] /\ used[l][s][m] + n \in Int
  BY DEF TypeOK
<1>2. Add(l, s, m, n) = [used EXCEPT ![l][s][m] = used[l][s][m] + n]
  BY DEF Add
<1>3. Add(l, s, m, n) \in [Ledgers -> [Subjects -> [Minutes -> Int]]]
  BY <1>1, <1>2
<1>4. ASSUME NEW k \in Ledgers, NEW t \in Subjects, NEW i \in Minutes
      PROVE  Add(l, s, m, n)[k][t][i] =
                used[k][t][i] + IF k = l /\ t = s /\ i = m THEN n ELSE 0
  <2>1. used[k][t][i] \in Int
    BY <1>1
  <2>2. CASE k = l /\ t = s /\ i = m
    BY <1>1, <1>2, <2>2
  <2>3. CASE ~(k = l /\ t = s /\ i = m)
    BY <1>1, <1>2, <2>1, <2>3
  <2>. QED
    BY <2>2, <2>3
<1>. QED
  BY <1>3, <1>4

\* A counter that is set.
Set(l, s, m, n) == [used EXCEPT ![l][s][m] = n]

LEMMA SetTo ==
    ASSUME TypeOK, NEW l \in Ledgers, NEW s \in Subjects, NEW m \in Minutes, NEW n \in Int
    PROVE  /\ Set(l, s, m, n) \in [Ledgers -> [Subjects -> [Minutes -> Int]]]
           /\ \A k \in Ledgers, t \in Subjects, i \in Minutes :
                 Set(l, s, m, n)[k][t][i] =
                     IF k = l /\ t = s /\ i = m THEN n ELSE used[k][t][i]
           /\ n >= 0 => Positive(Set(l, s, m, n))
<1>. DEFINE new == Set(l, s, m, n)
<1>1. new \in [Ledgers -> [Subjects -> [Minutes -> Int]]]
  BY DEF TypeOK, Set
<1>2. \A k \in Ledgers, t \in Subjects, i \in Minutes :
         new[k][t][i] = IF k = l /\ t = s /\ i = m THEN n ELSE used[k][t][i]
  BY DEF TypeOK, Set
<1>3. "database" \in Ledgers /\ Positive(used)
  BY DEF Ledgers, TypeOK, Positive
<1>4. n >= 0 => Positive(new)
  BY <1>2, <1>3 DEF Positive
<1>. QED
  BY <1>1, <1>2, <1>4

\* What the counter says afterwards.
LEMMA ThisOne ==
    ASSUME TypeOK, NEW l \in Ledgers, NEW s \in Subjects, NEW m \in Minutes, NEW n \in Int
    PROVE  /\ Add(l, s, m, n)[l][s][m] = used[l][s][m] + n
           /\ Set(l, s, m, n)[l][s][m] = n
  BY Added, SetTo

\* Every counter after something was added to one.
LEMMA AddedAt ==
    ASSUME TypeOK, NEW l \in Ledgers, NEW s \in Subjects, NEW m \in Minutes, NEW n \in Int,
           used' = Add(l, s, m, n), NEW k \in Ledgers, NEW t \in Subjects, NEW i \in Minutes
    PROVE  used'[k][t][i] = used[k][t][i] + IF k = l /\ t = s /\ i = m THEN n ELSE 0
<1>1. Add(l, s, m, n)[k][t][i] = used[k][t][i] + IF k = l /\ t = s /\ i = m THEN n ELSE 0
  BY Added
<1>. QED
  BY <1>1

\* Every counter after one was set.
LEMMA SetAt ==
    ASSUME TypeOK, NEW l \in Ledgers, NEW s \in Subjects, NEW m \in Minutes, NEW n \in Int,
           used' = Set(l, s, m, n), NEW k \in Ledgers, NEW t \in Subjects, NEW i \in Minutes
    PROVE  used'[k][t][i] = IF k = l /\ t = s /\ i = m THEN n ELSE used[k][t][i]
<1>1. Set(l, s, m, n)[k][t][i] = IF k = l /\ t = s /\ i = m THEN n ELSE used[k][t][i]
  BY SetTo
<1>. QED
  BY <1>1

\* The gate a request is at is one of its gates.
LEMMA AtGate ==
    ASSUME TypeOK, NEW r \in Requests
    PROVE  /\ gate[r] \in 1..Len(Gates[r]) /\ Len(Gates[r]) \in Nat
           /\ Gates[r] \in Seq(Subjects)
           /\ \A i \in 1..Len(Gates[r]) : Gates[r][i] \in Subjects
           /\ Subject(r) \in Subjects
           /\ minute \in Minutes /\ at[r] \in Minutes
  BY QuotaAssumption DEF TypeOK, Subject

Places == {"asking", "backing", "database", "insert", "again",
           "admitted", "served", "leaving", "refused"}

\* The part of TypeOK that the steps of a request change.
TypedRequests ==
    /\ pc \in [Requests -> Places]
    /\ gate \in [Requests -> Nat]
    /\ \A r \in Requests : gate[r] \in 1..Len(Gates[r])
    /\ todo \in [Requests -> Seq(Subjects)]
    /\ \A r \in Requests : pc[r] = "leaving" <=> todo[r] # << >>
    /\ took \in [Requests -> [Subjects -> Spots \cup {Nowhere}]]

\* A request that is let in.
LEMMA PassTyped ==
    ASSUME TypeOK, NEW r \in Requests, pc[r] # "leaving",
           NEW l \in Ledgers, NEW m \in Minutes, Pass(r, l, m)
    PROVE  TypedRequests'
<1>1. gate[r] \in 1..Len(Gates[r]) /\ Len(Gates[r]) \in Nat /\ Subject(r) \in Subjects
  BY AtGate
<1>2. <<l, m>> \in Spots
  BY DEF Spots
<1>3. took' \in [Requests -> [Subjects -> Spots \cup {Nowhere}]]
  BY <1>1, <1>2 DEF TypeOK, Pass
<1>4. gate' \in [Requests -> Nat] /\ \A q \in Requests : gate'[q] \in 1..Len(Gates[q])
  <2>1. /\ gate \in [Requests -> Nat]
        /\ \A q \in Requests : gate[q] \in 1..Len(Gates[q])
    BY DEF TypeOK
  <2>2. gate' = gate \/ (gate[r] # Len(Gates[r]) /\ gate' = [gate EXCEPT ![r] = gate[r] + 1])
    BY DEF Pass
  <2>. QED
    BY <1>1, <2>1, <2>2
<1>5. pc' \in [Requests -> Places] /\ \A q \in Requests : pc'[q] = "leaving" <=> todo'[q] # << >>
  BY DEF TypeOK, Pass, Places
<1>. QED
  BY <1>3, <1>4, <1>5 DEF TypedRequests, TypeOK, Pass

\* A request that leaves gives back what is in a sequence of subjects.
LEMMA LeaveTyped ==
    ASSUME TypeOK, NEW r \in Requests, NEW subjects \in Seq(Subjects), Leave(r, subjects),
           UNCHANGED <<gate, took>>
    PROVE  TypedRequests'
  BY DEF TypeOK, Leave, TypedRequests, Places

\* The gates before the one a request is at.
LEMMA EarlierGates ==
    ASSUME TypeOK, NEW r \in Requests
    PROVE  LET before == SubSeq(Gates[r], 1, gate[r] - 1) IN
           /\ before \in Seq(Subjects) /\ Len(before) = gate[r] - 1
           /\ \A i \in 1..(gate[r] - 1) : before[i] = Gates[r][i]
  BY AtGate

\* The place of a request changes, and nothing else of TypedRequests.
LEMMA MoveTyped ==
    ASSUME TypeOK, NEW r \in Requests, pc[r] # "leaving", NEW p \in Places \ {"leaving"},
           pc' = [pc EXCEPT ![r] = p], UNCHANGED <<gate, todo, took>>
    PROVE  TypedRequests'
  BY DEF TypeOK, TypedRequests, Places

\* A call to Redis that raised.
LEMMA FailuresTyped ==
    ASSUME TypeOK, NoFailure \/ \E w \in Workers : MarkDown(w)
    PROVE  failures' \in 0..MaxFailures /\ down' \in [Workers -> BOOLEAN]
<1>1. MaxFailures \in Nat /\ failures \in 0..MaxFailures /\ down \in [Workers -> BOOLEAN]
  BY QuotaAssumption DEF TypeOK
<1>2. CASE NoFailure
  BY <1>1, <1>2 DEF NoFailure
<1>3. ASSUME NEW w \in Workers, MarkDown(w)
      PROVE  failures' \in 0..MaxFailures /\ down' \in [Workers -> BOOLEAN]
  BY <1>1, <1>3 DEF MarkDown
<1>. QED
  BY <1>2, <1>3

\* The part of TypeOK that is about everything else.
TypedRest ==
    /\ minute \in Minutes
    /\ down \in [Workers -> BOOLEAN]
    /\ used \in [Ledgers -> [Subjects -> [Minutes -> Int]]]
    /\ Positive(used)
    /\ rows \subseteq Subjects \X Minutes
    /\ at \in [Requests -> Minutes]
    /\ clearing \subseteq Cleared
    /\ failures \in 0..MaxFailures
    /\ resets \in 0..MaxResets
    /\ gave \in [Requests -> [Subjects -> Spots \cup {Nowhere}]]

\* The two parts are TypeOK.
LEMMA TypeParts ==
    ASSUME TypedRequests', TypedRest'
    PROVE  TypeOK'
  BY DEF TypeOK, TypedRequests, TypedRest, Positive, Places

\* Nothing below zero is reached by adding to a counter of the database, by
\* changing one of Redis, or by taking what is there.
LEMMA StaysPositive ==
    ASSUME TypeOK, NEW l \in Ledgers, NEW s \in Subjects, NEW m \in Minutes, NEW n \in Int,
           l = "database" => used[l][s][m] + n >= 0
    PROVE  Positive(Add(l, s, m, n))
<1>1. "database" \in Ledgers
  BY DEF Ledgers
<1>2. ASSUME NEW t \in Subjects, NEW i \in Minutes
      PROVE  Add(l, s, m, n)["database"][t][i] >= 0
  <2>1. /\ used["database"][t][i] \in Int /\ used["database"][t][i] >= 0
        /\ used[l][s][m] \in Int
    BY <1>1 DEF TypeOK
  <2>2. Add(l, s, m, n)["database"][t][i]
           = used["database"][t][i] + IF "database" = l /\ t = s /\ i = m THEN n ELSE 0
    BY <1>1, Added
  <2>. QED
    BY <2>1, <2>2
<1>. QED
  BY <1>2 DEF Positive

\* A request changes the counters and what it gave back, and then leaves.
LEMMA GiveBackTyped ==
    ASSUME TypeOK, NEW r \in Requests, GiveBack(r)
    PROVE  TypeOK'
<1>. DEFINE s == Head(todo[r])
<1>1. /\ todo[r] \in Seq(Subjects) /\ todo[r] # << >>
      /\ s \in Subjects /\ Tail(todo[r]) \in Seq(Subjects)
      /\ minute \in Minutes
  BY DEF GiveBack, TypeOK
<1>2. TypedRequests'
  BY <1>1, LeaveTyped DEF GiveBack
<1>3. failures' \in 0..MaxFailures /\ down' \in [Workers -> BOOLEAN]
  <2>1. WorkerOf[r] \in Workers
    BY QuotaAssumption
  <2>. QED
    BY <2>1, FailuresTyped DEF GiveBack
<1>4. /\ used' \in [Ledgers -> [Subjects -> [Minutes -> Int]]] /\ Positive(used')
      /\ gave' \in [Requests -> [Subjects -> Spots \cup {Nowhere}]]
  <2>1. /\ used \in [Ledgers -> [Subjects -> [Minutes -> Int]]] /\ Positive(used)
        /\ gave \in [Requests -> [Subjects -> Spots \cup {Nowhere}]]
    BY DEF TypeOK, Positive
  <2>2. \/ UNCHANGED <<used, gave>>
        \/ /\ used' = Add("redis", s, minute, -1)
           /\ gave' = [gave EXCEPT ![r][s] = <<"redis", minute>>]
        \/ /\ used' = Add("database", s, minute, -1) /\ HasPlace(s, minute)
           /\ gave' = [gave EXCEPT ![r][s] = <<"database", minute>>]
    BY DEF GiveBack
  <2>3. CASE UNCHANGED <<used, gave>>
    BY <2>1, <2>3
  <2>4. ASSUME NEW l \in Ledgers, used' = Add(l, s, minute, -1),
               l = "database" => HasPlace(s, minute),
               gave' = [gave EXCEPT ![r][s] = <<l, minute>>]
        PROVE  /\ used' \in [Ledgers -> [Subjects -> [Minutes -> Int]]] /\ Positive(used')
               /\ gave' \in [Requests -> [Subjects -> Spots \cup {Nowhere}]]
    <3>1. <<l, minute>> \in Spots
      BY <1>1 DEF Spots
    <3>2. gave' \in [Requests -> [Subjects -> Spots \cup {Nowhere}]]
      BY <1>1, <2>1, <2>4, <3>1
    <3>3. used' \in [Ledgers -> [Subjects -> [Minutes -> Int]]]
      BY <1>1, <2>4, Added
    <3>4. l = "database" => used[l][s][minute] + (-1) >= 0
      <4>1. used[l][s][minute] \in Int
        BY <1>1, <2>1
      <4>. QED
        BY <2>4, <4>1 DEF HasPlace
    <3>5. Positive(used')
      BY <1>1, <2>4, <3>4, StaysPositive
    <3>. QED
      BY <3>2, <3>3, <3>5
  <2>. QED
    BY <2>2, <2>3, <2>4 DEF Ledgers
<1>5. TypedRest'
  BY <1>3, <1>4 DEF TypeOK, TypedRest, GiveBack
<1>. QED
  BY <1>2, <1>5, TypeParts

\* The steps of a request through the gates of Redis.
LEMMA RedisTyped ==
    ASSUME TypeOK, NEW r \in Requests, RedisTake(r) \/ RedisStepBack(r) \/ RedisFails(r)
    PROVE  TypeOK'
<1>1. /\ Subject(r) \in Subjects /\ minute \in Minutes /\ at[r] \in Minutes
      /\ "redis" \in Ledgers
  BY AtGate DEF Ledgers
<1>2. WorkerOf[r] \in Workers
  BY QuotaAssumption
<1>3. failures' \in 0..MaxFailures /\ down' \in [Workers -> BOOLEAN]
  BY <1>2, FailuresTyped DEF RedisTake, RedisStepBack, RedisFails
<1>4. \A m \in Minutes, n \in Int :
         /\ Add("redis", Subject(r), m, n) \in [Ledgers -> [Subjects -> [Minutes -> Int]]]
         /\ Positive(Add("redis", Subject(r), m, n))
  <2>. SUFFICES ASSUME NEW m \in Minutes, NEW n \in Int
                PROVE  /\ Add("redis", Subject(r), m, n) \in [Ledgers -> [Subjects -> [Minutes -> Int]]]
                       /\ Positive(Add("redis", Subject(r), m, n))
    OBVIOUS
  <2>. QED
    BY <1>1, Added, StaysPositive
<1>5. CASE RedisTake(r)
  <2>1. TypedRequests'
    <3>1. CASE pc' = [pc EXCEPT ![r] = "backing"] /\ UNCHANGED <<gate, todo, took>>
      BY <1>5, <3>1, MoveTyped DEF RedisTake, Places
    <3>2. CASE Pass(r, "redis", minute)
      BY <1>1, <1>5, <3>2, PassTyped DEF RedisTake
    <3>. QED
      BY <1>5, <3>1, <3>2 DEF RedisTake
  <2>2. used' \in [Ledgers -> [Subjects -> [Minutes -> Int]]] /\ Positive(used')
    BY <1>1, <1>4, <1>5 DEF RedisTake
  <2>3. TypedRest'
    BY <1>1, <1>3, <1>5, <2>2 DEF TypeOK, TypedRest, RedisTake
  <2>. QED
    BY <2>1, <2>3, TypeParts
<1>6. CASE RedisStepBack(r)
  <2>1. TypedRequests'
    BY <1>6, EarlierGates, LeaveTyped DEF RedisStepBack, Full
  <2>2. used' \in [Ledgers -> [Subjects -> [Minutes -> Int]]] /\ Positive(used')
    BY <1>1, <1>4, <1>6 DEF RedisStepBack
  <2>3. TypedRest'
    BY <1>1, <1>3, <1>6, <2>2 DEF TypeOK, TypedRest, RedisStepBack
  <2>. QED
    BY <2>1, <2>3, TypeParts
<1>7. CASE RedisFails(r)
  <2>1. TypedRequests'
    BY <1>7, MoveTyped DEF RedisFails, Places
  <2>2. used' \in [Ledgers -> [Subjects -> [Minutes -> Int]]] /\ Positive(used')
    <3>1. \/ used' = used
          \/ used' = Add("redis", Subject(r), minute, 1)
          \/ used' = Add("redis", Subject(r), at[r], -1)
      BY <1>7 DEF RedisFails
    <3>2. used \in [Ledgers -> [Subjects -> [Minutes -> Int]]] /\ Positive(used)
      BY DEF TypeOK, Positive
    <3>. QED
      BY <1>1, <1>4, <3>1, <3>2
  <2>3. TypedRest'
    BY <1>1, <1>3, <1>7, <2>2 DEF TypeOK, TypedRest, RedisFails
  <2>. QED
    BY <2>1, <2>3, TypeParts
<1>. QED
  BY <1>5, <1>6, <1>7

\* The steps of a request through the gates of the database.
LEMMA DatabaseTyped ==
    ASSUME TypeOK, NEW r \in Requests,
           DatabaseTake(r) \/ DatabaseInsert(r) \/ DatabaseTakeAgain(r)
    PROVE  TypeOK'
<1>1. /\ Subject(r) \in Subjects /\ minute \in Minutes /\ at[r] \in Minutes
      /\ "database" \in Ledgers
  BY AtGate DEF Ledgers
<1>2. failures' \in 0..MaxFailures /\ down' \in [Workers -> BOOLEAN]
  BY FailuresTyped DEF DatabaseTake, DatabaseInsert, DatabaseTakeAgain
<1>3. ASSUME NEW m \in Minutes
      PROVE  LET new == Add("database", Subject(r), m, 1) IN
             new \in [Ledgers -> [Subjects -> [Minutes -> Int]]] /\ Positive(new)
  <2>1. used["database"][Subject(r)][m] \in Int /\ used["database"][Subject(r)][m] >= 0
    BY <1>1 DEF TypeOK
  <2>2. used["database"][Subject(r)][m] + 1 >= 0
    BY <2>1
  <2>. QED
    BY <1>1, <2>2, Added, StaysPositive
<1>4. used \in [Ledgers -> [Subjects -> [Minutes -> Int]]] /\ Positive(used)
  BY DEF TypeOK, Positive
<1>5. CASE DatabaseTake(r)
  <2>1. TypedRequests'
    <3>1. CASE pc' = [pc EXCEPT ![r] = "insert"] /\ UNCHANGED <<gate, todo, took>>
      BY <1>5, <3>1, MoveTyped DEF DatabaseTake, Places
    <3>2. CASE Pass(r, "database", minute)
      BY <1>1, <1>5, <3>2, PassTyped DEF DatabaseTake
    <3>. QED
      BY <1>5, <3>1, <3>2 DEF DatabaseTake
  <2>2. used' = used \/ used' = Add("database", Subject(r), minute, 1)
    BY <1>5 DEF DatabaseTake
  <2>3. used' \in [Ledgers -> [Subjects -> [Minutes -> Int]]] /\ Positive(used')
    BY <1>1, <1>3, <1>4, <2>2
  <2>4. TypedRest'
    BY <1>1, <1>2, <1>5, <2>3 DEF TypeOK, TypedRest, DatabaseTake
  <2>. QED
    BY <2>1, <2>4, TypeParts
<1>6. CASE DatabaseInsert(r)
  <2>1. TypedRequests'
    <3>1. CASE pc' = [pc EXCEPT ![r] = "again"] /\ UNCHANGED <<gate, todo, took>>
      BY <1>6, <3>1, MoveTyped DEF DatabaseInsert, Places
    <3>2. CASE Pass(r, "database", at[r])
      BY <1>1, <1>6, <3>2, PassTyped DEF DatabaseInsert
    <3>. QED
      BY <1>6, <3>1, <3>2 DEF DatabaseInsert
  <2>2. used' = used \/ used' = Set("database", Subject(r), at[r], 1)
    BY <1>6 DEF DatabaseInsert, Set
  <2>3. used' \in [Ledgers -> [Subjects -> [Minutes -> Int]]] /\ Positive(used')
    <3>1. /\ Set("database", Subject(r), at[r], 1) \in [Ledgers -> [Subjects -> [Minutes -> Int]]]
          /\ Positive(Set("database", Subject(r), at[r], 1))
      <4>1. 1 \in Int /\ 1 >= 0
        OBVIOUS
      <4>. QED
        BY <1>1, <4>1, SetTo
    <3>. QED
      BY <1>4, <2>2, <3>1
  <2>4. rows' \subseteq Subjects \X Minutes
    <3>1. <<Subject(r), at[r]>> \in Subjects \X Minutes
      BY <1>1
    <3>2. rows' = rows \/ rows' = rows \cup {<<Subject(r), at[r]>>}
      BY <1>6 DEF DatabaseInsert
    <3>. QED
      BY <3>1, <3>2 DEF TypeOK
  <2>5. TypedRest'
    BY <1>2, <1>6, <2>3, <2>4 DEF TypeOK, TypedRest, DatabaseInsert
  <2>. QED
    BY <2>1, <2>5, TypeParts
<1>7. CASE DatabaseTakeAgain(r)
  <2>1. TypedRequests'
    <3>1. CASE Full(r)
      BY <3>1, EarlierGates, LeaveTyped DEF Full
    <3>2. CASE Pass(r, "database", at[r])
      BY <1>1, <1>7, <3>2, PassTyped DEF DatabaseTakeAgain
    <3>. QED
      BY <1>7, <3>1, <3>2 DEF DatabaseTakeAgain
  <2>2. used' = used \/ used' = Add("database", Subject(r), at[r], 1)
    BY <1>7 DEF DatabaseTakeAgain
  <2>3. used' \in [Ledgers -> [Subjects -> [Minutes -> Int]]] /\ Positive(used')
    BY <1>1, <1>3, <1>4, <2>2
  <2>4. TypedRest'
    BY <1>2, <1>7, <2>3 DEF TypeOK, TypedRest, DatabaseTakeAgain
  <2>. QED
    BY <2>1, <2>4, TypeParts
<1>. QED
  BY <1>5, <1>6, <1>7

\* An answer is served, or no backend takes the request.
LEMMA AdmittedTyped ==
    ASSUME TypeOK, NEW r \in Requests, Serve(r) \/ TurnAway(r)
    PROVE  TypeOK'
<1>1. failures' \in 0..MaxFailures /\ down' \in [Workers -> BOOLEAN]
  BY FailuresTyped DEF Serve, TurnAway
<1>2. CASE Serve(r)
  <2>1. TypedRequests'
    BY <1>2, MoveTyped DEF Serve, Places
  <2>2. rows' \subseteq Subjects \X Minutes
    <3>1. {<<Gates[r][i], minute>> : i \in 1..Len(Gates[r])} \subseteq Subjects \X Minutes
      BY AtGate
    <3>. QED
      BY <1>2, <3>1 DEF Serve, TypeOK
  <2>3. TypedRest'
    BY <1>1, <1>2, <2>2 DEF TypeOK, TypedRest, Serve, Positive
  <2>. QED
    BY <2>1, <2>3, TypeParts
<1>3. CASE TurnAway(r)
  <2>1. TypedRequests'
    BY <1>3, AtGate, LeaveTyped DEF TurnAway
  <2>2. TypedRest'
    BY <1>1, <1>3 DEF TypeOK, TypedRest, TurnAway, Positive
  <2>. QED
    BY <2>1, <2>2, TypeParts
<1>. QED
  BY <1>2, <1>3

\* The clock, the retries and the administrator.
LEMMA OutsideTyped ==
    ASSUME TypeOK,
           \/ Tick
           \/ \E w \in Workers : RetryRedis(w)
           \/ \E s \in Cleared : ResetDatabase(s) \/ ResetRedis(s)
           \/ \E s \in Cleared, w \in Workers : ResetFails(s, w)
    PROVE  TypeOK'
<1>1. TypedRequests'
  BY DEF TypeOK, TypedRequests, Places, Tick, RetryRedis, ResetDatabase, ResetRedis, ResetFails
<1>2. "database" \in Ledgers /\ "redis" \in Ledgers /\ Cleared \subseteq Subjects
  BY QuotaAssumption DEF Ledgers
<1>3. minute \in Minutes /\ LastMinute \in Nat /\ MaxResets \in Nat
  BY QuotaAssumption DEF TypeOK
<1>4. ASSUME NEW s \in Subjects, NEW l \in Ledgers
      PROVE  /\ Set(l, s, minute, 0) \in [Ledgers -> [Subjects -> [Minutes -> Int]]]
             /\ Positive(Set(l, s, minute, 0))
  BY <1>3, SetTo
<1>5. CASE Tick
  <2>1. minute' \in Minutes
    BY <1>3, <1>5 DEF Tick, Minutes
  <2>2. TypedRest'
    BY <1>5, <2>1 DEF TypeOK, TypedRest, Tick, Positive
  <2>. QED
    BY <1>1, <2>2, TypeParts
<1>6. ASSUME NEW w \in Workers, RetryRedis(w)
      PROVE  TypeOK'
  <2>1. TypedRest'
    BY <1>6 DEF TypeOK, TypedRest, RetryRedis, Positive
  <2>. QED
    BY <1>1, <2>1, TypeParts
<1>7. ASSUME NEW s \in Cleared, ResetDatabase(s)
      PROVE  TypeOK'
  <2>1. used' \in [Ledgers -> [Subjects -> [Minutes -> Int]]] /\ Positive(used')
    BY <1>2, <1>4, <1>7 DEF ResetDatabase, Set
  <2>2. resets' \in 0..MaxResets
    BY <1>3, <1>7 DEF ResetDatabase, TypeOK
  <2>3. TypedRest'
    BY <1>7, <2>1, <2>2 DEF TypeOK, TypedRest, ResetDatabase
  <2>. QED
    BY <1>1, <2>3, TypeParts
<1>8. ASSUME NEW s \in Cleared, ResetRedis(s)
      PROVE  TypeOK'
  <2>1. used' \in [Ledgers -> [Subjects -> [Minutes -> Int]]] /\ Positive(used')
    BY <1>2, <1>4, <1>8 DEF ResetRedis, Set
  <2>2. TypedRest'
    BY <1>8, <2>1 DEF TypeOK, TypedRest, ResetRedis
  <2>. QED
    BY <1>1, <2>2, TypeParts
<1>9. ASSUME NEW s \in Cleared, NEW w \in Workers, ResetFails(s, w)
      PROVE  TypeOK'
  <2>1. used' \in [Ledgers -> [Subjects -> [Minutes -> Int]]] /\ Positive(used')
    <3>1. used' = used \/ used' = Set("redis", s, minute, 0)
      BY <1>9 DEF ResetFails, Set
    <3>2. used \in [Ledgers -> [Subjects -> [Minutes -> Int]]] /\ Positive(used)
      BY DEF TypeOK, Positive
    <3>. QED
      BY <1>2, <1>4, <3>1, <3>2
  <2>2. failures' \in 0..MaxFailures /\ down' \in [Workers -> BOOLEAN]
    BY <1>9, FailuresTyped DEF ResetFails
  <2>3. TypedRest'
    BY <1>9, <2>1, <2>2 DEF TypeOK, TypedRest, ResetFails
  <2>. QED
    BY <1>1, <2>3, TypeParts
<1>. QED
  BY <1>5, <1>6, <1>7, <1>8, <1>9

-----------------------------------------------------------------------------
(* What a step does to the requests. *)

InHand == {"asking", "backing", "database", "insert", "again"}

\* The other requests stay as they are.
OnlyOf(r) ==
    \A q \in Requests \ {r} :
        /\ pc'[q] = pc[q] /\ gate'[q] = gate[q] /\ at'[q] = at[q] /\ todo'[q] = todo[q]
        /\ took'[q] = took[q] /\ gave'[q] = gave[q]

\* A request that a gate lets in, with the counter that says so.
LetIn(r, l, m) ==
    /\ pc[r] \in InHand
    /\ Pass(r, l, m)
    /\ gave' = gave
    /\ PerMinute[Subject(r)] = 0 \/ used'[l][Subject(r)][m] <= PerMinute[Subject(r)]
    /\ m <= minute \/ m = at[r]
    /\ ~UseRedis => l = "database"

\* The kinds of steps a request takes.
Moved(r) ==
    /\ pc[r] \in InHand /\ pc'[r] \in InHand
    /\ UNCHANGED <<gate, todo, took, gave>>

FullGate(r) == pc[r] \in InHand /\ Full(r) /\ gave' = gave

\* A step of a request leaves the minute, the resets and the other requests alone.
LEMMA Frame ==
    ASSUME TypeOK, NEW r \in Requests, Step(r)
    PROVE  /\ OnlyOf(r)
           /\ minute' = minute /\ resets' = resets /\ clearing' = clearing
           /\ failures' \in Int /\ failures <= failures'
<1>1. failures \in Int /\ MaxFailures \in Nat
  BY QuotaAssumption DEF TypeOK
<1>2. CASE RedisTake(r)
  BY <1>1, <1>2 DEF TypeOK, RedisTake, Pass, NoFailure, OnlyOf
<1>3. CASE RedisStepBack(r)
  BY <1>1, <1>3 DEF TypeOK, RedisStepBack, Full, Leave, NoFailure, OnlyOf
<1>4. CASE RedisFails(r)
  BY <1>1, <1>4 DEF TypeOK, RedisFails, MarkDown, OnlyOf
<1>5. CASE DatabaseTake(r)
  BY <1>1, <1>5 DEF TypeOK, DatabaseTake, Pass, NoFailure, OnlyOf
<1>6. CASE DatabaseInsert(r)
  BY <1>1, <1>6 DEF TypeOK, DatabaseInsert, Pass, NoFailure, OnlyOf
<1>7. CASE DatabaseTakeAgain(r)
  BY <1>1, <1>7 DEF TypeOK, DatabaseTakeAgain, Pass, Full, Leave, NoFailure, OnlyOf
<1>8. CASE Serve(r)
  BY <1>1, <1>8 DEF TypeOK, Serve, NoFailure, OnlyOf
<1>9. CASE TurnAway(r)
  BY <1>1, <1>9 DEF TypeOK, TurnAway, Leave, NoFailure, OnlyOf
<1>10. CASE GiveBack(r)
  BY <1>1, <1>10 DEF TypeOK, GiveBack, Leave, NoFailure, MarkDown, OnlyOf
<1>. QED
  BY <1>2, <1>3, <1>4, <1>5, <1>6, <1>7, <1>8, <1>9, <1>10 DEF Step

\* What Takes looked at is what the counter says afterwards.
LEMMA TakenWithinLimit ==
    ASSUME TypeOK, NEW s \in Subjects, NEW m \in Minutes, Takes(s, m),
           used' = Add("database", s, m, 1)
    PROVE  PerMinute[s] = 0 \/ used'["database"][s][m] <= PerMinute[s]
<1>1. PerMinute[s] \in Nat /\ "database" \in Ledgers /\ used["database"][s][m] \in Int
  BY QuotaAssumption DEF Ledgers, TypeOK
<1>2. used'["database"][s][m] = used["database"][s][m] + 1
  <2>1. 1 \in Int
    OBVIOUS
  <2>. QED
    BY <1>1, <2>1, ThisOne
<1>. QED
  BY <1>1, <1>2 DEF Takes

\* Every step of a request is of one of six kinds.
LEMMA Kinds ==
    ASSUME TypeOK, TypeOK', NEW r \in Requests, Step(r)
    PROVE  \/ Moved(r)
           \/ \E l \in Ledgers, m \in Minutes : LetIn(r, l, m)
           \/ FullGate(r)
           \/ Serve(r)
           \/ TurnAway(r)
           \/ GiveBack(r)
<1>1. /\ Subject(r) \in Subjects /\ minute \in Minutes /\ at[r] \in Minutes /\ minute <= minute
      /\ "redis" \in Ledgers /\ "database" \in Ledgers /\ PerMinute[Subject(r)] \in Nat
      /\ pc \in [Requests -> Places]
  <2>1. Subject(r) \in Subjects /\ minute \in Minutes /\ at[r] \in Minutes
    BY AtGate
  <2>2. minute <= minute
    BY <2>1 DEF Minutes
  <2>. QED
    BY <2>1, <2>2, QuotaAssumption DEF Ledgers, TypeOK, Places
<1>2. CASE RedisTake(r)
  <2>1. CASE pc' = [pc EXCEPT ![r] = "backing"] /\ UNCHANGED <<gate, todo, took>>
    BY <1>1, <1>2, <2>1 DEF RedisTake, Moved, InHand
  <2>2. CASE ~Beyond(Subject(r), used'["redis"][Subject(r)][minute]) /\ Pass(r, "redis", minute)
    <3>1. PerMinute[Subject(r)] = 0 \/ used'["redis"][Subject(r)][minute] <= PerMinute[Subject(r)]
      <4>1. used'["redis"][Subject(r)][minute] \in Int
        BY <1>1 DEF TypeOK
      <4>. QED
        BY <1>1, <2>2, <4>1 DEF Beyond
    <3>2. LetIn(r, "redis", minute)
      BY <1>1, <1>2, <2>2, <3>1 DEF RedisTake, LetIn, InHand, UsingRedis
    <3>. QED
      BY <1>1, <3>2
  <2>. QED
    BY <1>2, <2>1, <2>2 DEF RedisTake
<1>3. CASE RedisStepBack(r)
  BY <1>3 DEF RedisStepBack, FullGate, InHand
<1>4. CASE RedisFails(r)
  BY <1>1, <1>4 DEF RedisFails, Moved, InHand
<1>5. CASE DatabaseTake(r)
  <2>1. CASE pc' = [pc EXCEPT ![r] = "insert"] /\ UNCHANGED <<used, gate, todo, took>>
    BY <1>1, <1>5, <2>1 DEF DatabaseTake, Moved, InHand
  <2>2. CASE /\ Takes(Subject(r), minute) /\ used' = Add("database", Subject(r), minute, 1)
             /\ Pass(r, "database", minute)
    <3>1. LetIn(r, "database", minute)
      BY <1>1, <1>5, <2>2, TakenWithinLimit DEF DatabaseTake, LetIn, InHand
    <3>. QED
      BY <1>1, <3>1
  <2>. QED
    BY <1>5, <2>1, <2>2 DEF DatabaseTake
<1>6. CASE DatabaseInsert(r)
  <2>1. CASE pc' = [pc EXCEPT ![r] = "again"] /\ UNCHANGED <<used, rows, gate, todo, took>>
    BY <1>1, <1>6, <2>1 DEF DatabaseInsert, Moved, InHand
  <2>2. CASE used' = Set("database", Subject(r), at[r], 1) /\ Pass(r, "database", at[r])
    <3>1. used'["database"][Subject(r)][at[r]] = 1
      <4>1. 1 \in Int
        OBVIOUS
      <4>. QED
        BY <1>1, <2>2, <4>1, ThisOne
    <3>2. LetIn(r, "database", at[r])
      BY <1>1, <1>6, <2>2, <3>1 DEF DatabaseInsert, LetIn, InHand
    <3>. QED
      BY <1>1, <3>2
  <2>. QED
    BY <1>6, <2>1, <2>2 DEF DatabaseInsert, Set
<1>7. CASE DatabaseTakeAgain(r)
  <2>1. CASE Full(r)
    BY <1>7, <2>1 DEF DatabaseTakeAgain, FullGate, InHand
  <2>2. CASE /\ Takes(Subject(r), at[r]) /\ used' = Add("database", Subject(r), at[r], 1)
             /\ Pass(r, "database", at[r])
    <3>1. LetIn(r, "database", at[r])
      BY <1>1, <1>7, <2>2, TakenWithinLimit DEF DatabaseTakeAgain, LetIn, InHand
    <3>. QED
      BY <1>1, <3>1
  <2>. QED
    BY <1>7, <2>1, <2>2 DEF DatabaseTakeAgain
<1>. QED
  BY <1>2, <1>3, <1>4, <1>5, <1>6, <1>7 DEF Step

-----------------------------------------------------------------------------
(* Where a request holds places. *)

Passed(r) == \A i \in 1..Len(Gates[r]) : took[r][Gates[r][i]] # Nowhere <=> i < gate[r]

\* A request took its places at the gates behind it, in their order, and gives
\* none back before it leaves.
PlacedAs(r) ==
    /\ \A s \in Subjects : took[r][s] # Nowhere => \E i \in 1..Len(Gates[r]) : Gates[r][i] = s
    /\ pc[r] \in InHand => Passed(r)
    /\ pc[r] \in {"admitted", "served"} =>
          \A i \in 1..Len(Gates[r]) : took[r][Gates[r][i]] # Nowhere
    /\ pc[r] \notin {"leaving", "refused"} => \A s \in Subjects : gave[r][s] = Nowhere
    /\ \A s \in Subjects : gave[r][s] # Nowhere => took[r][s] # Nowhere

\* What it still gives back it holds, and gives back once.
OweAs(r) ==
    \A i \in 1..Len(todo[r]) :
        /\ \A j \in 1..Len(todo[r]) : todo[r][i] = todo[r][j] => i = j
        /\ took[r][todo[r][i]] # Nowhere /\ gave[r][todo[r][i]] = Nowhere

PlacesByGate == \A r \in Requests : PlacedAs(r) /\ OweAs(r)

\* What a gate lets in is a place the request did not have.
LEMMA NewPlace ==
    ASSUME TypeOK, NEW r \in Requests, PlacedAs(r), NEW l \in Ledgers, NEW m \in Minutes,
           LetIn(r, l, m)
    PROVE  /\ Subject(r) \in Subjects /\ took[r][Subject(r)] = Nowhere
           /\ <<l, m>> \in Spots /\ <<l, m>> # Nowhere
           /\ took'[r] = [took[r] EXCEPT ![Subject(r)] = <<l, m>>]
           /\ \A s \in Subjects : gave[r][s] = Nowhere
<1>1. gate[r] \in 1..Len(Gates[r]) /\ Subject(r) \in Subjects
  BY AtGate
<1>2. took[r][Subject(r)] = Nowhere
  <2>1. ~(gate[r] < gate[r])
    BY <1>1
  <2>. QED
    BY <1>1, <2>1 DEF PlacedAs, LetIn, Passed, Subject
<1>3. <<l, m>> \in Spots /\ <<l, m>> # Nowhere
  BY DEF Spots, Ledgers, Nowhere
<1>4. took'[r] = [took[r] EXCEPT ![Subject(r)] = <<l, m>>]
  BY DEF LetIn, Pass, TypeOK
<1>5. \A s \in Subjects : gave[r][s] = Nowhere
  BY DEF LetIn, PlacedAs, InHand
<1>. QED
  BY <1>1, <1>2, <1>3, <1>4, <1>5

\* It gives back what is first in its list.
LEMMA NextToGive ==
    ASSUME TypeOK, NEW r \in Requests, OweAs(r), pc[r] = "leaving"
    PROVE  LET s == Head(todo[r]) IN
           /\ s \in Subjects /\ todo[r] \in Seq(Subjects) /\ Len(todo[r]) \in Nat \ {0}
           /\ s = todo[r][1] /\ took[r][s] \in Spots /\ gave[r][s] = Nowhere
           /\ Tail(todo[r]) \in Seq(Subjects) /\ Len(Tail(todo[r])) = Len(todo[r]) - 1
           /\ \A i \in 1..Len(Tail(todo[r])) :
                 Tail(todo[r])[i] = todo[r][i + 1] /\ Tail(todo[r])[i] # s
<1>1. todo[r] \in Seq(Subjects) /\ todo[r] # << >>
  BY DEF TypeOK
<1>2. /\ Len(todo[r]) \in Nat \ {0} /\ Head(todo[r]) \in Subjects /\ Head(todo[r]) = todo[r][1]
      /\ Tail(todo[r]) \in Seq(Subjects) /\ Len(Tail(todo[r])) = Len(todo[r]) - 1
      /\ \A i \in 1..Len(Tail(todo[r])) : Tail(todo[r])[i] = todo[r][i + 1]
  BY <1>1
<1>3. took[r][Head(todo[r])] \in Spots /\ gave[r][Head(todo[r])] = Nowhere
  <2>1. 1 \in 1..Len(todo[r])
    BY <1>2
  <2>. QED
    BY <1>2, <2>1 DEF OweAs, TypeOK
<1>4. \A i \in 1..Len(Tail(todo[r])) : Tail(todo[r])[i] # Head(todo[r])
  <2>. SUFFICES ASSUME NEW i \in 1..Len(Tail(todo[r])) PROVE Tail(todo[r])[i] # Head(todo[r])
    OBVIOUS
  <2>1. i + 1 \in 1..Len(todo[r]) /\ 1 \in 1..Len(todo[r]) /\ i + 1 # 1
    BY <1>2
  <2>2. todo[r][i + 1] # todo[r][1]
    BY <2>1 DEF OweAs
  <2>. QED
    BY <1>2, <2>2
<1>. QED
  BY <1>1, <1>2, <1>3, <1>4

\* What it gave back changes at the head of its list, or not at all.
LEMMA GivesHead ==
    ASSUME TypeOK, NEW r \in Requests, GiveBack(r)
    PROVE  LET s == Head(todo[r]) IN
           /\ took' = took /\ todo' = [todo EXCEPT ![r] = Tail(todo[r])]
           /\ todo'[r] = Tail(todo[r]) /\ pc[r] = "leaving" /\ pc'[r] \in {"leaving", "refused"}
           /\ \/ gave' = gave
              \/ \E l \in Ledgers : gave' = [gave EXCEPT ![r][s] = <<l, minute>>]
<1>1. took' = took /\ todo' = [todo EXCEPT ![r] = Tail(todo[r])]
      /\ todo'[r] = Tail(todo[r]) /\ pc[r] = "leaving" /\ pc'[r] \in {"leaving", "refused"}
  BY DEF TypeOK, GiveBack, Leave
<1>2. \/ gave' = gave
      \/ gave' = [gave EXCEPT ![r][Head(todo[r])] = <<"redis", minute>>]
      \/ gave' = [gave EXCEPT ![r][Head(todo[r])] = <<"database", minute>>]
  BY DEF GiveBack
<1>. QED
  BY <1>1, <1>2 DEF Ledgers

\* The places of the request that takes a step.
LEMMA PlacesOfOne ==
    ASSUME TypeOK, TypeOK', NEW r \in Requests, Step(r), PlacedAs(r), OweAs(r)
    PROVE  PlacedAs(r)' /\ OweAs(r)'
<1>1. /\ gate[r] \in 1..Len(Gates[r]) /\ Len(Gates[r]) \in Nat
      /\ Gates[r] \in Seq(Subjects)
      /\ \A i \in 1..Len(Gates[r]) : Gates[r][i] \in Subjects
      /\ \A i, j \in 1..Len(Gates[r]) : Gates[r][i] = Gates[r][j] => i = j
      /\ Gates[r][gate[r]] = Subject(r)
  BY AtGate, QuotaAssumption DEF Subject
<1>2. CASE Moved(r)
  <2>1. took' = took /\ gave' = gave /\ todo' = todo /\ gate' = gate
        /\ pc[r] \in InHand /\ pc'[r] \in InHand
    BY <1>2 DEF Moved
  <2>2. PlacedAs(r)'
    BY <2>1 DEF PlacedAs, Passed, InHand
  <2>. QED
    BY <2>1, <2>2 DEF OweAs
<1>3. ASSUME NEW l \in Ledgers, NEW m \in Minutes, LetIn(r, l, m)
      PROVE  PlacedAs(r)' /\ OweAs(r)'
  <2>1. /\ Subject(r) \in Subjects /\ took[r][Subject(r)] = Nowhere /\ <<l, m>> # Nowhere
        /\ took'[r] = [took[r] EXCEPT ![Subject(r)] = <<l, m>>]
        /\ took[r] \in [Subjects -> Spots \cup {Nowhere}]
        /\ \A s \in Subjects : gave[r][s] = Nowhere
    <3>1. took[r] \in [Subjects -> Spots \cup {Nowhere}]
      BY DEF TypeOK
    <3>2. /\ Subject(r) \in Subjects /\ took[r][Subject(r)] = Nowhere /\ <<l, m>> # Nowhere
          /\ took'[r] = [took[r] EXCEPT ![Subject(r)] = <<l, m>>]
          /\ \A s \in Subjects : gave[r][s] = Nowhere
      BY <1>3, NewPlace, Zenon
    <3>. QED
      BY <3>1, <3>2
  <2>2. gave' = gave /\ todo' = todo /\ todo[r] = << >> /\ pc[r] \in InHand
    BY <1>3 DEF LetIn, Pass, TypeOK, InHand
  <2>3. \A i \in 1..Len(Gates[r]) : took'[r][Gates[r][i]] # Nowhere <=> i < gate[r] + 1
    <3>. SUFFICES ASSUME NEW i \in 1..Len(Gates[r])
                  PROVE  took'[r][Gates[r][i]] # Nowhere <=> i < gate[r] + 1
      OBVIOUS
    <3>1. took[r][Gates[r][i]] # Nowhere <=> i < gate[r]
      BY <2>2 DEF PlacedAs, Passed
    <3>2. took'[r][Gates[r][i]] = IF i = gate[r] THEN <<l, m>> ELSE took[r][Gates[r][i]]
      BY <1>1, <2>1
    <3>. QED
      BY <1>1, <2>1, <3>1, <3>2
  <2>4. \A s \in Subjects : took'[r][s] # Nowhere => \E i \in 1..Len(Gates[r]) : Gates[r][i] = s
    BY <1>1, <2>1 DEF PlacedAs
  <2>5. \/ gate[r] = Len(Gates[r]) /\ pc'[r] = "admitted"
        \/ gate'[r] = gate[r] + 1 /\ pc'[r] = "asking"
    BY <1>3 DEF LetIn, Pass, TypeOK
  <2>6. PlacedAs(r)'
    BY <1>1, <2>1, <2>2, <2>3, <2>4, <2>5 DEF PlacedAs, Passed, InHand
  <2>7. OweAs(r)'
    BY <2>2 DEF OweAs
  <2>. QED
    BY <2>6, <2>7
<1>4. CASE FullGate(r)
  <2>. DEFINE before == SubSeq(Gates[r], 1, gate[r] - 1)
  <2>1. /\ before \in Seq(Subjects) /\ Len(before) = gate[r] - 1
        /\ \A i \in 1..(gate[r] - 1) : before[i] = Gates[r][i]
    BY EarlierGates
  <2>2. /\ took' = took /\ gave' = gave /\ gate' = gate /\ todo'[r] = before
        /\ pc[r] \in InHand /\ pc'[r] \in {"leaving", "refused"}
    BY <1>4 DEF FullGate, Full, Leave, TypeOK
  <2>3. \A s \in Subjects : gave[r][s] = Nowhere
    BY <2>2 DEF PlacedAs, InHand
  <2>4. PlacedAs(r)'
    BY <2>2, <2>3 DEF PlacedAs, InHand
  <2>5. ASSUME NEW i \in 1..Len(before)
        PROVE  /\ \A j \in 1..Len(before) : before[i] = before[j] => i = j
               /\ took[r][before[i]] # Nowhere /\ gave[r][before[i]] = Nowhere
    <3>1. i \in 1..(gate[r] - 1) /\ i \in 1..Len(Gates[r]) /\ i < gate[r]
      BY <1>1, <2>1
    <3>2. took[r][Gates[r][i]] # Nowhere /\ gave[r][Gates[r][i]] = Nowhere
      BY <1>1, <2>2, <2>3, <3>1 DEF PlacedAs, Passed
    <3>3. ASSUME NEW j \in 1..Len(before), before[i] = before[j]
          PROVE  i = j
      BY <1>1, <2>1, <3>1, <3>3
    <3>. QED
      BY <2>1, <3>1, <3>2, <3>3
  <2>6. OweAs(r)'
    BY <2>2, <2>5 DEF OweAs
  <2>. QED
    BY <2>4, <2>6
<1>5. CASE Serve(r)
  <2>1. took' = took /\ gave' = gave /\ todo' = todo /\ gate' = gate
        /\ pc[r] = "admitted" /\ pc'[r] = "served"
    BY <1>5 DEF Serve, TypeOK
  <2>. QED
    BY <2>1 DEF PlacedAs, OweAs, InHand
<1>6. CASE TurnAway(r)
  <2>1. /\ took' = took /\ gave' = gave /\ gate' = gate /\ todo'[r] = Gates[r]
        /\ pc[r] = "admitted" /\ pc'[r] \in {"leaving", "refused"}
    BY <1>6 DEF TurnAway, Leave, TypeOK
  <2>2. \A s \in Subjects : gave[r][s] = Nowhere
    BY <2>1 DEF PlacedAs
  <2>3. PlacedAs(r)'
    BY <2>1 DEF PlacedAs, InHand
  <2>4. OweAs(r)'
    BY <1>1, <2>1, <2>2 DEF PlacedAs, OweAs
  <2>. QED
    BY <2>3, <2>4
<1>7. CASE GiveBack(r)
  <2>. DEFINE s == Head(todo[r])
              rest == Tail(todo[r])
  <2>1. /\ s \in Subjects /\ took[r][s] \in Spots /\ gave[r][s] = Nowhere
        /\ rest \in Seq(Subjects) /\ Len(rest) = Len(todo[r]) - 1 /\ Len(todo[r]) \in Nat \ {0}
        /\ \A i \in 1..Len(rest) : rest[i] = todo[r][i + 1] /\ rest[i] # s
    BY <1>7, NextToGive DEF GiveBack
  <2>2. /\ took' = took /\ todo'[r] = rest /\ pc[r] = "leaving" /\ pc'[r] \in {"leaving", "refused"}
        /\ \/ gave' = gave
           \/ \E l \in Ledgers : gave' = [gave EXCEPT ![r][s] = <<l, minute>>]
    BY <1>7, GivesHead
  <2>3. \A t \in Subjects : t # s => gave'[r][t] = gave[r][t]
    BY <2>1, <2>2 DEF TypeOK
  <2>4. took[r][s] # Nowhere
    BY <2>1 DEF Spots, Ledgers, Nowhere
  <2>5. PlacedAs(r)'
    BY <2>2, <2>3, <2>4 DEF PlacedAs, InHand
  <2>6. ASSUME NEW i \in 1..Len(rest)
        PROVE  /\ \A j \in 1..Len(rest) : rest[i] = rest[j] => i = j
               /\ took[r][rest[i]] # Nowhere /\ gave'[r][rest[i]] = Nowhere
    <3>1. /\ i + 1 \in 1..Len(todo[r]) /\ rest[i] = todo[r][i + 1] /\ rest[i] # s
          /\ rest[i] \in Subjects
      BY <2>1
    <3>2. took[r][rest[i]] # Nowhere /\ gave[r][rest[i]] = Nowhere
      BY <3>1 DEF OweAs
    <3>3. ASSUME NEW j \in 1..Len(rest), rest[i] = rest[j]
          PROVE  i = j
      <4>1. j + 1 \in 1..Len(todo[r]) /\ rest[j] = todo[r][j + 1]
        BY <2>1
      <4>2. i + 1 = j + 1
        BY <3>1, <3>3, <4>1 DEF OweAs
      <4>. QED
        BY <4>2
    <3>. QED
      BY <2>3, <3>1, <3>2, <3>3
  <2>7. OweAs(r)'
    BY <2>2, <2>6 DEF OweAs
  <2>. QED
    BY <2>5, <2>7
<1>. QED
  BY <1>2, <1>3, <1>4, <1>5, <1>6, <1>7, Kinds

\* The places of all requests.
LEMMA PlacesStep ==
    ASSUME TypeOK, TypeOK', PlacesByGate, NEW r \in Requests, Step(r)
    PROVE  PlacesByGate'
<1>1. PlacedAs(r)' /\ OweAs(r)'
  BY PlacesOfOne DEF PlacesByGate
<1>2. ASSUME NEW q \in Requests \ {r}
      PROVE  PlacedAs(q)' /\ OweAs(q)'
  <2>1. /\ PlacedAs(q) /\ OweAs(q)
        /\ pc'[q] = pc[q] /\ gate'[q] = gate[q] /\ todo'[q] = todo[q]
        /\ took'[q] = took[q] /\ gave'[q] = gave[q]
    BY Frame DEF PlacesByGate, OnlyOf
  <2>. QED
    BY <2>1 DEF PlacedAs, OweAs, Passed
<1>. QED
  BY <1>1, <1>2 DEF PlacesByGate

-----------------------------------------------------------------------------
(* What the counters say of one request. *)

\* The share of a request in a counter.
Share(r, l, s, m) ==
    One(took[r][s] = <<l, m>>) - One(gave[r][s] = <<l, m>>)
    + IF l = "redis" THEN One(pc[r] = "backing" /\ Subject(r) = s /\ at[r] = m) ELSE 0

Count(l, s, m) ==
    Cardinality(Booked(s, l, m)) - Cardinality(Returned(s, l, m))
    + (IF l = "redis" THEN Cardinality(Passing(s, m)) ELSE 0)

\* The count is a number.
LEMMA CountIsInt ==
    ASSUME NEW l, NEW s, NEW m
    PROVE  /\ Cardinality(Booked(s, l, m)) \in Nat /\ Cardinality(Returned(s, l, m)) \in Nat
           /\ Cardinality(Passing(s, m)) \in Nat /\ Count(l, s, m) \in Int
<1>1. /\ Booked(s, l, m) \in SUBSET Requests /\ Returned(s, l, m) \in SUBSET Requests
      /\ Passing(s, m) \in SUBSET Requests
  BY DEF Booked, Returned, Passing
<1>2. /\ Cardinality(Booked(s, l, m)) \in Nat /\ Cardinality(Returned(s, l, m)) \in Nat
      /\ Cardinality(Passing(s, m)) \in Nat
  BY <1>1, RequestSets
<1>. QED
  BY <1>2 DEF Count

\* A count changes by what the share of one request changes.
LEMMA Tally ==
    ASSUME NEW r \in Requests, OnlyOf(r), NEW l, NEW s, NEW m
    PROVE  /\ Count(l, s, m)' \in Int /\ Count(l, s, m) \in Int
           /\ Share(r, l, s, m)' \in Int /\ Share(r, l, s, m) \in Int
           /\ Count(l, s, m)' - Count(l, s, m) = Share(r, l, s, m)' - Share(r, l, s, m)
<1>. DEFINE B == Booked(s, l, m)  R == Returned(s, l, m)  P == Passing(s, m)
<1>1. /\ B \in SUBSET Requests /\ R \in SUBSET Requests /\ P \in SUBSET Requests
      /\ B' \in SUBSET Requests /\ R' \in SUBSET Requests /\ P' \in SUBSET Requests
  BY DEF Booked, Returned, Passing
<1>2. \A q \in Requests \ {r} :
         (q \in B <=> q \in B') /\ (q \in R <=> q \in R') /\ (q \in P <=> q \in P')
  BY DEF Booked, Returned, Passing, OnlyOf, Subject
<1>3. /\ Cardinality(B) \in Nat /\ Cardinality(B') \in Nat
      /\ Cardinality(B') = Cardinality(B) - One(r \in B) + One(r \in B')
  BY <1>1, <1>2, OneMoves
<1>4. /\ Cardinality(R) \in Nat /\ Cardinality(R') \in Nat
      /\ Cardinality(R') = Cardinality(R) - One(r \in R) + One(r \in R')
  BY <1>1, <1>2, OneMoves
<1>5. /\ Cardinality(P) \in Nat /\ Cardinality(P') \in Nat
      /\ Cardinality(P') = Cardinality(P) - One(r \in P) + One(r \in P')
  BY <1>1, <1>2, OneMoves
<1>6. /\ r \in B <=> took[r][s] = <<l, m>>
      /\ r \in B' <=> took'[r][s] = <<l, m>>
      /\ r \in R <=> gave[r][s] = <<l, m>>
      /\ r \in R' <=> gave'[r][s] = <<l, m>>
      /\ r \in P <=> pc[r] = "backing" /\ Subject(r) = s /\ at[r] = m
      /\ r \in P' <=> pc'[r] = "backing" /\ Subject(r)' = s /\ at'[r] = m
  BY DEF Booked, Returned, Passing
<1>7. /\ Share(r, l, s, m) = One(r \in B) - One(r \in R) + IF l = "redis" THEN One(r \in P) ELSE 0
      /\ Share(r, l, s, m)' = One(r \in B') - One(r \in R') + IF l = "redis" THEN One(r \in P') ELSE 0
  BY <1>6 DEF Share, One
<1>8. /\ Count(l, s, m) = Cardinality(B) - Cardinality(R) + IF l = "redis" THEN Cardinality(P) ELSE 0
      /\ Count(l, s, m)' = Cardinality(B') - Cardinality(R') + IF l = "redis" THEN Cardinality(P') ELSE 0
  BY DEF Count
<1>. DEFINE cb == Cardinality(B)  cr == Cardinality(R)  cp == Cardinality(P)
            nb == Cardinality(B')  nr == Cardinality(R')  np == Cardinality(P')
            ob == One(r \in B)  or == One(r \in R)  op == One(r \in P)
            ib == One(r \in B')  ir == One(r \in R')  ip == One(r \in P')
<1>9. ob \in Int /\ or \in Int /\ op \in Int /\ ib \in Int /\ ir \in Int /\ ip \in Int
  BY DEF One
<1>10. /\ cb \in Int /\ cr \in Int /\ cp \in Int
       /\ nb \in Int /\ nr \in Int /\ np \in Int
       /\ nb = cb - ob + ib /\ nr = cr - or + ir /\ np = cp - op + ip
  BY <1>3, <1>4, <1>5
<1>11. /\ Share(r, l, s, m) = ob - or + IF l = "redis" THEN op ELSE 0
       /\ Share(r, l, s, m)' = ib - ir + IF l = "redis" THEN ip ELSE 0
       /\ Count(l, s, m) = cb - cr + IF l = "redis" THEN cp ELSE 0
       /\ Count(l, s, m)' = nb - nr + IF l = "redis" THEN np ELSE 0
  BY <1>7, <1>8
<1>. HIDE DEF B, R, P, cb, cr, cp, nb, nr, np, ob, or, op, ib, ir, ip
<1>. QED
  BY <1>9, <1>10, <1>11

\* The share of a request that is let in.
LEMMA ShareOfLetIn ==
    ASSUME TypeOK, NEW r \in Requests, PlacedAs(r), pc[r] # "backing",
           NEW l \in Ledgers, NEW m \in Minutes, LetIn(r, l, m)
    PROVE  \A k \in Ledgers, t \in Subjects, i \in Minutes :
              Share(r, k, t, i)' - Share(r, k, t, i) =
                  IF k = l /\ t = Subject(r) /\ i = m THEN 1 ELSE 0
<1>1. /\ Subject(r) \in Subjects /\ took[r][Subject(r)] = Nowhere
      /\ took'[r] = [took[r] EXCEPT ![Subject(r)] = <<l, m>>]
  BY NewPlace, Zenon
<1>2. took[r] \in [Subjects -> Spots \cup {Nowhere}] /\ gave' = gave
      /\ pc[r] # "backing" /\ pc'[r] # "backing"
  BY DEF TypeOK, LetIn, Pass
<1>3. ASSUME NEW k \in Ledgers, NEW t \in Subjects, NEW i \in Minutes
      PROVE  Share(r, k, t, i)' - Share(r, k, t, i) =
                  IF k = l /\ t = Subject(r) /\ i = m THEN 1 ELSE 0
  <2>1. <<k, i>> # Nowhere
    BY DEF Ledgers, Nowhere
  <2>2. /\ took[r][Subject(r)] # <<k, i>>
        /\ took'[r][t] = <<k, i>> <=> (IF t = Subject(r) THEN k = l /\ i = m ELSE took[r][t] = <<k, i>>)
    BY <1>1, <1>2, <2>1
  <2>3. One(took'[r][t] = <<k, i>>) - One(took[r][t] = <<k, i>>) =
           IF k = l /\ t = Subject(r) /\ i = m THEN 1 ELSE 0
    BY <2>2 DEF One
  <2>4. /\ Share(r, k, t, i) = One(took[r][t] = <<k, i>>) - One(gave[r][t] = <<k, i>>)
        /\ Share(r, k, t, i)' = One(took'[r][t] = <<k, i>>) - One(gave[r][t] = <<k, i>>)
    BY <1>2 DEF Share, One
  <2>5. /\ One(took[r][t] = <<k, i>>) \in Int /\ One(took'[r][t] = <<k, i>>) \in Int
        /\ One(gave[r][t] = <<k, i>>) \in Int
    BY DEF One
  <2>. QED
    BY <2>3, <2>4, <2>5
<1>. QED
  BY <1>3

\* The counters change by what the share of the request changes, for every
\* step of a request that no call to Redis failed in.
Exactly(r, l, s, m) ==
    used'[l][s][m] - used[l][s][m] = Share(r, l, s, m)' - Share(r, l, s, m)

\* A request that is let in.
LEMMA LetInExactly ==
    ASSUME TypeOK, NEW r \in Requests, PlacedAs(r), pc[r] # "backing",
           NEW l \in Ledgers, NEW m \in Minutes, LetIn(r, l, m),
           used' = Add(l, Subject(r), m, 1)
    PROVE  \A k \in Ledgers, t \in Subjects, i \in Minutes : Exactly(r, k, t, i)
<1>1. Subject(r) \in Subjects /\ 1 \in Int
  BY AtGate
<1>2. \A k \in Ledgers, t \in Subjects, i \in Minutes :
         Share(r, k, t, i)' - Share(r, k, t, i) = IF k = l /\ t = Subject(r) /\ i = m THEN 1 ELSE 0
  BY ShareOfLetIn
<1>3. ASSUME NEW k \in Ledgers, NEW t \in Subjects, NEW i \in Minutes
      PROVE  Exactly(r, k, t, i)
  <2>1. used[k][t][i] \in Int
    BY DEF TypeOK
  <2>2. used'[k][t][i] = used[k][t][i] + IF k = l /\ t = Subject(r) /\ i = m THEN 1 ELSE 0
    BY <1>1, Added
  <2>3. Share(r, k, t, i)' - Share(r, k, t, i) =
           IF k = l /\ t = Subject(r) /\ i = m THEN 1 ELSE 0
    BY <1>2
  <2>. QED
    BY <2>1, <2>2, <2>3 DEF Exactly
<1>. QED
  BY <1>3

\* A step that leaves the counters and the share of the request alone.
LEMMA UntouchedExactly ==
    ASSUME TypeOK, NEW r \in Requests, used' = used, took' = took, gave' = gave,
           pc[r] # "backing", pc'[r] # "backing",
           NEW k \in Ledgers, NEW t \in Subjects, NEW i \in Minutes
    PROVE  Exactly(r, k, t, i)
<1>1. used[k][t][i] \in Int
  BY DEF TypeOK
<1>2. /\ Share(r, k, t, i) = One(took[r][t] = <<k, i>>) - One(gave[r][t] = <<k, i>>)
      /\ Share(r, k, t, i)' = One(took[r][t] = <<k, i>>) - One(gave[r][t] = <<k, i>>)
  BY DEF Share, One
<1>3. One(took[r][t] = <<k, i>>) \in Int /\ One(gave[r][t] = <<k, i>>) \in Int
  BY DEF One
<1>. QED
  BY <1>1, <1>2, <1>3 DEF Exactly

\* What only goes in and comes out of Redis.
LEMMA ShareOfBacking ==
    ASSUME TypeOK, NEW r \in Requests, took' = took, gave' = gave,
           NEW k \in Ledgers, NEW t \in Subjects, NEW i \in Minutes
    PROVE  Share(r, k, t, i)' - Share(r, k, t, i) =
              IF k = "redis"
              THEN One(pc'[r] = "backing" /\ Subject(r)' = t /\ at'[r] = i)
                   - One(pc[r] = "backing" /\ Subject(r) = t /\ at[r] = i)
              ELSE 0
<1>. DEFINE x == One(took[r][t] = <<k, i>>)  y == One(gave[r][t] = <<k, i>>)
            v == One(pc[r] = "backing" /\ Subject(r) = t /\ at[r] = i)
            u == One(pc'[r] = "backing" /\ Subject(r)' = t /\ at'[r] = i)
<1>1. x \in Int /\ y \in Int /\ u \in Int /\ v \in Int
  BY DEF One
<1>2. /\ Share(r, k, t, i) = x - y + IF k = "redis" THEN v ELSE 0
      /\ Share(r, k, t, i)' = x - y + IF k = "redis" THEN u ELSE 0
  BY DEF Share
<1>3. Share(r, k, t, i)' - Share(r, k, t, i) = IF k = "redis" THEN u - v ELSE 0
  <2>. HIDE DEF x, y, u, v
  <2>. QED
    BY <1>1, <1>2
<1>. QED
  BY <1>3

\* Counting first and stepping back is in Redis what passing is.
LEMMA RedisTakeExactly ==
    ASSUME TypeOK, NEW r \in Requests, PlacedAs(r), RedisTake(r)
    PROVE  \A k \in Ledgers, t \in Subjects, i \in Minutes : Exactly(r, k, t, i)
<1>1. /\ Subject(r) \in Subjects /\ minute \in Minutes /\ "redis" \in Ledgers /\ 1 \in Int
      /\ used' = Add("redis", Subject(r), minute, 1) /\ pc[r] = "asking"
  BY AtGate DEF RedisTake, Ledgers
<1>2. CASE pc' = [pc EXCEPT ![r] = "backing"] /\ UNCHANGED <<gate, todo, took>>
  <2>. SUFFICES ASSUME NEW k \in Ledgers, NEW t \in Subjects, NEW i \in Minutes
                PROVE  Exactly(r, k, t, i)
    OBVIOUS
  <2>1. /\ took' = took /\ gave' = gave /\ Subject(r)' = Subject(r)
        /\ pc[r] # "backing" /\ pc'[r] = "backing" /\ at'[r] = minute
    BY <1>1, <1>2 DEF RedisTake, TypeOK, Subject
  <2>2. Share(r, k, t, i)' - Share(r, k, t, i) =
           IF k = "redis" /\ Subject(r) = t /\ minute = i THEN 1 ELSE 0
    BY <2>1, ShareOfBacking DEF One
  <2>3. used'[k][t][i] = used[k][t][i] + IF k = "redis" /\ t = Subject(r) /\ i = minute THEN 1 ELSE 0
    BY <1>1, Added
  <2>4. used[k][t][i] \in Int
    BY DEF TypeOK
  <2>. QED
    BY <2>2, <2>3, <2>4 DEF Exactly
<1>3. CASE ~Beyond(Subject(r), used'["redis"][Subject(r)][minute]) /\ Pass(r, "redis", minute)
  <2>1. PerMinute[Subject(r)] = 0 \/ used'["redis"][Subject(r)][minute] <= PerMinute[Subject(r)]
    <3>1. used'["redis"][Subject(r)][minute] \in Int
      <4>1. used'["redis"][Subject(r)][minute] = used["redis"][Subject(r)][minute] + 1
        BY <1>1, ThisOne
      <4>2. used["redis"][Subject(r)][minute] \in Int
        BY <1>1 DEF TypeOK
      <4>. QED
        BY <4>1, <4>2
    <3>2. PerMinute[Subject(r)] \in Nat
      BY <1>1, QuotaAssumption
    <3>. QED
      BY <1>3, <3>1, <3>2 DEF Beyond
  <2>2. minute <= minute
    BY <1>1 DEF Minutes
  <2>3. LetIn(r, "redis", minute)
    BY <1>1, <1>3, <2>1, <2>2 DEF RedisTake, LetIn, InHand, UsingRedis
  <2>. QED
    BY <1>1, <2>3, LetInExactly
<1>. QED
  BY <1>2, <1>3 DEF RedisTake

\* A step back.
LEMMA StepBackExactly ==
    ASSUME TypeOK, NEW r \in Requests, RedisStepBack(r)
    PROVE  \A k \in Ledgers, t \in Subjects, i \in Minutes : Exactly(r, k, t, i)
<1>. SUFFICES ASSUME NEW k \in Ledgers, NEW t \in Subjects, NEW i \in Minutes
              PROVE  Exactly(r, k, t, i)
  OBVIOUS
<1>1. /\ Subject(r) \in Subjects /\ at[r] \in Minutes /\ "redis" \in Ledgers /\ -1 \in Int
      /\ used' = Add("redis", Subject(r), at[r], -1)
  BY AtGate DEF RedisStepBack, Ledgers
<1>2. /\ took' = took /\ gave' = gave /\ pc[r] = "backing" /\ pc'[r] # "backing"
  BY DEF RedisStepBack, Full, Leave, TypeOK
<1>3. Share(r, k, t, i)' - Share(r, k, t, i) =
         IF k = "redis" /\ Subject(r) = t /\ at[r] = i THEN -1 ELSE 0
  BY <1>2, ShareOfBacking DEF One
<1>4. used'[k][t][i] = used[k][t][i] + IF k = "redis" /\ t = Subject(r) /\ i = at[r] THEN -1 ELSE 0
  BY <1>1, AddedAt
<1>5. used[k][t][i] \in Int
  BY DEF TypeOK
<1>. QED
  BY <1>3, <1>4, <1>5 DEF Exactly

\* A command that raised may have been executed: Redis counts no less than it
\* should, and the database what it should.
LEMMA RedisFailsCovers ==
    ASSUME TypeOK, NEW r \in Requests, RedisFails(r),
           NEW k \in Ledgers, NEW t \in Subjects, NEW i \in Minutes
    PROVE  /\ k = "database" => Exactly(r, k, t, i)
           /\ used'[k][t][i] - used[k][t][i] >= Share(r, k, t, i)' - Share(r, k, t, i)
<1>1. /\ Subject(r) \in Subjects /\ at[r] \in Minutes /\ minute \in Minutes
      /\ "redis" \in Ledgers /\ -1 \in Int /\ 1 \in Int /\ used[k][t][i] \in Int
  <2>1. Subject(r) \in Subjects /\ at[r] \in Minutes /\ minute \in Minutes
    BY AtGate
  <2>2. used[k][t][i] \in Int
    BY DEF TypeOK
  <2>. QED
    BY <2>1, <2>2 DEF Ledgers
<1>2. took' = took /\ gave' = gave /\ pc'[r] # "backing"
  BY DEF RedisFails, TypeOK
<1>3. Share(r, k, t, i)' - Share(r, k, t, i) =
         IF k = "redis" /\ pc[r] = "backing" /\ Subject(r) = t /\ at[r] = i THEN -1 ELSE 0
  BY <1>2, ShareOfBacking DEF One
<1>4. CASE used' = used
  BY <1>1, <1>3, <1>4 DEF Exactly, Ledgers
<1>5. CASE used' = Add("redis", Subject(r), minute, 1)
  <2>1. used'[k][t][i] = used[k][t][i] + IF k = "redis" /\ t = Subject(r) /\ i = minute THEN 1 ELSE 0
    BY <1>1, <1>5, AddedAt
  <2>. QED
    BY <1>1, <1>3, <2>1 DEF Exactly
<1>6. CASE pc[r] = "backing" /\ used' = Add("redis", Subject(r), at[r], -1)
  <2>1. used'[k][t][i] = used[k][t][i] + IF k = "redis" /\ t = Subject(r) /\ i = at[r] THEN -1 ELSE 0
    BY <1>1, <1>6, AddedAt
  <2>. QED
    BY <1>1, <1>3, <1>6, <2>1 DEF Exactly
<1>. QED
  BY <1>4, <1>5, <1>6 DEF RedisFails

\* No row, nothing counted.
EmptyWithoutRow == \A s \in Subjects, m \in Minutes : <<s, m>> \notin rows => used["database"][s][m] = 0

\* The gates of the database.
LEMMA DatabaseExactly ==
    ASSUME TypeOK, EmptyWithoutRow, NEW r \in Requests, PlacedAs(r),
           DatabaseTake(r) \/ DatabaseInsert(r) \/ DatabaseTakeAgain(r)
    PROVE  \A k \in Ledgers, t \in Subjects, i \in Minutes : Exactly(r, k, t, i)
<1>1. /\ Subject(r) \in Subjects /\ at[r] \in Minutes /\ minute \in Minutes /\ minute <= minute
      /\ "database" \in Ledgers /\ 1 \in Int /\ PerMinute[Subject(r)] \in Nat
  <2>1. Subject(r) \in Subjects /\ at[r] \in Minutes /\ minute \in Minutes
    BY AtGate
  <2>. QED
    BY <2>1, QuotaAssumption DEF Ledgers, Minutes
<1>2. pc[r] # "backing" /\ gave' = gave
  BY DEF DatabaseTake, DatabaseInsert, DatabaseTakeAgain
<1>3. CASE used' = used /\ took' = took /\ pc'[r] # "backing"
  BY <1>2, <1>3, UntouchedExactly
<1>4. CASE DatabaseTake(r)
  <2>1. CASE pc' = [pc EXCEPT ![r] = "insert"] /\ UNCHANGED <<used, gate, todo, took>>
    BY <1>3, <2>1 DEF TypeOK
  <2>2. CASE /\ Takes(Subject(r), minute) /\ used' = Add("database", Subject(r), minute, 1)
             /\ Pass(r, "database", minute)
    <3>1. LetIn(r, "database", minute)
      BY <1>1, <1>4, <2>2, TakenWithinLimit DEF DatabaseTake, LetIn, InHand
    <3>. QED
      BY <1>1, <1>2, <2>2, <3>1, LetInExactly
  <2>. QED
    BY <1>4, <2>1, <2>2 DEF DatabaseTake
<1>5. CASE DatabaseTakeAgain(r)
  <2>1. CASE Full(r) /\ used' = used
    BY <1>3, <2>1 DEF Full, Leave, TypeOK
  <2>2. CASE /\ Takes(Subject(r), at[r]) /\ used' = Add("database", Subject(r), at[r], 1)
             /\ Pass(r, "database", at[r])
    <3>1. LetIn(r, "database", at[r])
      BY <1>1, <1>5, <2>2, TakenWithinLimit DEF DatabaseTakeAgain, LetIn, InHand
    <3>. QED
      BY <1>1, <1>2, <2>2, <3>1, LetInExactly
  <2>. QED
    BY <1>5, <2>1, <2>2 DEF DatabaseTakeAgain
<1>6. CASE DatabaseInsert(r)
  <2>1. CASE pc' = [pc EXCEPT ![r] = "again"] /\ UNCHANGED <<used, rows, gate, todo, took>>
    BY <1>3, <2>1 DEF TypeOK
  <2>2. CASE /\ <<Subject(r), at[r]>> \notin rows
             /\ used' = Set("database", Subject(r), at[r], 1) /\ Pass(r, "database", at[r])
    <3>1. used["database"][Subject(r)][at[r]] = 0
      BY <1>1, <2>2 DEF EmptyWithoutRow
    <3>2. used'["database"][Subject(r)][at[r]] = 1
      BY <1>1, <2>2, ThisOne
    <3>3. LetIn(r, "database", at[r])
      BY <1>1, <1>6, <2>2, <3>2 DEF DatabaseInsert, LetIn, InHand
    <3>4. used' = Add("database", Subject(r), at[r], 1)
      <4>1. Add("database", Subject(r), at[r], 1)
               = [used EXCEPT !["database"][Subject(r)][at[r]] = used["database"][Subject(r)][at[r]] + 1]
        BY DEF Add
      <4>. QED
        BY <2>2, <3>1, <4>1 DEF Set
    <3>. QED
      BY <1>1, <1>2, <3>3, <3>4, LetInExactly
  <2>. QED
    BY <1>6, <2>1, <2>2 DEF DatabaseInsert, Set
<1>. QED
  BY <1>4, <1>5, <1>6

\* A place that is given back.
LEMMA GiveBackExactly ==
    ASSUME TypeOK, NEW r \in Requests, OweAs(r), GiveBack(r)
    PROVE  \A k \in Ledgers, t \in Subjects, i \in Minutes : Exactly(r, k, t, i)
<1>. DEFINE s == Head(todo[r])
<1>1. /\ s \in Subjects /\ gave[r][s] = Nowhere /\ minute \in Minutes /\ -1 \in Int
      /\ pc[r] # "backing" /\ pc'[r] # "backing" /\ took' = took
  <2>1. s \in Subjects /\ gave[r][s] = Nowhere
    BY NextToGive DEF GiveBack
  <2>. QED
    BY <2>1 DEF TypeOK, GiveBack, Leave
<1>2. CASE UNCHANGED <<used, gave>>
  BY <1>1, <1>2, UntouchedExactly
<1>3. ASSUME NEW l \in Ledgers, used' = Add(l, s, minute, -1),
             gave' = [gave EXCEPT ![r][s] = <<l, minute>>],
             NEW k \in Ledgers, NEW t \in Subjects, NEW i \in Minutes
      PROVE  Exactly(r, k, t, i)
  <2>. DEFINE x == One(took[r][t] = <<k, i>>)
  <2>1. <<k, i>> # Nowhere
    BY DEF Ledgers, Nowhere
  <2>2. gave'[r][t] = <<k, i>> <=> (IF t = s THEN k = l /\ i = minute ELSE gave[r][t] = <<k, i>>)
    BY <1>1, <1>3, <2>1 DEF TypeOK
  <2>. HIDE DEF s
  <2>3. One(gave[r][t] = <<k, i>>) - One(gave'[r][t] = <<k, i>>) =
           IF k = l /\ t = s /\ i = minute THEN -1 ELSE 0
    <3>1. CASE t = s
      <4>1. One(gave[r][t] = <<k, i>>) = 0
        BY <1>1, <2>1, <3>1 DEF One
      <4>2. One(gave'[r][t] = <<k, i>>) = IF k = l /\ i = minute THEN 1 ELSE 0
        BY <2>2, <3>1 DEF One
      <4>. QED
        BY <3>1, <4>1, <4>2
    <3>2. CASE t # s
      <4>1. One(gave'[r][t] = <<k, i>>) = One(gave[r][t] = <<k, i>>)
        BY <2>2, <3>2 DEF One
      <4>2. One(gave[r][t] = <<k, i>>) \in Int
        BY DEF One
      <4>. QED
        BY <3>2, <4>1, <4>2
    <3>. QED
      BY <3>1, <3>2
  <2>4. /\ Share(r, k, t, i) = x - One(gave[r][t] = <<k, i>>)
        /\ Share(r, k, t, i)' = x - One(gave'[r][t] = <<k, i>>)
    BY <1>1 DEF Share, One
  <2>5. /\ x \in Int /\ One(gave[r][t] = <<k, i>>) \in Int /\ One(gave'[r][t] = <<k, i>>) \in Int
    BY DEF One
  <2>. HIDE DEF x
  <2>6. Share(r, k, t, i)' - Share(r, k, t, i) = IF k = l /\ t = s /\ i = minute THEN -1 ELSE 0
    BY <2>3, <2>4, <2>5
  <2>7. used'[k][t][i] = used[k][t][i] + IF k = l /\ t = s /\ i = minute THEN -1 ELSE 0
    BY <1>1, <1>3, AddedAt
  <2>8. used[k][t][i] \in Int
    BY DEF TypeOK
  <2>. QED
    BY <2>6, <2>7, <2>8 DEF Exactly
<1>. QED
  BY <1>2, <1>3 DEF GiveBack, Ledgers

\* Every step of a request.
LEMMA StepCovers ==
    ASSUME TypeOK, EmptyWithoutRow, NEW r \in Requests, PlacedAs(r), OweAs(r), Step(r),
           NEW k \in Ledgers, NEW t \in Subjects, NEW i \in Minutes
    PROVE  /\ used'[k][t][i] - used[k][t][i] >= Share(r, k, t, i)' - Share(r, k, t, i)
           /\ k = "database" \/ failures' = 0 => Exactly(r, k, t, i)
<1>1. CASE Exactly(r, k, t, i)
  <2>1. OnlyOf(r)
    BY Frame
  <2>2. Share(r, k, t, i)' \in Int /\ Share(r, k, t, i) \in Int
    BY <2>1, Tally
  <2>3. used'[k][t][i] - used[k][t][i] = Share(r, k, t, i)' - Share(r, k, t, i)
    BY <1>1 DEF Exactly
  <2>. QED
    BY <1>1, <2>2, <2>3
<1>2. CASE RedisFails(r)
  <2>1. failures' # 0
    BY <1>2, QuotaAssumption DEF RedisFails, MarkDown, TypeOK
  <2>. QED
    BY <1>2, <2>1, RedisFailsCovers
<1>3. CASE RedisTake(r)
  BY <1>1, <1>3, RedisTakeExactly
<1>4. CASE RedisStepBack(r)
  BY <1>1, <1>4, StepBackExactly
<1>5. CASE DatabaseTake(r) \/ DatabaseInsert(r) \/ DatabaseTakeAgain(r)
  BY <1>1, <1>5, DatabaseExactly
<1>6. CASE Serve(r) \/ TurnAway(r)
  <2>1. used' = used /\ took' = took /\ gave' = gave /\ pc[r] # "backing" /\ pc'[r] # "backing"
    BY <1>6 DEF Serve, TurnAway, Leave, TypeOK
  <2>. QED
    BY <1>1, <2>1, UntouchedExactly
<1>7. CASE GiveBack(r)
  BY <1>1, <1>7, GiveBackExactly
<1>. QED
  BY <1>2, <1>3, <1>4, <1>5, <1>6, <1>7 DEF Step

-----------------------------------------------------------------------------
(* The counters of all requests. *)

\* While nobody resets, Redis counts no less than what is booked there, and
\* every counter what is booked as long as no call to Redis failed.
CountsCover ==
    resets = 0 =>
        \A s \in Subjects, m \in Minutes, l \in Ledgers :
            /\ used[l][s][m] >= Count(l, s, m)
            /\ l = "database" \/ failures = 0 => used[l][s][m] = Count(l, s, m)

\* A request that takes a step.
LEMMA CountsStep ==
    ASSUME TypeOK, TypeOK', EmptyWithoutRow, PlacesByGate, CountsCover,
           NEW r \in Requests, Step(r)
    PROVE  CountsCover'
<1>1. /\ OnlyOf(r) /\ PlacedAs(r) /\ OweAs(r) /\ resets' = resets
      /\ failures \in Nat /\ failures' \in Int /\ failures <= failures'
  BY Frame DEF PlacesByGate, TypeOK
<1>2. ASSUME NEW s \in Subjects, NEW m \in Minutes, NEW l \in Ledgers, resets = 0
      PROVE  /\ used'[l][s][m] >= Count(l, s, m)'
             /\ l = "database" \/ failures' = 0 => used'[l][s][m] = Count(l, s, m)'
  <2>1. used[l][s][m] \in Int /\ used'[l][s][m] \in Int
    BY DEF TypeOK
  <2>2. /\ Count(l, s, m)' \in Int /\ Count(l, s, m) \in Int
        /\ Share(r, l, s, m)' \in Int /\ Share(r, l, s, m) \in Int
        /\ Count(l, s, m)' - Count(l, s, m) = Share(r, l, s, m)' - Share(r, l, s, m)
    BY <1>1, Tally
  <2>3. /\ used'[l][s][m] - used[l][s][m] >= Share(r, l, s, m)' - Share(r, l, s, m)
        /\ l = "database" \/ failures' = 0 =>
              used'[l][s][m] - used[l][s][m] = Share(r, l, s, m)' - Share(r, l, s, m)
    BY <1>1, StepCovers DEF Exactly
  <2>4. /\ used[l][s][m] >= Count(l, s, m)
        /\ l = "database" \/ failures = 0 => used[l][s][m] = Count(l, s, m)
    BY <1>2 DEF CountsCover
  <2>5. failures' = 0 => failures = 0
    BY <1>1
  <2>. QED
    BY <2>1, <2>2, <2>3, <2>4, <2>5
<1>. QED
  BY <1>1, <1>2 DEF CountsCover

\* Sets of requests with nobody in common.
LEMMA Apart ==
    ASSUME NEW A \in SUBSET Requests, NEW B \in SUBSET Requests, A \cap B = {}
    PROVE  Cardinality(A \cup B) = Cardinality(A) + Cardinality(B)
<1>1. /\ IsFiniteSet(A) /\ IsFiniteSet(B) /\ Cardinality(A) \in Nat /\ Cardinality(B) \in Nat
  BY RequestSets
<1>2. Cardinality({}) = 0
  BY FS_EmptySet
<1>3. Cardinality(A \cup B) = Cardinality(A) + Cardinality(B) - Cardinality(A \cap B)
  BY <1>1, FS_Union
<1>4. Cardinality(A \cap B) = 0
  BY <1>2
<1>. QED
  BY <1>1, <1>3, <1>4

\* Requests by the spots they booked (first) and gave back (second).
At(first, spot) == {r \in Requests : first[r] = spot}
Holding(first, second, spot) == {r \in Requests : first[r] = spot /\ second[r] = Nowhere}
Straying(first, second, spot) == {r \in Requests : second[r] = spot /\ first[r] # spot}
Losing(first, second, spot) ==
    {r \in Requests : first[r] = spot /\ second[r] \notin {Nowhere, spot}}

\* No more requests hold a place than were booked and not given back, but for
\* those that gave back what they had booked elsewhere.
LEMMA HoldersCounted ==
    ASSUME NEW first, NEW second, NEW spot, spot # Nowhere
    PROVE  /\ Cardinality(Holding(first, second, spot)) \in Nat
           /\ Cardinality(Straying(first, second, spot)) \in Nat
           /\ Cardinality(At(first, spot)) \in Nat /\ Cardinality(At(second, spot)) \in Nat
           /\ Cardinality(Holding(first, second, spot)) <=
                 Cardinality(At(first, spot)) - Cardinality(At(second, spot))
                 + Cardinality(Straying(first, second, spot))
           /\ Losing(first, second, spot) = {} =>
                 Cardinality(Holding(first, second, spot)) >=
                     Cardinality(At(first, spot)) - Cardinality(At(second, spot))
<1>. DEFINE H == Holding(first, second, spot)
            S == Straying(first, second, spot)
            B == At(first, spot)
            R == At(second, spot)
            M == Losing(first, second, spot)
            K == {r \in Requests : first[r] = spot /\ second[r] = spot}
<1>1. /\ H \in SUBSET Requests /\ S \in SUBSET Requests /\ B \in SUBSET Requests
      /\ R \in SUBSET Requests /\ K \in SUBSET Requests
  BY DEF Holding, Straying, At, Losing
<1>2. /\ Cardinality(H) \in Nat /\ Cardinality(S) \in Nat /\ Cardinality(B) \in Nat
      /\ Cardinality(R) \in Nat /\ Cardinality(K) \in Nat
  BY <1>1, RequestSets
<1>4. H \cap K = {} /\ S \cap K = {} /\ R = S \cup K /\ H \cup K \subseteq B
  BY DEF Holding, Straying, At, Losing
<1>5. M = {} => B = H \cup K
  BY DEF Holding, Straying, At, Losing
<1>6. IsFiniteSet(B)
  BY <1>1, RequestSets
<1>. HIDE DEF H, S, B, R, M, K
<1>7. /\ Cardinality(H \cup K) = Cardinality(H) + Cardinality(K)
      /\ Cardinality(R) = Cardinality(S) + Cardinality(K)
  BY <1>1, <1>4, Apart
<1>8. Cardinality(H \cup K) <= Cardinality(B)
  BY <1>4, <1>6, FS_Subset
<1>9. Cardinality(H) <= Cardinality(B) - Cardinality(R) + Cardinality(S)
  BY <1>2, <1>7, <1>8
<1>10. ASSUME M = {}
       PROVE  Cardinality(H) >= Cardinality(B) - Cardinality(R)
  <2>1. Cardinality(B) = Cardinality(H) + Cardinality(K)
    BY <1>5, <1>7, <1>10
  <2>. QED
    BY <1>2, <1>7, <2>1
<1>. QED
  BY <1>2, <1>9, <1>10 DEF H, S, B, R, M

\* Where the database has nothing left to give back, another request that
\* booked elsewhere has taken the place.
LEMMA NothingThere ==
    ASSUME TypeOK, CountsCover, EmptyWithoutRow, resets = 0,
           NEW r \in Requests, NEW s \in Subjects,
           took[r][s] = <<"database", minute>>, gave[r][s] = Nowhere, ~HasPlace(s, minute)
    PROVE  Strays(s, <<"database", minute>>) # {}
<1>. DEFINE m == minute
            B == Booked(s, "database", m)
            R == Returned(s, "database", m)
<1>1. m \in Minutes /\ "database" \in Ledgers /\ used["database"][s][m] \in Int
      /\ used["database"][s][m] >= 0
  BY DEF TypeOK, Ledgers
<1>2. used["database"][s][m] = 0
  BY <1>1 DEF HasPlace, EmptyWithoutRow
<1>3. used["database"][s][m] = Count("database", s, m)
  BY <1>1 DEF CountsCover
<1>4. Cardinality(B) \in Nat /\ Cardinality(R) \in Nat
  BY CountIsInt
<1>5. Cardinality(B) = Cardinality(R)
  <2>1. Count("database", s, m) = Cardinality(B) - Cardinality(R) + 0
    BY DEF Count
  <2>. HIDE DEF B, R, m
  <2>. QED
    BY <1>2, <1>3, <1>4, <2>1
<1>6. SUFFICES ASSUME Strays(s, <<"database", m>>) = {} PROVE FALSE
  OBVIOUS
<1>7. <<"database", m>> # Nowhere
  BY DEF Nowhere
<1>8. R \cup {r} \subseteq B /\ r \notin R
  <2>1. r \in B /\ r \notin R
    BY <1>7 DEF Booked, Returned
  <2>2. ASSUME NEW q \in R PROVE q \in B
    <3>1. q \in Requests /\ gave[q][s] = <<"database", m>>
      BY DEF Returned
    <3>2. q \notin Strays(s, <<"database", m>>)
      BY <1>6
    <3>. QED
      BY <3>1, <3>2 DEF Booked, Strays
  <2>. QED
    BY <2>1, <2>2
<1>9. B \in SUBSET Requests /\ R \in SUBSET Requests
  BY DEF Booked, Returned
<1>. HIDE DEF B, R
<1>10. IsFiniteSet(B) /\ IsFiniteSet(R)
  BY <1>9, RequestSets
<1>11. Cardinality(R \cup {r}) = Cardinality(R) + 1
  BY <1>8, <1>10, FS_AddElement
<1>12. Cardinality(R \cup {r}) <= Cardinality(B)
  BY <1>8, <1>10, FS_Subset
<1>. QED
  BY <1>4, <1>5, <1>11, <1>12

-----------------------------------------------------------------------------
(* The rest of the invariant. *)

\* Whoever lost the race to create a row finds it.
LoserHasRow ==
    \A r \in Requests : pc[r] = "again" /\ resets = 0 => <<Subject(r), at[r]>> \in rows

\* Nothing is booked ahead of the clock, and in Redis only where there is one.
PastOnly ==
    \A r \in Requests :
        /\ at[r] <= minute
        /\ \A s \in Subjects : took[r][s] # Nowhere =>
              took[r][s][2] <= minute /\ (~UseRedis => took[r][s][1] # "redis")

\* Nobody marked Redis down, and nobody clears it, before there was a reason.
Quiet ==
    /\ failures = 0 => \A w \in Workers : ~down[w]
    /\ resets = 0 => clearing = {}

\* What a request that left still holds it will give back, or could not.
LeftBehind ==
    \A r \in Requests, s \in Subjects :
        /\ pc[r] \in {"leaving", "refused"} /\ took[r][s] # Nowhere /\ gave[r][s] = Nowhere
        => \/ \E i \in 1..Len(todo[r]) : todo[r][i] = s
           \/ failures > 0
           \/ NothingLeft(r, s)

IInv ==
    /\ TypeOK /\ PlacesByGate /\ LeftBehind
    /\ EmptyWithoutRow /\ LoserHasRow /\ PastOnly /\ Quiet
    /\ CountsCover /\ OverrunBounded

\* What a step does to the clock, the rows and the minute of a store call.
LEMMA RowsStep ==
    ASSUME TypeOK, TypeOK', NEW r \in Requests, Step(r), EmptyWithoutRow, LoserHasRow
    PROVE  /\ EmptyWithoutRow' /\ LoserHasRow' /\ rows \subseteq rows'
           /\ at'[r] \in {at[r], minute}
<1>1. /\ Subject(r) \in Subjects /\ at[r] \in Minutes /\ minute \in Minutes
      /\ "database" \in Ledgers /\ "redis" \in Ledgers /\ 1 \in Int /\ -1 \in Int
  <2>1. Subject(r) \in Subjects /\ at[r] \in Minutes /\ minute \in Minutes
    BY AtGate
  <2>. QED
    BY <2>1 DEF Ledgers
<1>2. at'[r] \in {at[r], minute} /\ rows \subseteq rows'
  <2>1. CASE RedisTake(r) \/ RedisStepBack(r) \/ RedisFails(r)
    BY <2>1 DEF RedisTake, RedisStepBack, RedisFails, TypeOK
  <2>2. CASE DatabaseTake(r) \/ DatabaseInsert(r) \/ DatabaseTakeAgain(r)
    BY <2>2 DEF DatabaseTake, DatabaseInsert, DatabaseTakeAgain, TypeOK
  <2>3. CASE Serve(r) \/ TurnAway(r) \/ GiveBack(r)
    BY <2>3 DEF Serve, TurnAway, GiveBack
  <2>. QED
    BY <2>1, <2>2, <2>3 DEF Step
<1>3. ASSUME NEW s \in Subjects, NEW m \in Minutes, <<s, m>> \notin rows'
      PROVE  used'["database"][s][m] = 0
  <2>1. <<s, m>> \notin rows /\ used["database"][s][m] = 0
    BY <1>2, <1>3 DEF EmptyWithoutRow
  <2>2. ASSUME NEW t \in Subjects, NEW i \in Minutes, NEW n \in Int,
               <<t, i>> \in rows', used' = Add("database", t, i, n)
        PROVE  used'["database"][s][m] = 0
    <3>1. used'["database"][s][m] =
             used["database"][s][m] + IF "database" = "database" /\ s = t /\ m = i THEN n ELSE 0
      BY <1>1, <2>2, AddedAt
    <3>2. ~(s = t /\ m = i)
      BY <1>3, <2>2
    <3>. QED
      BY <2>1, <3>1, <3>2
  <2>3. ASSUME NEW t \in Subjects, NEW i \in Minutes, NEW n \in Int, used' = Add("redis", t, i, n)
        PROVE  used'["database"][s][m] = 0
    <3>1. used'["database"][s][m] =
             used["database"][s][m] + IF "database" = "redis" /\ s = t /\ m = i THEN n ELSE 0
      BY <1>1, <2>3, AddedAt
    <3>. QED
      BY <2>1, <3>1
  <2>4. CASE used' = used
    BY <2>1, <2>4
  <2>5. CASE RedisTake(r) \/ RedisStepBack(r) \/ RedisFails(r)
    BY <1>1, <2>3, <2>4, <2>5 DEF RedisTake, RedisStepBack, RedisFails
  <2>6. CASE DatabaseTake(r)
    <3>1. \/ used' = used
          \/ <<Subject(r), minute>> \in rows /\ used' = Add("database", Subject(r), minute, 1)
      BY <2>6 DEF DatabaseTake, Takes
    <3>. QED
      BY <1>1, <1>2, <2>2, <2>4, <3>1
  <2>7. CASE DatabaseTakeAgain(r)
    <3>1. \/ used' = used
          \/ <<Subject(r), at[r]>> \in rows /\ used' = Add("database", Subject(r), at[r], 1)
      BY <2>7 DEF DatabaseTakeAgain, Takes
    <3>. QED
      BY <1>1, <1>2, <2>2, <2>4, <3>1
  <2>8. CASE DatabaseInsert(r)
    <3>1. CASE used' = Set("database", Subject(r), at[r], 1) /\ <<Subject(r), at[r]>> \in rows'
      <4>1. used'["database"][s][m] = IF "database" = "database" /\ s = Subject(r) /\ m = at[r]
                                      THEN 1 ELSE used["database"][s][m]
        BY <1>1, <3>1, SetAt
      <4>2. ~(s = Subject(r) /\ m = at[r])
        BY <1>3, <3>1
      <4>. QED
        BY <2>1, <4>1, <4>2
    <3>. QED
      BY <2>4, <2>8, <3>1 DEF DatabaseInsert, Set
  <2>9. CASE Serve(r) \/ TurnAway(r)
    BY <2>4, <2>9 DEF Serve, TurnAway
  <2>10. CASE GiveBack(r)
    <3>1. Head(todo[r]) \in Subjects
      BY <2>10 DEF GiveBack, TypeOK
    <3>2. \/ used' = used
          \/ used' = Add("redis", Head(todo[r]), minute, -1)
          \/ /\ <<Head(todo[r]), minute>> \in rows
             /\ used' = Add("database", Head(todo[r]), minute, -1)
      BY <2>10 DEF GiveBack, HasPlace
    <3>. QED
      BY <1>1, <1>2, <2>2, <2>3, <2>4, <3>1, <3>2
  <2>. QED
    BY <2>5, <2>6, <2>7, <2>8, <2>9, <2>10 DEF Step
<1>4. EmptyWithoutRow'
  BY <1>3 DEF EmptyWithoutRow
<1>5. ASSUME NEW q \in Requests, pc'[q] = "again", resets' = 0
      PROVE  <<Subject(q)', at'[q]>> \in rows'
  <2>1. CASE q # r
    <3>1. /\ pc[q] = "again" /\ Subject(q)' = Subject(q) /\ at'[q] = at[q] /\ resets = 0
      BY <1>5, <2>1, Frame DEF OnlyOf, Subject
    <3>2. <<Subject(q), at[q]>> \in rows
      BY <3>1 DEF LoserHasRow
    <3>. QED
      BY <1>2, <3>1, <3>2
  <2>2. CASE q = r
    <3>1. /\ DatabaseInsert(r) /\ <<Subject(r), at[r]>> \in rows
          /\ gate' = gate /\ at' = at
      <4>1. CASE RedisTake(r) \/ RedisStepBack(r) \/ RedisFails(r)
        BY <1>5, <2>2, <4>1 DEF RedisTake, RedisStepBack, RedisFails, Full, Leave, Pass, TypeOK
      <4>2. CASE DatabaseTake(r) \/ DatabaseTakeAgain(r)
        BY <1>5, <2>2, <4>2 DEF DatabaseTake, DatabaseTakeAgain, Full, Leave, Pass, TypeOK
      <4>3. CASE Serve(r) \/ TurnAway(r) \/ GiveBack(r)
        BY <1>5, <2>2, <4>3 DEF Serve, TurnAway, GiveBack, Leave, TypeOK
      <4>4. CASE DatabaseInsert(r)
        BY <1>5, <2>2, <4>4 DEF DatabaseInsert, Pass, TypeOK
      <4>. QED
        BY <4>1, <4>2, <4>3, <4>4 DEF Step
    <3>. QED
      BY <1>2, <2>2, <3>1 DEF Subject
  <2>. QED
    BY <2>1, <2>2
<1>6. LoserHasRow'
  BY <1>5 DEF LoserHasRow
<1>. QED
  BY <1>2, <1>4, <1>6

\* The clock is ahead of every booking.
LEMMA PastStep ==
    ASSUME TypeOK, TypeOK', PlacesByGate, PastOnly, EmptyWithoutRow, LoserHasRow,
           NEW r \in Requests, Step(r)
    PROVE  PastOnly'
<1>1. /\ OnlyOf(r) /\ minute' = minute /\ at'[r] \in {at[r], minute} /\ PlacedAs(r)
      /\ minute \in Int /\ at[r] \in Int /\ minute <= minute
  <2>1. minute \in Int /\ at[r] \in Int
    BY AtGate DEF Minutes
  <2>. QED
    BY <2>1, Frame, RowsStep DEF PlacesByGate
<1>2. ASSUME NEW q \in Requests \ {r}
      PROVE  /\ at'[q] <= minute'
             /\ \A s \in Subjects : took'[q][s] # Nowhere =>
                   took'[q][s][2] <= minute' /\ (~UseRedis => took'[q][s][1] # "redis")
  BY <1>1 DEF PastOnly, OnlyOf
<1>3. at'[r] <= minute'
  BY <1>1 DEF PastOnly
<1>4. ASSUME NEW s \in Subjects, took'[r][s] # Nowhere
      PROVE  took'[r][s][2] <= minute' /\ (~UseRedis => took'[r][s][1] # "redis")
  <2>1. CASE took' = took
    BY <1>1, <1>4, <2>1 DEF PastOnly
  <2>2. ASSUME NEW l \in Ledgers, NEW m \in Minutes, LetIn(r, l, m)
        PROVE  took'[r][s][2] <= minute' /\ (~UseRedis => took'[r][s][1] # "redis")
    <3>1. took'[r] = [took[r] EXCEPT ![Subject(r)] = <<l, m>>] /\ Subject(r) \in Subjects
      BY <1>1, <2>2, NewPlace, Zenon
    <3>2. m <= minute /\ (~UseRedis => l # "redis")
      BY <1>1, <2>2 DEF LetIn, PastOnly
    <3>3. took[r] \in [Subjects -> Spots \cup {Nowhere}]
      BY DEF TypeOK
    <3>4. CASE s = Subject(r)
      BY <1>1, <3>1, <3>2, <3>3, <3>4
    <3>5. CASE s # Subject(r)
      <4>1. took'[r][s] = took[r][s]
        BY <3>1, <3>3, <3>5
      <4>. QED
        BY <1>1, <1>4, <4>1 DEF PastOnly
    <3>. QED
      BY <3>4, <3>5
  <2>3. took' = took \/ \E l \in Ledgers, m \in Minutes : LetIn(r, l, m)
    BY Kinds DEF Moved, FullGate, Full, Serve, TurnAway, GiveBack
  <2>. QED
    BY <2>1, <2>2, <2>3
<1>. QED
  BY <1>2, <1>3, <1>4 DEF PastOnly

\* Who gave back elsewhere stays so.
LEMMA StraysStay ==
    ASSUME TypeOK, TypeOK', PlacesByGate, NEW r \in Requests, Step(r),
           NEW s \in Subjects, NEW spot \in Spots
    PROVE  /\ Strays(s, spot) \subseteq Strays(s, spot)'
           /\ Cardinality(Strays(s, spot)) <= Cardinality(Strays(s, spot)')
<1>1. spot # Nowhere
  BY DEF Spots, Ledgers, Nowhere
<1>2. ASSUME NEW q \in Requests, gave[q][s] = spot, took[q][s] # spot
      PROVE  gave'[q][s] = spot /\ took'[q][s] # spot
  <2>1. CASE q # r
    BY <1>2, <2>1, Frame DEF OnlyOf
  <2>2. CASE q = r
    <3>1. PlacedAs(r) /\ OweAs(r)
      BY DEF PlacesByGate
    <3>2. CASE took' = took /\ gave' = gave
      BY <1>2, <3>2
    <3>3. ASSUME NEW l \in Ledgers, NEW m \in Minutes, LetIn(r, l, m)
          PROVE  FALSE
      <4>1. gave[r][s] = Nowhere
        BY <3>1, <3>3, NewPlace
      <4>. QED
        BY <1>1, <1>2, <2>2, <4>1
    <3>4. CASE GiveBack(r)
      <4>1. /\ gave[r][Head(todo[r])] = Nowhere /\ took' = took
            /\ \/ gave' = gave
               \/ \E l \in Ledgers : gave' = [gave EXCEPT ![r][Head(todo[r])] = <<l, minute>>]
        BY <3>1, <3>4, NextToGive, GivesHead DEF GiveBack
      <4>2. s # Head(todo[r])
        BY <1>1, <1>2, <2>2, <4>1
      <4>3. gave'[r][s] = gave[r][s]
        <5>. DEFINE t == Head(todo[r])
        <5>1. gave \in [Requests -> [Subjects -> Spots \cup {Nowhere}]]
          BY DEF TypeOK
        <5>2. s # t /\ (gave' = gave \/ \E l \in Ledgers : gave' = [gave EXCEPT ![r][t] = <<l, minute>>])
          BY <4>1, <4>2
        <5>. HIDE DEF t
        <5>. QED
          BY <5>1, <5>2
      <4>. QED
        BY <1>2, <2>2, <4>1, <4>3
    <3>. QED
      BY <2>2, <3>2, <3>3, <3>4, Kinds DEF Moved, FullGate, Full, Serve, TurnAway
  <2>. QED
    BY <2>1, <2>2
<1>3. Strays(s, spot) \subseteq Strays(s, spot)'
  BY <1>2 DEF Strays
<1>4. Strays(s, spot)' \in SUBSET Requests
  BY DEF Strays
<1>. QED
  BY <1>3, <1>4, RequestSets, FS_Subset

\* Redis is only avoided once it failed.
LEMMA QuietStep ==
    ASSUME TypeOK, TypeOK', Quiet, NEW r \in Requests, Step(r)
    PROVE  Quiet'
<1>1. resets' = resets /\ clearing' = clearing /\ failures \in Nat /\ MaxFailures \in Nat
  <2>1. failures \in Nat /\ MaxFailures \in Nat
    BY QuotaAssumption DEF TypeOK
  <2>. QED
    BY <2>1, Frame
<1>2. ASSUME failures' = 0
      PROVE  \A w \in Workers : ~down'[w]
  <2>1. (failures' = failures /\ down' = down) \/ failures' = failures + 1
    BY DEF Step, RedisTake, RedisStepBack, RedisFails, DatabaseTake, DatabaseInsert,
           DatabaseTakeAgain, Serve, TurnAway, GiveBack, NoFailure, MarkDown
  <2>2. failures = 0 /\ down' = down
    BY <1>1, <1>2, <2>1
  <2>. QED
    BY <2>2 DEF Quiet
<1>. QED
  BY <1>1, <1>2 DEF Quiet

\* A request that leaves gives back at every gate or has a reason not to.
LEMMA LeftBehindStep ==
    ASSUME TypeOK, TypeOK', PlacesByGate, LeftBehind, Quiet, PastOnly, CountsCover,
           EmptyWithoutRow, NEW r \in Requests, Step(r)
    PROVE  LeftBehind'
<1>1. /\ OnlyOf(r) /\ minute' = minute /\ resets' = resets /\ PlacedAs(r) /\ OweAs(r)
      /\ failures \in Nat /\ failures' \in Int /\ failures <= failures' /\ minute \in Int
  <2>1. failures \in Nat /\ minute \in Int
    BY DEF TypeOK, Minutes
  <2>. QED
    BY <2>1, Frame DEF PlacesByGate
<1>2. ASSUME NEW q \in Requests, NEW s \in Subjects,
             took[q][s] # Nowhere, took'[q][s] = took[q][s], NothingLeft(q, s)
      PROVE  NothingLeft(q, s)'
  <2>1. PICK spot \in Spots : took[q][s] = spot
    BY <1>2 DEF TypeOK
  <2>2. Strays(s, spot) \subseteq Strays(s, spot)'
    BY StraysStay
  <2>3. ~UseRedis /\ (resets > 0 \/ spot[2] < minute \/ Strays(s, spot) # {})
    BY <1>2, <2>1 DEF NothingLeft
  <2>4. ~UseRedis /\ (resets' > 0 \/ spot[2] < minute' \/ Strays(s, spot)' # {})
    BY <1>1, <2>2, <2>3
  <2>5. took'[q][s] = spot
    BY <1>2, <2>1
  <2>. QED
    BY <2>4, <2>5 DEF NothingLeft
<1>3. ASSUME NEW q \in Requests \ {r}, NEW s \in Subjects,
             pc'[q] \in {"leaving", "refused"}, took'[q][s] # Nowhere, gave'[q][s] = Nowhere
      PROVE  \/ \E i \in 1..Len(todo'[q]) : todo'[q][i] = s
             \/ failures' > 0
             \/ NothingLeft(q, s)'
  <2>1. /\ pc'[q] = pc[q] /\ todo'[q] = todo[q]
        /\ took'[q] = took[q] /\ gave'[q] = gave[q]
    BY <1>1 DEF OnlyOf
  <2>2. \/ \E i \in 1..Len(todo[q]) : todo[q][i] = s
        \/ failures > 0
        \/ NothingLeft(q, s)
    BY <1>3, <2>1 DEF LeftBehind
  <2>. QED
    BY <1>1, <1>2, <1>3, <2>1, <2>2
<1>4. ASSUME NEW s \in Subjects,
             pc'[r] \in {"leaving", "refused"}, took'[r][s] # Nowhere, gave'[r][s] = Nowhere
      PROVE  \/ \E i \in 1..Len(todo'[r]) : todo'[r][i] = s
             \/ failures' > 0
             \/ NothingLeft(r, s)'
  <2>1. CASE Moved(r) \/ Serve(r)
    BY <1>4, <2>1 DEF Moved, InHand, Serve, TypeOK
  <2>2. ASSUME NEW l \in Ledgers, NEW m \in Minutes, LetIn(r, l, m)
        PROVE  FALSE
    <3>1. pc'[r] \in {"admitted", "asking"}
      BY <2>2 DEF LetIn, Pass, TypeOK
    <3>. QED
      BY <1>4, <3>1
  <2>3. CASE FullGate(r)
    <3>. DEFINE before == SubSeq(Gates[r], 1, gate[r] - 1)
    <3>1. /\ Len(before) = gate[r] - 1
          /\ \A i \in 1..(gate[r] - 1) : before[i] = Gates[r][i]
          /\ gate[r] \in 1..Len(Gates[r]) /\ Len(Gates[r]) \in Nat
      BY EarlierGates, AtGate
    <3>2. took' = took /\ todo'[r] = before /\ pc[r] \in InHand
      BY <2>3 DEF FullGate, Full, Leave, TypeOK
    <3>3. PICK i \in 1..Len(Gates[r]) : Gates[r][i] = s
      BY <1>1, <1>4, <3>2 DEF PlacedAs
    <3>4. i < gate[r]
      BY <1>1, <1>4, <3>2, <3>3 DEF PlacedAs, Passed
    <3>5. i \in 1..Len(before) /\ before[i] = s
      BY <3>1, <3>3, <3>4
    <3>. QED
      BY <3>2, <3>5
  <2>4. CASE TurnAway(r)
    <3>1. took' = took /\ todo'[r] = Gates[r]
      BY <2>4 DEF TurnAway, Leave, TypeOK
    <3>. QED
      BY <1>1, <1>4, <3>1 DEF PlacedAs
  <2>5. CASE GiveBack(r)
    <3>. DEFINE t == Head(todo[r])
                rest == Tail(todo[r])
    <3>1. /\ t \in Subjects /\ t = todo[r][1] /\ took[r][t] \in Spots /\ gave[r][t] = Nowhere
          /\ Len(rest) = Len(todo[r]) - 1 /\ Len(todo[r]) \in Nat \ {0}
          /\ \A i \in 1..Len(rest) : rest[i] = todo[r][i + 1]
      BY <1>1, <2>5, NextToGive DEF GiveBack
    <3>2. /\ took' = took /\ todo'[r] = rest /\ pc[r] = "leaving"
          /\ \/ gave' = gave
             \/ \E l \in Ledgers : gave' = [gave EXCEPT ![r][t] = <<l, minute>>]
      BY <2>5, GivesHead
    <3>3. gave[r][s] = Nowhere /\ (s = t => gave' = gave)
      <4>1. gave \in [Requests -> [Subjects -> Spots \cup {Nowhere}]]
        BY DEF TypeOK
      <4>2. \A l \in Ledgers : <<l, minute>> # Nowhere
        BY DEF Ledgers, Nowhere
      <4>. HIDE DEF t
      <4>. QED
        BY <1>4, <3>1, <3>2, <4>1, <4>2
    <3>4. \/ \E i \in 1..Len(todo[r]) : todo[r][i] = s
          \/ failures > 0
          \/ NothingLeft(r, s)
      BY <1>4, <3>2, <3>3 DEF LeftBehind
    <3>5. CASE failures > 0 \/ NothingLeft(r, s)
      BY <1>1, <1>2, <1>4, <3>2, <3>5
    <3>6. CASE \E i \in 1..Len(todo[r]) : todo[r][i] = s /\ i # 1
      <4>1. PICK i \in 1..Len(todo[r]) : todo[r][i] = s /\ i # 1
        BY <3>6
      <4>2. i - 1 \in 1..Len(rest) /\ rest[i - 1] = todo[r][(i - 1) + 1] /\ (i - 1) + 1 = i
        BY <3>1, <4>1
      <4>3. rest[i - 1] = s
        BY <4>1, <4>2
      <4>. QED
        BY <3>2, <4>2, <4>3
    <3>7. CASE s = t /\ failures' = 0
      <4>1. failures = 0 /\ gave' = gave
        BY <1>1, <3>3, <3>7
      <4>2. ~down[WorkerOf[r]]
        BY <4>1, QuotaAssumption DEF Quiet
      <4>3. ~UseRedis /\ ~HasPlace(t, minute)
        <5>1. gave' # [gave EXCEPT ![r][t] = <<"redis", minute>>]
              /\ gave' # [gave EXCEPT ![r][t] = <<"database", minute>>]
          <6>1. gave \in [Requests -> [Subjects -> Spots \cup {Nowhere}]]
            BY DEF TypeOK
          <6>2. \A l : [gave EXCEPT ![r][t] = <<l, minute>>][r][t] = <<l, minute>>
            BY <3>1, <6>1
          <6>3. <<"redis", minute>> # Nowhere /\ <<"database", minute>> # Nowhere
            BY DEF Nowhere
          <6>. QED
            BY <3>1, <4>1, <6>2, <6>3
        <5>2. ~\E w \in Workers : MarkDown(w)
          BY <3>7, <4>1 DEF MarkDown
        <5>3. WorkerOf[r] \in Workers
          BY QuotaAssumption
        <5>. QED
          BY <2>5, <4>2, <5>1, <5>2, <5>3 DEF GiveBack, UsingRedis
      <4>4. PICK l \in Ledgers, m \in Minutes : took[r][t] = <<l, m>>
        BY <3>1 DEF Spots
      <4>5. l = "database" /\ m <= minute /\ m \in Int
        <5>1. took[r][t] # Nowhere
          BY <4>4 DEF Ledgers, Nowhere
        <5>2. took[r][t][1] = l /\ took[r][t][2] = m
          BY <4>4
        <5>. QED
          BY <3>1, <4>3, <5>1, <5>2 DEF PastOnly, Ledgers, Minutes
      <4>6. CASE resets = 0 /\ m = minute
        <5>1. Strays(t, <<"database", minute>>) # {}
          BY <3>1, <3>3, <3>7, <4>3, <4>4, <4>5, <4>6, NothingThere
        <5>2. NothingLeft(r, s)
          BY <3>7, <4>3, <4>4, <4>5, <4>6, <5>1 DEF NothingLeft
        <5>. QED
          BY <1>2, <1>4, <3>2, <5>2
      <4>7. CASE resets # 0 \/ m # minute
        <5>1. resets > 0 \/ took[r][s][2] < minute
          <6>1. resets \in Nat
            BY QuotaAssumption DEF TypeOK
          <6>2. took[r][s][2] = m
            BY <3>7, <4>4
          <6>. QED
            BY <1>1, <4>5, <4>7, <6>1, <6>2
        <5>2. NothingLeft(r, s)
          BY <4>3, <5>1 DEF NothingLeft
        <5>. QED
          BY <1>2, <1>4, <3>2, <5>2
      <4>. QED
        BY <4>6, <4>7
    <3>8. failures' = 0 \/ failures' > 0
      BY <1>1
    <3>. QED
      BY <3>1, <3>4, <3>5, <3>6, <3>7, <3>8
  <2>. QED
    BY <2>1, <2>2, <2>3, <2>4, <2>5, Kinds
<1>. QED
  BY <1>3, <1>4 DEF LeftBehind

\* A request that holds a place it did not hold before was let in.
LEMMA HoldersStep ==
    ASSUME TypeOK, TypeOK', PlacesByGate, NEW r \in Requests, Step(r),
           NEW l \in Ledgers, NEW s \in Subjects, NEW m \in Minutes
    PROVE  \/ Holders(s, <<l, m>>)' \subseteq Holders(s, <<l, m>>)
           \/ s = Subject(r) /\ LetIn(r, l, m)
<1>1. ASSUME NEW q \in Requests, took'[q][s] = <<l, m>>, gave'[q][s] = Nowhere,
             ~(s = Subject(r) /\ LetIn(r, l, m))
      PROVE  took[q][s] = <<l, m>> /\ gave[q][s] = Nowhere
  <2>1. CASE q # r
    BY <1>1, <2>1, Frame DEF OnlyOf
  <2>2. CASE q = r
    <3>1. PlacedAs(r) /\ OweAs(r)
      BY DEF PlacesByGate
    <3>2. CASE took' = took /\ gave' = gave
      BY <1>1, <3>2
    <3>3. ASSUME NEW k \in Ledgers, NEW i \in Minutes, LetIn(r, k, i)
          PROVE  took[r][s] = <<l, m>> /\ gave[r][s] = Nowhere
      <4>1. /\ took'[r] = [took[r] EXCEPT ![Subject(r)] = <<k, i>>] /\ Subject(r) \in Subjects
            /\ gave[r][s] = Nowhere
        BY <3>1, <3>3, NewPlace, Zenon
      <4>2. took[r] \in [Subjects -> Spots \cup {Nowhere}]
        BY DEF TypeOK
      <4>3. CASE s = Subject(r)
        <5>1. <<k, i>> = <<l, m>>
          BY <1>1, <2>2, <4>1, <4>2, <4>3
        <5>2. k = l /\ i = m
          BY <5>1
        <5>. QED
          BY <1>1, <3>3, <4>3, <5>2
      <4>4. CASE s # Subject(r)
        BY <1>1, <2>2, <4>1, <4>2, <4>4
      <4>. QED
        BY <4>3, <4>4
    <3>4. CASE GiveBack(r)
      <4>. DEFINE t == Head(todo[r])
      <4>1. /\ took' = took
            /\ \/ gave' = gave
               \/ \E k \in Ledgers : gave' = [gave EXCEPT ![r][t] = <<k, minute>>]
        BY <3>4, GivesHead
      <4>2. t \in Subjects /\ gave \in [Requests -> [Subjects -> Spots \cup {Nowhere}]]
        <5>1. t \in Subjects
          BY <3>1, <3>4, NextToGive DEF GiveBack
        <5>. QED
          BY <5>1 DEF TypeOK
      <4>3. \A k \in Ledgers : <<k, minute>> # Nowhere
        BY DEF Ledgers, Nowhere
      <4>. HIDE DEF t
      <4>. QED
        BY <1>1, <2>2, <4>1, <4>2, <4>3
    <3>. QED
      BY <2>2, <3>2, <3>3, <3>4, Kinds DEF Moved, FullGate, Full, Serve, TurnAway
  <2>. QED
    BY <2>1, <2>2
<1>. QED
  BY <1>1 DEF Holders

\* No ledger lets in more than its limit and the strays.
LEMMA OverrunStep ==
    ASSUME TypeOK, TypeOK', PlacesByGate, OverrunBounded, CountsCover', NEW r \in Requests, Step(r)
    PROVE  OverrunBounded'
<1>1. resets' = resets
  BY Frame
<1>2. ASSUME resets = 0, NEW s \in Subjects, NEW l \in Ledgers, NEW m \in Minutes, PerMinute[s] # 0
      PROVE  Cardinality(Holders(s, <<l, m>>)') <= PerMinute[s] + Cardinality(Strays(s, <<l, m>>)')
  <2>. DEFINE H == Holders(s, <<l, m>>)
              S == Strays(s, <<l, m>>)
  <2>1. /\ Cardinality(H) \in Nat /\ Cardinality(H') \in Nat
        /\ Cardinality(S) \in Nat /\ Cardinality(S') \in Nat
        /\ H \in SUBSET Requests /\ PerMinute[s] \in Nat
    <3>1. H \in SUBSET Requests /\ H' \in SUBSET Requests
      BY DEF Holders
    <3>2. S \in SUBSET Requests /\ S' \in SUBSET Requests
      BY DEF Strays
    <3>. QED
      BY <3>1, <3>2, RequestSets, QuotaAssumption
  <2>2. <<l, m>> \in Spots
    BY DEF Spots
  <2>3. CASE H' \subseteq H
    <3>1. Cardinality(H) <= PerMinute[s] + Cardinality(S)
      BY <1>2, <2>2 DEF OverrunBounded
    <3>2. Cardinality(S) <= Cardinality(S')
      BY <2>2, StraysStay
    <3>3. Cardinality(H') <= Cardinality(H)
      BY <2>1, <2>3, RequestSets, FS_Subset
    <3>. QED
      BY <2>1, <3>1, <3>2, <3>3
  <2>4. CASE s = Subject(r) /\ LetIn(r, l, m)
    <3>1. used'[l][s][m] <= PerMinute[s]
      BY <1>2, <2>4 DEF LetIn
    <3>2. used'[l][s][m] >= Count(l, s, m)' /\ used'[l][s][m] \in Int
      BY <1>1, <1>2 DEF CountsCover, TypeOK
    <3>3. /\ Cardinality(Booked(s, l, m)') \in Nat /\ Cardinality(Returned(s, l, m)') \in Nat
          /\ Cardinality(Passing(s, m)') \in Nat
      <4>1. /\ Booked(s, l, m)' \in SUBSET Requests /\ Returned(s, l, m)' \in SUBSET Requests
            /\ Passing(s, m)' \in SUBSET Requests
        BY DEF Booked, Returned, Passing
      <4>. QED
        BY <4>1, RequestSets
    <3>. DEFINE nb == Cardinality(Booked(s, l, m)')
                nr == Cardinality(Returned(s, l, m)')
                np == Cardinality(Passing(s, m)')
    <3>4. Count(l, s, m)' = nb - nr + (IF l = "redis" THEN np ELSE 0)
      BY DEF Count
    <3>5. Cardinality(H') <= nb - nr + Cardinality(S')
      <4>1. PICK first, second : first = [q \in Requests |-> took'[q][s]]
                                 /\ second = [q \in Requests |-> gave'[q][s]]
        OBVIOUS
      <4>2. <<l, m>> # Nowhere
        BY DEF Ledgers, Nowhere
      <4>3. /\ H' = Holding(first, second, <<l, m>>) /\ S' = Straying(first, second, <<l, m>>)
            /\ Booked(s, l, m)' = At(first, <<l, m>>) /\ Returned(s, l, m)' = At(second, <<l, m>>)
        BY <4>1 DEF Holders, Strays, Booked, Returned, Holding, Straying, At
      <4>4. Cardinality(Holding(first, second, <<l, m>>)) <=
               Cardinality(At(first, <<l, m>>)) - Cardinality(At(second, <<l, m>>))
               + Cardinality(Straying(first, second, <<l, m>>))
        BY <4>2, HoldersCounted
      <4>. HIDE DEF H, S
      <4>. QED
        BY <4>3, <4>4
    <3>6. PICK h, k : h = Cardinality(H') /\ k = Cardinality(S')
      OBVIOUS
    <3>7. PICK n : n = used'[l][s][m]
      OBVIOUS
    <3>. HIDE DEF nb, nr, np, H, S
    <3>8. h \in Nat /\ k \in Nat /\ n \in Int /\ nb \in Nat /\ nr \in Nat /\ np \in Nat
          /\ PerMinute[s] \in Nat
      BY <2>1, <3>2, <3>3, <3>6, <3>7 DEF nb, nr, np, H, S
    <3>9. n <= PerMinute[s] /\ n >= nb - nr /\ h <= nb - nr + k
      BY <3>1, <3>2, <3>4, <3>5, <3>6, <3>7, <3>8
    <3>10. h <= PerMinute[s] + k
      BY <3>8, <3>9
    <3>. QED
      BY <3>6, <3>10 DEF H, S
  <2>. QED
    BY <2>3, <2>4, HoldersStep
<1>3. ASSUME resets' = 0, NEW s \in Subjects, NEW spot \in Spots, PerMinute[s] # 0
      PROVE  Cardinality(Holders(s, spot)') <= PerMinute[s] + Cardinality(Strays(s, spot)')
  <2>1. PICK l \in Ledgers, m \in Minutes : spot = <<l, m>>
    BY DEF Spots
  <2>. QED
    BY <1>1, <1>2, <1>3, <2>1
<1>. QED
  BY <1>3 DEF OverrunBounded

-----------------------------------------------------------------------------
(* The steps of the clock, of the workers and of an administrator. *)

Outside ==
    \/ Tick
    \/ \E w \in Workers : RetryRedis(w)
    \/ \E s \in Cleared : ResetDatabase(s) \/ ResetRedis(s)
    \/ \E s \in Cleared, w \in Workers : ResetFails(s, w)

\* They leave the requests alone, and the counters too unless somebody resets.
LEMMA OutsideFrame ==
    ASSUME TypeOK, Quiet, Outside
    PROVE  /\ UNCHANGED <<pc, gate, at, todo, took, gave>>
           /\ resets \in Nat /\ resets' \in Nat /\ resets <= resets'
           /\ failures \in Nat /\ failures' \in Nat /\ failures <= failures'
           /\ minute \in Nat /\ minute' \in Nat /\ minute <= minute'
           /\ resets' = 0 => UNCHANGED <<used, rows>>
<1>1. /\ resets \in Nat /\ failures \in Nat /\ minute \in Nat
      /\ MaxFailures \in Nat
  BY QuotaAssumption DEF TypeOK, Minutes
<1>2. CASE Tick
  BY <1>1, <1>2 DEF Tick
<1>3. ASSUME NEW w \in Workers, RetryRedis(w)
      PROVE  /\ UNCHANGED <<pc, gate, at, todo, took, gave, resets, failures, minute, used, rows>>
  BY <1>3 DEF RetryRedis
<1>4. ASSUME NEW s \in Cleared, ResetDatabase(s)
      PROVE  /\ UNCHANGED <<pc, gate, at, todo, took, gave, failures, minute>>
             /\ resets' = resets + 1
  BY <1>4 DEF ResetDatabase
<1>5. ASSUME NEW s \in Cleared, ResetRedis(s)
      PROVE  /\ UNCHANGED <<pc, gate, at, todo, took, gave, failures, minute, resets>>
             /\ resets # 0
  BY <1>5 DEF ResetRedis, Quiet
<1>6. ASSUME NEW s \in Cleared, NEW w \in Workers, ResetFails(s, w)
      PROVE  /\ UNCHANGED <<pc, gate, at, todo, took, gave, minute, resets>>
             /\ resets # 0 /\ failures' = failures + 1
  BY <1>6 DEF ResetFails, MarkDown, Quiet
<1>7. ASSUME UNCHANGED resets, resets # 0
      PROVE  resets' # 0
  BY <1>7
<1>8. resets' = resets + 1 => resets' # 0
  BY <1>1
<1>. QED
  BY <1>1, <1>2, <1>3, <1>4, <1>5, <1>6, <1>7, <1>8 DEF Outside

\* And they keep the invariant.
LEMMA OutsideStep ==
    ASSUME IInv, Outside
    PROVE  IInv'
<1>1. TypeOK /\ TypeOK'
  BY OutsideTyped DEF IInv, Outside
<1>2. /\ UNCHANGED <<pc, gate, at, todo, took, gave>>
      /\ resets \in Nat /\ resets' \in Nat /\ resets <= resets'
      /\ failures \in Nat /\ failures' \in Nat /\ failures <= failures'
      /\ minute \in Nat /\ minute' \in Nat /\ minute <= minute'
      /\ resets' = 0 => UNCHANGED <<used, rows>>
  BY OutsideFrame DEF IInv
<1>3. resets' = 0 => resets = 0
  BY <1>2
<1>4. PlacesByGate'
  BY <1>2 DEF IInv, PlacesByGate, PlacedAs, OweAs, Passed
<1>5. LeftBehind'
  <2>1. ASSUME NEW r \in Requests, NEW s \in Subjects, NothingLeft(r, s), took[r][s] # Nowhere
        PROVE  NothingLeft(r, s)'
    <3>1. PICK l \in Ledgers, m \in Minutes : took[r][s] = <<l, m>>
      <4>1. took[r][s] \in Spots
        BY <1>1, <2>1 DEF TypeOK
      <4>. QED
        BY <4>1 DEF Spots
    <3>2. /\ took'[r][s][2] = m /\ took[r][s][2] = m /\ m \in Nat
          /\ Strays(s, took[r][s])' = Strays(s, took[r][s])
      BY <1>2, <3>1 DEF Strays, Minutes
    <3>3. resets > 0 \/ m < minute => resets' > 0 \/ m < minute'
      BY <1>2, <3>2
    <3>. QED
      BY <1>2, <2>1, <3>2, <3>3 DEF NothingLeft
  <2>2. ASSUME NEW r \in Requests, NEW s \in Subjects,
               pc'[r] \in {"leaving", "refused"}, took'[r][s] # Nowhere, gave'[r][s] = Nowhere
        PROVE  \/ \E i \in 1..Len(todo'[r]) : todo'[r][i] = s
               \/ failures' > 0
               \/ NothingLeft(r, s)'
    <3>1. took[r][s] # Nowhere
      BY <1>2, <2>2
    <3>2. \/ \E i \in 1..Len(todo[r]) : todo[r][i] = s
          \/ failures > 0
          \/ NothingLeft(r, s)
      BY <1>2, <2>2 DEF IInv, LeftBehind
    <3>3. failures > 0 => failures' > 0
      BY <1>2
    <3>. QED
      BY <1>2, <2>1, <3>1, <3>2, <3>3
  <2>. QED
    BY <2>2 DEF LeftBehind
<1>6. EmptyWithoutRow'
  <2>1. CASE UNCHANGED <<used, rows>>
    BY <2>1 DEF IInv, EmptyWithoutRow
  <2>2. ASSUME NEW s \in Cleared, ResetDatabase(s)
        PROVE  EmptyWithoutRow'
    <3>1. s \in Subjects /\ "database" \in Ledgers /\ 0 \in Int /\ minute \in Minutes
      BY <1>1, QuotaAssumption DEF Ledgers, TypeOK
    <3>2. used' = Set("database", s, minute, 0) /\ rows' = rows \ {<<s, minute>>}
      BY <2>2 DEF ResetDatabase, Set
    <3>3. ASSUME NEW t \in Subjects, NEW i \in Minutes, <<t, i>> \notin rows'
          PROVE  used'["database"][t][i] = 0
      <4>1. used'["database"][t][i] = IF "database" = "database" /\ t = s /\ i = minute THEN 0
                                      ELSE used["database"][t][i]
        BY <1>1, <3>1, <3>2, SetAt
      <4>2. CASE t = s /\ i = minute
        BY <4>1, <4>2
      <4>3. CASE ~(t = s /\ i = minute)
        <5>1. <<t, i>> \notin rows
          BY <3>2, <3>3, <4>3
        <5>. QED
          BY <4>1, <4>3, <5>1 DEF IInv, EmptyWithoutRow
      <4>. QED
        BY <4>2, <4>3
    <3>. QED
      BY <3>3 DEF EmptyWithoutRow
  <2>3. ASSUME NEW s \in Cleared, used' = Set("redis", s, minute, 0), rows' = rows
        PROVE  EmptyWithoutRow'
    <3>1. s \in Subjects /\ "redis" \in Ledgers /\ "database" \in Ledgers /\ 0 \in Int
          /\ minute \in Minutes
      BY <1>1, QuotaAssumption DEF Ledgers, TypeOK
    <3>2. ASSUME NEW t \in Subjects, NEW i \in Minutes, <<t, i>> \notin rows'
          PROVE  used'["database"][t][i] = 0
      <4>1. used'["database"][t][i] = IF "database" = "redis" /\ t = s /\ i = minute THEN 0
                                      ELSE used["database"][t][i]
        BY <1>1, <2>3, <3>1, SetAt
      <4>. QED
        BY <2>3, <3>2, <4>1 DEF IInv, EmptyWithoutRow
    <3>. QED
      BY <3>2 DEF EmptyWithoutRow
  <2>. QED
    BY <2>1, <2>2, <2>3 DEF Outside, Tick, RetryRedis, ResetRedis, ResetFails, Set
<1>7. LoserHasRow'
  BY <1>2, <1>3 DEF IInv, LoserHasRow, Subject
<1>8. PastOnly'
  <2>1. ASSUME NEW r \in Requests
        PROVE  at'[r] <= minute'
    <3>1. at[r] \in Int /\ at[r] <= minute /\ at' = at
      BY <1>1, <1>2 DEF TypeOK, Minutes, IInv, PastOnly
    <3>. QED
      BY <1>2, <3>1
  <2>2. ASSUME NEW r \in Requests, NEW s \in Subjects, took'[r][s] # Nowhere
        PROVE  took'[r][s][2] <= minute' /\ (~UseRedis => took'[r][s][1] # "redis")
    <3>1. took[r][s] # Nowhere /\ took' = took
      BY <1>2, <2>2
    <3>2. PICK l \in Ledgers, m \in Minutes : took[r][s] = <<l, m>>
      <4>1. took[r][s] \in Spots
        BY <1>1, <3>1 DEF TypeOK
      <4>. QED
        BY <4>1 DEF Spots
    <3>3. m \in Int /\ m <= minute /\ (~UseRedis => l # "redis")
      <4>1. took[r][s][2] <= minute /\ (~UseRedis => took[r][s][1] # "redis")
        BY <3>1 DEF IInv, PastOnly
      <4>. QED
        BY <3>2, <4>1 DEF Minutes
    <3>4. m <= minute'
      BY <1>2, <3>3
    <3>. QED
      BY <3>1, <3>2, <3>3, <3>4
  <2>. QED
    BY <2>1, <2>2 DEF PastOnly
<1>9. Quiet'
  <2>1. Quiet
    BY DEF IInv
  <2>2. CASE Tick
    BY <2>1, <2>2 DEF Tick, Quiet
  <2>3. ASSUME NEW w \in Workers, RetryRedis(w)
        PROVE  Quiet'
    BY <1>1, <2>1, <2>3 DEF RetryRedis, Quiet, TypeOK
  <2>4. ASSUME NEW s \in Cleared, ResetDatabase(s)
        PROVE  Quiet'
    <3>1. resets' # 0
      BY <1>2, <2>4 DEF ResetDatabase
    <3>. QED
      BY <2>1, <2>4, <3>1 DEF ResetDatabase, Quiet
  <2>5. ASSUME NEW s \in Cleared, ResetRedis(s)
        PROVE  Quiet'
    BY <2>1, <2>5 DEF ResetRedis, Quiet
  <2>6. ASSUME NEW s \in Cleared, NEW w \in Workers, ResetFails(s, w)
        PROVE  Quiet'
    <3>1. failures' # 0 /\ resets' = resets /\ s \in clearing /\ clearing' = clearing \ {s}
      BY <1>2, <2>6 DEF ResetFails, MarkDown
    <3>. QED
      BY <2>1, <3>1 DEF Quiet
  <2>. QED
    BY <2>2, <2>3, <2>4, <2>5, <2>6 DEF Outside
<1>10. CountsCover'
  <2>. SUFFICES ASSUME resets' = 0 PROVE CountsCover'
    BY DEF CountsCover
  <2>1. UNCHANGED <<used, pc, gate, at, took, gave>> /\ resets = 0
    BY <1>2, <1>3
  <2>2. \A l, s, m : Count(l, s, m)' = Count(l, s, m)
    BY <2>1 DEF Count, Booked, Returned, Passing, Subject
  <2>3. failures' = 0 => failures = 0
    BY <1>2
  <2>. QED
    BY <2>1, <2>2, <2>3 DEF IInv, CountsCover
<1>11. OverrunBounded'
  <2>1. \A s, spot : Holders(s, spot)' = Holders(s, spot) /\ Strays(s, spot)' = Strays(s, spot)
    BY <1>2 DEF Holders, Strays
  <2>. QED
    BY <1>3, <2>1 DEF IInv, OverrunBounded
<1>. QED
  BY <1>1, <1>4, <1>5, <1>6, <1>7, <1>8, <1>9, <1>10, <1>11 DEF IInv

-----------------------------------------------------------------------------
(* The invariant and what it says. *)

\* It holds at first.
LEMMA QuotaInit ==
    ASSUME Init
    PROVE  IInv
<1>1. /\ LastMinute \in Nat /\ MaxFailures \in Nat /\ MaxResets \in Nat
      /\ 0 \in Minutes /\ WorkerOf \in [Requests -> Workers]
  BY QuotaAssumption DEF Minutes
<1>2. \A r \in Requests : Gates[r] \in Seq(Subjects) /\ 1 \in 1..Len(Gates[r])
  <2>. SUFFICES ASSUME NEW r \in Requests
                PROVE  Gates[r] \in Seq(Subjects) /\ 1 \in 1..Len(Gates[r])
    OBVIOUS
  <2>1. Gates[r] \in Seq(Subjects) /\ Gates[r] # << >>
    BY QuotaAssumption
  <2>. QED
    BY <2>1
<1>3. TypedRequests
  BY <1>2 DEF Init, TypedRequests, Places
<1>4. TypedRest
  BY <1>1 DEF Init, TypedRest, Positive, Ledgers
<1>5. TypeOK
  BY <1>3, <1>4 DEF TypeOK, TypedRequests, TypedRest, Positive, Places
<1>6. PlacesByGate
  <2>. SUFFICES ASSUME NEW r \in Requests PROVE PlacedAs(r) /\ OweAs(r)
    BY DEF PlacesByGate
  <2>1. /\ pc[r] = "asking" /\ gate[r] = 1 /\ todo[r] = << >>
        /\ \A s \in Subjects : took[r][s] = Nowhere /\ gave[r][s] = Nowhere
    BY DEF Init
  <2>2. OweAs(r)
    BY <2>1 DEF OweAs
  <2>3. Passed(r)
    <3>1. \A i \in 1..Len(Gates[r]) : Gates[r][i] \in Subjects /\ ~(i < 1)
      BY <1>2
    <3>. QED
      BY <2>1, <3>1 DEF Passed
  <2>. QED
    BY <2>1, <2>2, <2>3 DEF PlacedAs
<1>7. LeftBehind /\ EmptyWithoutRow /\ LoserHasRow /\ Quiet
  BY DEF Init, LeftBehind, EmptyWithoutRow, LoserHasRow, Quiet, Ledgers
<1>8. PastOnly
  BY DEF Init, PastOnly
<1>9. CountsCover /\ OverrunBounded
  <2>1. Cardinality({}) = 0
    BY FS_EmptySet
  <2>2. ASSUME NEW s \in Subjects, NEW l \in Ledgers, NEW m \in Minutes
        PROVE  /\ used[l][s][m] = 0 /\ Count(l, s, m) = 0
               /\ Holders(s, <<l, m>>) = {} /\ Strays(s, <<l, m>>) = {}
    <3>1. <<l, m>> # Nowhere
      BY DEF Ledgers, Nowhere
    <3>2. /\ Booked(s, l, m) = {} /\ Returned(s, l, m) = {} /\ Passing(s, m) = {}
          /\ Holders(s, <<l, m>>) = {} /\ Strays(s, <<l, m>>) = {}
      BY <3>1 DEF Init, Booked, Returned, Passing, Holders, Strays
    <3>3. Count(l, s, m) = 0
      BY <2>1, <3>2 DEF Count
    <3>. QED
      BY <3>2, <3>3 DEF Init
  <2>3. CountsCover
    <3>. SUFFICES ASSUME NEW s \in Subjects, NEW m \in Minutes, NEW l \in Ledgers
                  PROVE  used[l][s][m] >= Count(l, s, m) /\ used[l][s][m] = Count(l, s, m)
      BY DEF CountsCover
    <3>1. used[l][s][m] = 0 /\ Count(l, s, m) = 0
      BY <2>2
    <3>. QED
      BY <3>1
  <2>4. ASSUME NEW s \in Subjects, NEW spot \in Spots
        PROVE  Cardinality(Holders(s, spot)) <= PerMinute[s] + Cardinality(Strays(s, spot))
    <3>1. PICK l \in Ledgers, m \in Minutes : spot = <<l, m>>
      BY DEF Spots
    <3>2. PerMinute[s] \in Nat
      BY QuotaAssumption
    <3>3. Holders(s, spot) = {} /\ Strays(s, spot) = {}
      BY <2>2, <3>1
    <3>. QED
      BY <2>1, <3>2, <3>3
  <2>. QED
    BY <2>3, <2>4 DEF OverrunBounded
<1>. QED
  BY <1>5, <1>6, <1>7, <1>8, <1>9 DEF IInv

\* Every step keeps it.
LEMMA QuotaNext ==
    ASSUME IInv, [Next]_vars
    PROVE  IInv'
<1>1. TypeOK
  BY DEF IInv
<1>2. CASE UNCHANGED vars
  <2>. USE <1>2 DEF vars
  <2>1. TypeOK'
    BY <1>1 DEF TypeOK
  <2>2. PlacesByGate'
    BY DEF IInv, PlacesByGate, PlacedAs, OweAs, Passed
  <2>3. LeftBehind'
    BY DEF IInv, LeftBehind, NothingLeft, Strays
  <2>4. EmptyWithoutRow' /\ LoserHasRow' /\ PastOnly' /\ Quiet'
    BY DEF IInv, EmptyWithoutRow, LoserHasRow, PastOnly, Quiet, Subject
  <2>5. CountsCover'
    <3>1. \A l, s, m : Count(l, s, m)' = Count(l, s, m)
      BY DEF Count, Booked, Returned, Passing, Subject
    <3>. QED
      BY <3>1 DEF IInv, CountsCover
  <2>6. OverrunBounded'
    <3>1. \A s, spot : Holders(s, spot)' = Holders(s, spot) /\ Strays(s, spot)' = Strays(s, spot)
      BY DEF Holders, Strays
    <3>. QED
      BY <3>1 DEF IInv, OverrunBounded
  <2>. QED
    BY <2>1, <2>2, <2>3, <2>4, <2>5, <2>6 DEF IInv
<1>3. ASSUME NEW r \in Requests, Step(r)
      PROVE  IInv'
  <2>1. TypeOK'
    BY <1>1, <1>3, RedisTyped, DatabaseTyped, AdmittedTyped, GiveBackTyped DEF Step
  <2>2. PlacesByGate'
    BY <1>3, <2>1, PlacesStep DEF IInv
  <2>3. EmptyWithoutRow' /\ LoserHasRow'
    BY <1>3, <2>1, RowsStep DEF IInv
  <2>4. PastOnly'
    BY <1>3, <2>1, PastStep DEF IInv
  <2>5. Quiet'
    BY <1>3, <2>1, QuietStep DEF IInv
  <2>6. CountsCover'
    BY <1>3, <2>1, CountsStep DEF IInv
  <2>7. LeftBehind'
    BY <1>3, <2>1, LeftBehindStep DEF IInv
  <2>8. OverrunBounded'
    BY <1>3, <2>1, <2>6, OverrunStep DEF IInv
  <2>. QED
    BY <2>1, <2>2, <2>3, <2>4, <2>5, <2>6, <2>7, <2>8 DEF IInv
<1>4. CASE Outside
  BY <1>4, OutsideStep
<1>. QED
  BY <1>2, <1>3, <1>4 DEF Next, Outside

\* The invariant of the gates of a minute.
THEOREM QuotaInvariance == Spec => []IInv
<1>. QED
  BY QuotaInit, QuotaNext, PTL DEF Spec

\* The counters are what the requests hold, a request holds a place at every
\* gate or at none, and no ledger lets in more than its limit and the strays.
THEOREM PlacesAreExact == Spec => []PlacesExact
<1>1. IInv => CountersExact
  <2>. SUFFICES ASSUME IInv, failures = 0, resets = 0,
                       NEW s \in Subjects, NEW m \in Minutes, NEW l \in Ledgers
                PROVE  used[l][s][m] = Count(l, s, m)
    BY DEF CountersExact, Count
  <2>. QED
    BY DEF IInv, CountsCover
<1>2. IInv => AllOrNothing
  <2>. SUFFICES ASSUME IInv, NEW r \in Requests, NEW s \in Subjects
                PROVE  LET holds == took[r][s] # Nowhere /\ gave[r][s] = Nowhere IN
                       /\ pc[r] = "refused" /\ failures = 0 /\ holds => NothingLeft(r, s)
                       /\ pc[r] \in {"admitted", "served"} =>
                             (holds <=> \E i \in 1..Len(Gates[r]) : Gates[r][i] = s)
    BY DEF AllOrNothing
  <2>1. ASSUME pc[r] = "refused", failures = 0, took[r][s] # Nowhere, gave[r][s] = Nowhere
        PROVE  NothingLeft(r, s)
    <3>1. todo[r] = << >>
      BY <2>1 DEF IInv, TypeOK
    <3>2. ~\E i \in 1..Len(todo[r]) : todo[r][i] = s
      BY <3>1
    <3>3. ~(failures > 0)
      BY <2>1
    <3>. QED
      BY <2>1, <3>2, <3>3 DEF IInv, LeftBehind
  <2>2. PlacedAs(r)
    BY DEF IInv, PlacesByGate
  <2>. QED
    BY <2>1, <2>2 DEF PlacedAs
<1>3. IInv => PlacesExact
  BY <1>1, <1>2 DEF IInv, PlacesExact
<1>. QED
  BY <1>3, QuotaInvariance, PTL

\* Whoever loses the race to create the row of a minute is refused only when as
\* many requests as the limit hold a place of this row.
THEOREM LosersAreRefusedWhenFull == Spec => LoserRefusedOnlyWhenFull
<1>1. IInv /\ [Next]_vars =>
        [\A r \in Requests :
            LET s == Subject(r)
                spot == <<"database", at[r]>>
            IN
            /\ pc[r] = "again" /\ pc'[r] \in {"leaving", "refused"}
            /\ resets = 0 /\ Misplaced(s, spot) = {}
            => Cardinality(Holders(s, spot)) >= PerMinute[s]]_vars
  <2>. SUFFICES ASSUME IInv, Next, NEW r \in Requests,
                       pc[r] = "again", pc'[r] \in {"leaving", "refused"},
                       resets = 0, Misplaced(Subject(r), <<"database", at[r]>>) = {}
                PROVE  Cardinality(Holders(Subject(r), <<"database", at[r]>>))
                          >= PerMinute[Subject(r)]
    OBVIOUS
  <2>. DEFINE s == Subject(r)
              m == at[r]
  <2>1. TypeOK /\ pc'[r] # pc[r]
    BY DEF IInv
  <2>2. Step(r)
    <3>1. CASE Outside
      BY <2>1, <3>1, OutsideFrame DEF IInv
    <3>2. ASSUME NEW q \in Requests, Step(q), q # r
          PROVE  FALSE
      BY <2>1, <3>2, Frame DEF OnlyOf
    <3>. QED
      BY <3>1, <3>2 DEF Next, Outside
  <2>3. ~Takes(s, m)
    <3>1. DatabaseTakeAgain(r)
      BY <2>2 DEF Step, RedisTake, RedisStepBack, RedisFails, DatabaseTake, DatabaseInsert,
                  Serve, TurnAway, GiveBack
    <3>2. ASSUME Pass(r, "database", at[r]) PROVE FALSE
      BY <2>1, <3>2 DEF Pass, TypeOK
    <3>. QED
      BY <3>1, <3>2 DEF DatabaseTakeAgain
  <2>4. /\ s \in Subjects /\ m \in Minutes /\ "database" \in Ledgers /\ PerMinute[s] \in Nat
        /\ used["database"][s][m] \in Int
    <3>1. s \in Subjects /\ m \in Minutes
      BY <2>1, AtGate
    <3>. HIDE DEF s, m
    <3>. QED
      BY <2>1, <3>1, QuotaAssumption DEF Ledgers, TypeOK
  <2>5. used["database"][s][m] >= PerMinute[s]
    <3>1. <<s, m>> \in rows
      BY DEF IInv, LoserHasRow
    <3>. QED
      BY <2>3, <2>4, <3>1 DEF Takes
  <2>6. used["database"][s][m] = Count("database", s, m)
    BY <2>4 DEF IInv, CountsCover
  <2>7. Cardinality(Holders(s, <<"database", m>>)) >=
           Cardinality(Booked(s, "database", m)) - Cardinality(Returned(s, "database", m))
    <3>1. PICK first, second : first = [q \in Requests |-> took[q][s]]
                               /\ second = [q \in Requests |-> gave[q][s]]
      OBVIOUS
    <3>2. <<"database", m>> # Nowhere
      BY DEF Nowhere
    <3>3. /\ Holders(s, <<"database", m>>) = Holding(first, second, <<"database", m>>)
          /\ Misplaced(s, <<"database", m>>) = Losing(first, second, <<"database", m>>)
          /\ Booked(s, "database", m) = At(first, <<"database", m>>)
          /\ Returned(s, "database", m) = At(second, <<"database", m>>)
      BY <3>1 DEF Holders, Misplaced, Booked, Returned, Holding, Losing, At
    <3>. HIDE DEF s, m
    <3>4. Losing(first, second, <<"database", m>>) = {} =>
             Cardinality(Holding(first, second, <<"database", m>>)) >=
                Cardinality(At(first, <<"database", m>>)) - Cardinality(At(second, <<"database", m>>))
      BY <3>2, HoldersCounted
    <3>5. Misplaced(s, <<"database", m>>) = {}
      BY DEF s, m
    <3>. QED
      BY <3>3, <3>4, <3>5
  <2>8. /\ Cardinality(Booked(s, "database", m)) \in Nat
        /\ Cardinality(Returned(s, "database", m)) \in Nat
        /\ Cardinality(Holders(s, <<"database", m>>)) \in Nat
    <3>1. Holders(s, <<"database", m>>) \in SUBSET Requests
      BY DEF Holders
    <3>. QED
      BY <3>1, RequestSets, CountIsInt
  <2>9. Count("database", s, m) =
           Cardinality(Booked(s, "database", m)) - Cardinality(Returned(s, "database", m)) + 0
    BY DEF Count
  <2>. HIDE DEF s, m
  <2>10. Cardinality(Holders(s, <<"database", m>>)) >= PerMinute[s]
    BY <2>4, <2>5, <2>6, <2>7, <2>8, <2>9
  <2>. QED
    BY <2>10 DEF s, m
<1>. QED
  BY <1>1, QuotaInvariance, PTL DEF Spec, LoserRefusedOnlyWhenFull

-----------------------------------------------------------------------------
(* The sums of the long windows. *)

\* Among sets of charges there is a smallest one.
LEMMA SmallestSet ==
    ASSUME LedgerAssumption, NEW T \in SUBSET (SUBSET Charges), T # {}
    PROVE  \E x \in T : \A y \in T : ~(y \subseteq x /\ y # x)
<1>. DEFINE R == StrictSubsetOrdering(Charges)
            F == FiniteSubsetsOf(Charges)
<1>1. F = SUBSET Charges
  BY FS_FiniteSubsetsOfFinite DEF LedgerAssumption
<1>2. IsWellFoundedOn(R, F)
  BY FS_StrictSubsetOrderingWellFounded
<1>3. \E x \in T : \A y \in T : ~(<<y, x>> \in R)
  <2>. HIDE DEF R, F
  <2>. QED
    BY <1>1, <1>2, WFMin
<1>4. PICK x \in T : \A y \in T : ~(<<y, x>> \in R)
  BY <1>3
<1>5. ASSUME NEW y \in T, y \subseteq x, y # x
      PROVE  FALSE
  <2>1. <<y, x>> \in R
    BY <1>5 DEF StrictSubsetOrdering
  <2>. HIDE DEF R
  <2>. QED
    BY <1>4, <2>1
<1>. QED
  BY <1>5

\* What a set of charges adds to a counter, unit by unit.
Units(S) == UNION {{r} \X (1..Cost[r]) : r \in S}

\* The units of no charge, and of one charge more.
LEMMA MoreUnits ==
    ASSUME LedgerAssumption, NEW S \in SUBSET Charges, NEW r \in Charges \ S, IsFiniteSet(Units(S))
    PROVE  /\ IsFiniteSet(Units(S \cup {r})) /\ Cardinality(Units(S)) \in Nat
           /\ Cost[r] \in Nat \ {0}
           /\ Cardinality(Units(S \cup {r})) = Cardinality(Units(S)) + Cost[r]
<1>. DEFINE mine == {r} \X (1..Cost[r])
<1>1. Cost[r] \in Nat \ {0}
  BY DEF LedgerAssumption
<1>2. /\ IsFiniteSet(1..Cost[r]) /\ Cardinality(1..Cost[r]) = Cost[r]
      /\ IsFiniteSet({r}) /\ Cardinality({r}) = 1
  <2>1. 1 \in Int /\ Cost[r] \in Int /\ ~(1 > Cost[r]) /\ Cost[r] - 1 + 1 = Cost[r]
    BY <1>1
  <2>2. /\ IsFiniteSet(1..Cost[r])
        /\ Cardinality(1..Cost[r]) = IF 1 > Cost[r] THEN 0 ELSE Cost[r] - 1 + 1
    BY <2>1, FS_Interval
  <2>. QED
    BY <2>1, <2>2, FS_Singleton
<1>3. IsFiniteSet(mine) /\ Cardinality(mine) = 1 * Cost[r]
  BY <1>2, FS_Product
<1>4. Units(S \cup {r}) = Units(S) \cup mine
  BY DEF Units
<1>5. Units(S) \cap mine = {}
  BY DEF Units
<1>. HIDE DEF mine
<1>6. /\ IsFiniteSet(Units(S) \cup mine)
      /\ Cardinality(Units(S) \cup mine)
            = Cardinality(Units(S)) + Cardinality(mine) - Cardinality(Units(S) \cap mine)
  BY <1>3, FS_Union
<1>7. Cardinality(Units(S) \cap mine) = 0
  BY <1>5, FS_EmptySet
<1>8. Cardinality(Units(S)) \in Nat
  BY FS_CardinalityType
<1>9. Cardinality(mine) = Cost[r]
  BY <1>1, <1>3
<1>10. Cardinality(Units(S)) + Cardinality(mine) - 0 = Cardinality(Units(S)) + Cost[r]
  BY <1>1, <1>8, <1>9
<1>. QED
  BY <1>1, <1>4, <1>6, <1>7, <1>8, <1>10

\* They are finitely many.
LEMMA UnitsFinite ==
    ASSUME LedgerAssumption, NEW S \in SUBSET Charges
    PROVE  IsFiniteSet(Units(S)) /\ Cardinality(Units(S)) \in Nat
<1>. DEFINE T == {s \in SUBSET Charges : ~IsFiniteSet(Units(s))}
<1>1. ASSUME T # {}
      PROVE  FALSE
  <2>1. PICK x \in T : \A y \in T : ~(y \subseteq x /\ y # x)
    <3>1. T \in SUBSET (SUBSET Charges)
      OBVIOUS
    <3>. HIDE DEF T
    <3>. QED
      BY <1>1, <3>1, SmallestSet
  <2>2. x # {}
    <3>1. Units({}) = {}
      BY DEF Units
    <3>. QED
      BY <2>1, <3>1, FS_EmptySet
  <2>3. PICK r \in x : TRUE
    BY <2>2
  <2>4. /\ x \ {r} \in SUBSET Charges /\ r \in Charges \ (x \ {r})
        /\ (x \ {r}) \cup {r} = x /\ x \ {r} # x /\ x \ {r} \subseteq x
    BY <2>1, <2>3
  <2>5. IsFiniteSet(Units(x \ {r}))
    BY <2>1, <2>4
  <2>6. IsFiniteSet(Units((x \ {r}) \cup {r}))
    BY <2>4, <2>5, MoreUnits
  <2>. QED
    BY <2>1, <2>4, <2>6
<1>2. IsFiniteSet(Units(S))
  BY <1>1
<1>. QED
  BY <1>2, FS_CardinalityType

\* The sum that a fold of the community modules takes, unfolded.
LEMMA SpentUnfolded ==
    ASSUME NEW S
    PROVE  L!Spent(S) =
             (CHOOSE it : it = [s \in SUBSET S |->
                 IF s = {} THEN 0
                 ELSE Cost[CHOOSE x \in s : TRUE] + it[s \ {CHOOSE x \in s : TRUE}]])[S]
  BY DEF L!Spent, L!MapThenSumSet, L!MapThenFoldSet

\* What a set of charges spends is the number of its units.
LEMMA SpentIsUnits ==
    ASSUME LedgerAssumption, NEW S \in SUBSET Charges
    PROVE  L!Spent(S) = Cardinality(Units(S)) /\ L!Spent(S) \in Nat
<1>. DEFINE first(s) == CHOOSE x \in s : TRUE
            Sums(it) == it = [s \in SUBSET S |->
                                IF s = {} THEN 0 ELSE Cost[first(s)] + it[s \ {first(s)}]]
            units == [s \in SUBSET S |-> Cardinality(Units(s))]
            sum == CHOOSE it : Sums(it)
<1>1. \A s \in SUBSET S : s # {} => first(s) \in s
  OBVIOUS
<1>2. Cardinality(Units({})) = 0
  BY FS_EmptySet DEF Units
<1>3. ASSUME NEW s \in SUBSET S, s # {}
      PROVE  /\ s \ {first(s)} \in SUBSET S
             /\ Cardinality(Units(s)) = Cost[first(s)] + Cardinality(Units(s \ {first(s)}))
  <2>. DEFINE r == first(s)
  <2>1. r \in s
    BY <1>1, <1>3
  <2>. HIDE DEF first, r
  <2>2. /\ s \ {r} \in SUBSET Charges /\ r \in Charges \ (s \ {r}) /\ (s \ {r}) \cup {r} = s
    BY <2>1
  <2>3. IsFiniteSet(Units(s \ {r}))
    BY <2>2, UnitsFinite
  <2>4. /\ Cardinality(Units(s \ {r})) \in Nat /\ Cost[r] \in Nat \ {0}
        /\ Cardinality(Units((s \ {r}) \cup {r})) = Cardinality(Units(s \ {r})) + Cost[r]
    BY <2>2, <2>3, MoreUnits
  <2>5. Cardinality(Units(s)) = Cost[r] + Cardinality(Units(s \ {r}))
    BY <2>2, <2>4
  <2>. QED
    BY <2>5 DEF r
<1>4. Sums(units)
  <2>. HIDE DEF first
  <2>1. \A s \in SUBSET S :
           units[s] = IF s = {} THEN 0 ELSE Cost[first(s)] + units[s \ {first(s)}]
    BY <1>2, <1>3
  <2>. QED
    BY <2>1
<1>5. Sums(sum)
  <2>. HIDE DEF Sums, units
  <2>. QED
    BY <1>4
<1>. HIDE DEF sum
<1>6. \A s \in SUBSET S : sum[s] = IF s = {} THEN 0 ELSE Cost[first(s)] + sum[s \ {first(s)}]
  <2>. HIDE DEF first
  <2>. QED
    BY <1>5
<1>. DEFINE T == {s \in SUBSET S : sum[s] # Cardinality(Units(s))}
<1>7. ASSUME T # {}
      PROVE  FALSE
  <2>1. T \in SUBSET (SUBSET Charges)
    OBVIOUS
  <2>2. PICK x \in T : \A y \in T : ~(y \subseteq x /\ y # x)
    <3>. HIDE DEF T
    <3>. QED
      BY <1>7, <2>1, SmallestSet
  <2>3. x # {}
    BY <1>2, <1>6, <2>2
  <2>4. /\ first(x) \in x /\ x \ {first(x)} \in SUBSET S
        /\ sum[x] = Cost[first(x)] + sum[x \ {first(x)}]
        /\ Cardinality(Units(x)) = Cost[first(x)] + Cardinality(Units(x \ {first(x)}))
    BY <1>1, <1>3, <1>6, <2>2, <2>3
  <2>5. sum[x \ {first(x)}] = Cardinality(Units(x \ {first(x)}))
    <3>. HIDE DEF first
    <3>1. x \ {first(x)} \notin T
      BY <2>2, <2>4
    <3>. QED
      BY <2>4, <3>1
  <2>. QED
    BY <2>2, <2>4, <2>5
<1>8. sum[S] = Cardinality(Units(S))
  BY <1>7
<1>9. L!Spent(S) = sum[S]
  BY SpentUnfolded DEF sum
<1>. QED
  BY <1>8, <1>9, UnitsFinite

\* The sum counts every charge once.
LEMMA SpentMore ==
    ASSUME LedgerAssumption, NEW S \in SUBSET Charges, NEW r \in Charges \ S
    PROVE  /\ L!Spent(S \cup {r}) = L!Spent(S) + Cost[r]
           /\ L!Spent(S) \in Nat /\ Cost[r] \in Nat \ {0}
<1>1. S \cup {r} \in SUBSET Charges
  OBVIOUS
<1>2. IsFiniteSet(Units(S))
  BY UnitsFinite
<1>3. /\ Cost[r] \in Nat \ {0}
      /\ Cardinality(Units(S \cup {r})) = Cardinality(Units(S)) + Cost[r]
  BY <1>2, MoreUnits
<1>. QED
  BY <1>1, <1>3, SpentIsUnits

\* Nothing is spent by nobody, and no less by more.
LEMMA SpentGrows ==
    ASSUME LedgerAssumption, NEW S \in SUBSET Charges, NEW T \in SUBSET S
    PROVE  /\ L!Spent({}) = 0
           /\ L!Spent(T) \in Nat /\ L!Spent(S) \in Nat /\ L!Spent(T) <= L!Spent(S)
<1>1. Units({}) = {} /\ {} \in SUBSET Charges /\ T \in SUBSET Charges
  BY DEF Units
<1>2. L!Spent({}) = 0
  BY <1>1, SpentIsUnits, FS_EmptySet
<1>3. Units(T) \in SUBSET Units(S)
  BY DEF Units
<1>4. Cardinality(Units(T)) <= Cardinality(Units(S))
  BY <1>3, UnitsFinite, FS_Subset
<1>. QED
  BY <1>1, <1>2, <1>4, SpentIsUnits

\* A charge costs no more than the dearest one.
LEMMA MaxCostIsMax ==
    ASSUME LedgerAssumption, NEW r \in Charges
    PROVE  L!MaxCost \in Nat \ {0} /\ Cost[r] <= L!MaxCost
<1>. DEFINE costs == {Cost[q] : q \in Charges}
            dearer(q) == {p \in Charges : Cost[p] > Cost[q]}
            T == {dearer(q) : q \in Charges}
<1>1. \A q \in Charges : Cost[q] \in Nat \ {0}
  BY DEF LedgerAssumption
<1>2. T \in SUBSET (SUBSET Charges) /\ T # {}
  <2>1. dearer(r) \in T
    OBVIOUS
  <2>2. \A q \in Charges : dearer(q) \in SUBSET Charges
    OBVIOUS
  <2>. HIDE DEF dearer
  <2>. QED
    BY <2>1, <2>2
<1>3. PICK x \in T : \A y \in T : ~(y \subseteq x /\ y # x)
  <2>. HIDE DEF T
  <2>. QED
    BY <1>2, SmallestSet
<1>4. PICK q \in Charges : x = dearer(q)
  BY <1>3
<1>5. ASSUME NEW p \in Charges, Cost[p] > Cost[q]
      PROVE  FALSE
  <2>1. dearer(p) \subseteq dearer(q)
    BY <1>1, <1>5
  <2>2. p \in dearer(q) /\ p \notin dearer(p)
    BY <1>1, <1>5
  <2>3. dearer(p) \in T
    OBVIOUS
  <2>. HIDE DEF dearer
  <2>. QED
    BY <1>3, <1>4, <2>1, <2>2, <2>3
<1>6. \E n \in costs : \A m \in costs : n >= m
  BY <1>1, <1>5
<1>7. L!MaxCost = CHOOSE n \in costs : \A m \in costs : n >= m
  BY DEF L!MaxCost, L!Max
<1>8. L!MaxCost \in costs /\ \A m \in costs : L!MaxCost >= m
  <2>. HIDE DEF costs
  <2>. QED
    BY <1>6, <1>7
<1>. QED
  BY <1>1, <1>8

\* A number of charges cost no more than as many of the dearest.
LEMMA SpentBounded ==
    ASSUME LedgerAssumption, Charges # {}, NEW S \in SUBSET Charges
    PROVE  L!Spent(S) <= Cardinality(S) * L!MaxCost /\ L!MaxCost \in Nat
<1>. DEFINE most == 1..L!MaxCost
<1>1. L!MaxCost \in Nat
  BY MaxCostIsMax
<1>2. IsFiniteSet(most) /\ Cardinality(most) = L!MaxCost
  <2>1. 1 \in Int /\ L!MaxCost \in Int
        /\ L!MaxCost = IF 1 > L!MaxCost THEN 0 ELSE L!MaxCost - 1 + 1
    BY <1>1
  <2>. QED
    BY <2>1, FS_Interval
<1>3. IsFiniteSet(S)
  BY FS_Subset DEF LedgerAssumption
<1>4. IsFiniteSet(S \X most) /\ Cardinality(S \X most) = Cardinality(S) * Cardinality(most)
  BY <1>2, <1>3, FS_Product
<1>5. Units(S) \in SUBSET (S \X most)
  <2>1. ASSUME NEW r \in S
        PROVE  {r} \X (1..Cost[r]) \subseteq S \X most
    <3>1. Cost[r] <= L!MaxCost /\ Cost[r] \in Nat
      BY MaxCostIsMax DEF LedgerAssumption
    <3>2. 1..Cost[r] \subseteq most
      BY <1>1, <3>1
    <3>. QED
      BY <3>2
  <2>. QED
    BY <2>1 DEF Units
<1>6. Cardinality(Units(S)) <= Cardinality(S \X most)
  BY <1>4, <1>5, FS_Subset
<1>. QED
  BY <1>1, <1>2, <1>4, <1>6, SpentIsUnits

\* Charges with nothing in common.
LEMMA SpentApart ==
    ASSUME LedgerAssumption, NEW S \in SUBSET Charges, NEW T \in SUBSET Charges, S \cap T = {}
    PROVE  /\ L!Spent(S \cup T) = L!Spent(S) + L!Spent(T)
           /\ L!Spent(S) \in Nat /\ L!Spent(T) \in Nat
<1>1. /\ IsFiniteSet(Units(S)) /\ IsFiniteSet(Units(T))
      /\ Cardinality(Units(S)) \in Nat /\ Cardinality(Units(T)) \in Nat
  BY UnitsFinite
<1>2. Units(S \cup T) = Units(S) \cup Units(T) /\ Units(S) \cap Units(T) = {}
  BY DEF Units
<1>3. Cardinality(Units(S) \cup Units(T)) =
         Cardinality(Units(S)) + Cardinality(Units(T)) - Cardinality(Units(S) \cap Units(T))
  BY <1>1, FS_Union
<1>4. Cardinality(Units(S) \cap Units(T)) = 0
  BY <1>2, FS_EmptySet
<1>5. Cardinality(Units(S \cup T)) = Cardinality(Units(S)) + Cardinality(Units(T))
  <2>1. PICK m, n : m = Cardinality(Units(S)) /\ n = Cardinality(Units(T))
    OBVIOUS
  <2>2. Cardinality(Units(S \cup T)) = m + n - 0
    BY <1>2, <1>3, <1>4, <2>1
  <2>3. m + n - 0 = m + n
    BY <1>1, <2>1
  <2>. QED
    BY <2>1, <2>2, <2>3
<1>6. S \cup T \in SUBSET Charges
  OBVIOUS
<1>. QED
  BY <1>5, <1>6, SpentIsUnits

-----------------------------------------------------------------------------
(* The charges by the places they are at. *)

In(P) == {q \in Charges : charging[q] \in P}
Many(P) == Cardinality(In(P))
Total(P) == L!Spent(In(P))

\* They are numbers.
LEMMA InTyped ==
    ASSUME LedgerAssumption, NEW P
    PROVE  /\ In(P) \in SUBSET Charges /\ IsFiniteSet(In(P))
           /\ Many(P) \in Nat /\ Total(P) \in Nat
<1>1. In(P) \in SUBSET Charges
  BY DEF In
<1>2. IsFiniteSet(In(P))
  BY <1>1, FS_Subset DEF LedgerAssumption
<1>. QED
  BY <1>1, <1>2, FS_CardinalityType, SpentIsUnits DEF Many, Total

\* A charge moves to another place.
MovesTo(r, p) == charging' = [charging EXCEPT ![r] = p]

\* It joins the places that have the new one, and leaves the others.
LEMMA InMoves ==
    ASSUME LedgerAssumption, L!TypeOK, NEW r \in Charges, NEW p, MovesTo(r, p), NEW P
    PROVE  /\ charging'[r] = p
           /\ \A q \in Charges \ {r} : charging'[q] = charging[q]
           /\ In(P)' = IF p \in P THEN In(P) \cup {r} ELSE In(P) \ {r}
           /\ r \in In(P) <=> charging[r] \in P
<1>1. charging'[r] = p /\ \A q \in Charges \ {r} : charging'[q] = charging[q]
  BY DEF L!TypeOK, MovesTo
<1>. QED
  BY <1>1 DEF In

\* And their numbers change by one.
LEMMA Moves ==
    ASSUME LedgerAssumption, L!TypeOK, NEW r \in Charges, NEW p, MovesTo(r, p), NEW P
    PROVE  /\ Many(P) \in Nat /\ Many(P)' \in Nat /\ Total(P) \in Nat /\ Total(P)' \in Nat
           /\ Cost[r] \in Nat \ {0}
           /\ (p \in P <=> charging[r] \in P) => Many(P)' = Many(P) /\ Total(P)' = Total(P)
           /\ p \in P /\ charging[r] \notin P =>
                 Many(P)' = Many(P) + 1 /\ Total(P)' = Total(P) + Cost[r]
           /\ p \notin P /\ charging[r] \in P =>
                 Many(P) = Many(P)' + 1 /\ Total(P) = Total(P)' + Cost[r]
<1>. DEFINE A == In(P)
            B == In(P)'
<1>1. /\ B = IF p \in P THEN A \cup {r} ELSE A \ {r}
      /\ r \in A <=> charging[r] \in P
  BY InMoves
<1>2. A \in SUBSET Charges /\ IsFiniteSet(A)
  BY InTyped
<1>3. B \in SUBSET Charges /\ IsFiniteSet(B)
  <2>1. B \in SUBSET Charges
    BY <1>1, <1>2
  <2>. QED
    BY <2>1, FS_Subset DEF LedgerAssumption
<1>. HIDE DEF A, B
<1>4. /\ Cardinality(A) \in Nat /\ Cardinality(B) \in Nat
      /\ L!Spent(A) \in Nat /\ L!Spent(B) \in Nat /\ Cost[r] \in Nat \ {0}
  BY <1>2, <1>3, FS_CardinalityType, SpentIsUnits DEF LedgerAssumption
<1>5. CASE p \in P <=> charging[r] \in P
  <2>1. A = B
    BY <1>1, <1>5
  <2>. QED
    BY <1>4, <1>5, <2>1 DEF A, B, Many, Total
<1>6. CASE p \in P /\ charging[r] \notin P
  <2>1. B = A \cup {r} /\ r \in Charges \ A
    BY <1>1, <1>6
  <2>2. Cardinality(B) = Cardinality(A) + 1
    BY <1>2, <2>1, FS_AddElement
  <2>3. L!Spent(B) = L!Spent(A) + Cost[r]
    BY <1>2, <2>1, SpentMore
  <2>. QED
    BY <1>4, <1>6, <2>2, <2>3 DEF A, B, Many, Total
<1>7. CASE p \notin P /\ charging[r] \in P
  <2>1. A = B \cup {r} /\ r \in Charges \ B
    BY <1>1, <1>7
  <2>2. Cardinality(A) = Cardinality(B) + 1
    BY <1>3, <2>1, FS_AddElement
  <2>3. L!Spent(A) = L!Spent(B) + Cost[r]
    BY <1>3, <2>1, SpentMore
  <2>. QED
    BY <1>4, <1>7, <2>2, <2>3 DEF A, B, Many, Total
<1>. QED
  BY <1>5, <1>6, <1>7

\* The charges at fewer places are fewer.
LEMMA Within ==
    ASSUME LedgerAssumption, NEW P, NEW Q, P \subseteq Q
    PROVE  Many(P) <= Many(Q) /\ Total(P) <= Total(Q)
<1>1. In(P) \in SUBSET In(Q) /\ In(Q) \in SUBSET Charges /\ IsFiniteSet(In(Q))
  BY InTyped DEF In
<1>. QED
  BY <1>1, FS_Subset, SpentGrows DEF Many, Total

-----------------------------------------------------------------------------
(* The invariant of the ledgers. *)

AtWork == L!InCheck \cup {"running", "record"}

\* The database holds nothing that was not charged.
DatabaseCharged == database <= Total({"charged"})

\* A client has one request at work.
FewClients == Many(AtWork) <= Clients

\* Until a call to Redis fails there is one ledger.
OneLedger ==
    outages = 0 =>
        /\ \A w \in Workers : ~hasCounts[w] /\ ~lost[w]
        /\ \A r \in Charges : /\ charging[r] \notin {"miss", "seed", "record"}
                              /\ UseRedis => charging[r] # "fallback"
        /\ losses = 0 => (IF UseRedis THEN redis ELSE database) = Total({"charged"})

\* What a check seeds Redis with it found in the database.
SeedKept == \A r \in Charges : charging[r] = "seed" => read[r] > 0 /\ read[r] <= database

\* Redis counts too much by what is seeded twice: with what the checks under way
\* may still seed, no more than the database holds for every client but one.
Covered ==
    redis + Many({"miss", "seed"}) * database
       <= Total({"charged", "record"}) + (Clients - 1) * database

LedgerInv ==
    /\ L!TypeOK /\ L!EveryChargeKept /\ L!OverrunBounded
    /\ DatabaseCharged /\ FewClients /\ OneLedger /\ SeedKept /\ Covered

\* The sets that the properties name.
LEMMA NamedSets ==
    /\ L!Charged = In({"charged"})
    /\ L!Charged \cup L!Running = In({"charged", "running", "record"})
    /\ {q \in Charges : charging[q] \in L!InCheck} \cup L!Running = In(AtWork)
  BY DEF L!Charged, L!Running, In, AtWork

\* And afterwards.
LEMMA NamedSetsNext ==
    /\ L!Charged' = In({"charged"})'
    /\ (L!Charged \cup L!Running)' = In({"charged", "running", "record"})'
    /\ ({q \in Charges : charging[q] \in L!InCheck} \cup L!Running)' = In(AtWork)'
  BY DEF L!Charged, L!Running, In, AtWork

\* More of them cost no less.
LEMMA Larger ==
    ASSUME NEW m \in Nat, NEW n \in Nat, NEW each \in Nat, m <= n
    PROVE  m * each <= n * each
<1>1. PICK more \in Nat : n = m + more
  BY n - m \in Nat, n = m + (n - m)
<1>2. n * each = m * each + more * each /\ more * each \in Nat /\ m * each \in Nat
  BY <1>1
<1>. QED
  BY <1>1, <1>2

\* The instance counts as the module does.
LEMMA SameCount ==
    ASSUME NEW S
    PROVE  L!Cardinality(S) = Cardinality(S)
  BY Zenon DEF L!Cardinality, Cardinality

\* The charges at fewer places are fewer afterwards, too.
LEMMA WithinNext ==
    ASSUME LedgerAssumption, NEW P, NEW Q, P \subseteq Q
    PROVE  /\ Many(P)' <= Many(Q)' /\ Total(P)' <= Total(Q)'
           /\ Many(P)' \in Nat /\ Many(Q)' \in Nat /\ Total(P)' \in Nat /\ Total(Q)' \in Nat
<1>1. In(P)' \in SUBSET In(Q)' /\ In(Q)' \in SUBSET Charges
  BY DEF In
<1>2. IsFiniteSet(In(Q)')
  BY <1>1, FS_Subset DEF LedgerAssumption
<1>3. /\ Cardinality(In(P)') <= Cardinality(In(Q)')
      /\ IsFiniteSet(In(P)')
  BY <1>1, <1>2, FS_Subset
<1>4. /\ L!Spent(In(P)') <= L!Spent(In(Q)')
      /\ L!Spent(In(P)') \in Nat /\ L!Spent(In(Q)') \in Nat
  BY <1>1, SpentGrows
<1>5. Cardinality(In(P)') \in Nat /\ Cardinality(In(Q)') \in Nat
  BY <1>2, <1>3, FS_CardinalityType
<1>. QED
  BY <1>3, <1>4, <1>5 DEF Many, Total

Rungs == L!InCheck \cup {"new", "running", "record", "charged", "refused"}

\* What the assumption and the types say of one charge.
LEMMA ChargeTyped ==
    ASSUME LedgerAssumption, L!TypeOK, NEW r \in Charges
    PROVE  /\ ChargedAt[r] \in Workers /\ Cost[r] \in Nat \ {0} /\ Limit \in Nat \ {0}
           /\ MaxOutages \in Nat /\ MaxLosses \in Nat /\ Clients \in Nat \ {0}
           /\ redis \in Nat /\ database \in Nat /\ read[r] \in Nat
           /\ outages \in Nat /\ losses \in Nat /\ charging[r] \in Rungs
  BY DEF LedgerAssumption, L!TypeOK, Rungs

\* What a step does to the ledgers and to the place of the charge.
LEMMA LedgerKinds ==
    ASSUME LedgerAssumption, L!TypeOK, NEW r \in Charges, L!Step(r)
    PROVE  /\ losses' = losses
           /\ L!NoFailure \/ L!MarkDown(r)
           /\ \/ /\ charging[r] = "new" /\ MovesTo(r, "asking") /\ Many(AtWork) < Clients
                 /\ UNCHANGED <<redis, database, read>>
              \/ /\ charging[r] = "asking" /\ MovesTo(r, "miss")
                 /\ redis = 0 /\ hasCounts[ChargedAt[r]] /\ L!NoFailure
                 /\ UNCHANGED <<redis, database, read>>
              \/ /\ charging[r] = "asking" /\ MovesTo(r, "fallback") /\ L!MarkDown(r)
                 /\ UNCHANGED <<redis, database, read>>
              \/ /\ charging[r] = "asking" /\ L!UsingRedis(r) /\ L!Decide(r, redis)
                 /\ L!NoFailure /\ ~L!Consults(r)
                 /\ UNCHANGED <<redis, database>>
              \/ /\ charging[r] = "fallback" \/ (charging[r] = "asking" /\ ~L!UsingRedis(r))
                 /\ L!Decide(r, database) /\ L!NoFailure
                 /\ UNCHANGED <<redis, database>>
              \/ /\ charging[r] = "miss" /\ database = 0 /\ L!Decide(r, 0) /\ L!NoFailure
                 /\ UNCHANGED <<redis, database>>
              \/ /\ charging[r] = "miss" /\ database # 0 /\ MovesTo(r, "seed") /\ L!NoFailure
                 /\ read' = [read EXCEPT ![r] = database]
                 /\ UNCHANGED <<redis, database>>
              \/ /\ charging[r] = "seed" /\ L!Decide(r, read[r])
                 /\ redis' \in {redis, redis + read[r]} /\ database' = database
              \/ /\ charging[r] = "running" /\ MovesTo(r, "charged") /\ L!NoFailure
                 /\ L!UsingRedis(r) /\ redis' = redis + Cost[r] /\ UNCHANGED <<database, read>>
              \/ /\ charging[r] = "running" /\ MovesTo(r, "record") /\ L!MarkDown(r)
                 /\ redis' \in {redis, redis + Cost[r]} /\ UNCHANGED <<database, read>>
              \/ /\ charging[r] = "record" \/ (charging[r] = "running" /\ ~L!UsingRedis(r))
                 /\ MovesTo(r, "charged") /\ L!NoFailure
                 /\ database' = database + Cost[r] /\ UNCHANGED <<redis, read>>
<1>1. CASE L!Arrive(r)
  <2>1. L!Cardinality({q \in Charges : charging[q] \in L!InCheck} \cup L!Running) < Clients
    BY <1>1 DEF L!Arrive
  <2>2. Many(AtWork) < Clients
    BY <2>1, NamedSets, SameCount DEF Many
  <2>. QED
    BY <1>1, <2>2 DEF L!Arrive, L!Goto, MovesTo
<1>2. CASE L!GetFromRedis(r)
  BY <1>2 DEF L!GetFromRedis, L!Goto, MovesTo, L!Consults
<1>3. CASE L!GetFails(r)
  BY <1>3 DEF L!GetFails, L!Goto, MovesTo
<1>4. CASE L!GetFromDatabase(r)
  BY <1>4 DEF L!GetFromDatabase
<1>5. CASE L!ConsultDatabase(r)
  BY <1>5 DEF L!ConsultDatabase, L!Goto, MovesTo
<1>6. CASE L!Seed(r) \/ L!SeedFails(r)
  BY <1>6 DEF L!Seed, L!SeedFails, L!MaybeAdded
<1>7. CASE L!RecordInRedis(r)
  BY <1>7 DEF L!RecordInRedis, L!Goto, MovesTo
<1>8. CASE L!RecordFails(r)
  BY <1>8 DEF L!RecordFails, L!MaybeAdded, L!Goto, MovesTo
<1>9. CASE L!RecordInDatabase(r)
  BY <1>9 DEF L!RecordInDatabase, L!Goto, MovesTo
<1>. QED
  BY <1>1, <1>2, <1>3, <1>4, <1>5, <1>6, <1>7, <1>8, <1>9 DEF L!Step

\* A call to Redis that raised, or none.
LEMMA OutagesTyped ==
    ASSUME LedgerAssumption, L!TypeOK, NEW r \in Charges, L!NoFailure \/ L!MarkDown(r)
    PROVE  /\ lost' \in [Workers -> BOOLEAN] /\ hasCounts' \in [Workers -> BOOLEAN]
           /\ outages' \in 0..MaxOutages /\ outages <= outages'
           /\ outages' = 0 => UNCHANGED <<lost, hasCounts, outages>>
           /\ \A w \in Workers : lost'[w] => hasCounts'[w]
           /\ \A w \in Workers : hasCounts[w] => hasCounts'[w]
<1>1. ChargedAt[r] \in Workers /\ MaxOutages \in Nat /\ outages \in Nat /\ outages <= MaxOutages
  BY ChargeTyped DEF L!TypeOK
<1>2. CASE L!NoFailure
  BY <1>1, <1>2 DEF L!NoFailure, L!TypeOK
<1>3. CASE L!MarkDown(r)
  <2>1. outages < MaxOutages /\ outages' = outages + 1
    BY <1>3 DEF L!MarkDown
  <2>2. outages' \in 0..MaxOutages /\ outages <= outages' /\ outages' # 0
    BY <1>1, <2>1
  <2>. QED
    BY <1>1, <1>3, <2>2 DEF L!MarkDown, L!TypeOK
<1>. QED
  BY <1>2, <1>3

\* A decision takes the charge on or turns it away.
LEMMA Decides ==
    ASSUME LedgerAssumption, L!TypeOK, NEW r \in Charges, NEW count \in Nat, L!Decide(r, count)
    PROVE  /\ \E p \in {"running", "refused"} : MovesTo(r, p)
           /\ charging'[r] = IF count < Limit THEN "running" ELSE "refused"
           /\ read' \in [Charges -> Nat] /\ read'[r] = count
           /\ \A q \in Charges \ {r} : read'[q] = read[q]
<1>1. MovesTo(r, IF count < Limit THEN "running" ELSE "refused")
  BY DEF L!Decide, L!Goto, MovesTo
<1>2. charging'[r] = IF count < Limit THEN "running" ELSE "refused"
  BY <1>1, InMoves
<1>3. \E p \in {"running", "refused"} : MovesTo(r, p)
  BY <1>1
<1>. QED
  BY <1>2, <1>3 DEF L!Decide, L!TypeOK

\* The step of a charge keeps the types.
LEMMA LedgerTyped ==
    ASSUME LedgerAssumption, L!TypeOK, NEW r \in Charges, L!Step(r)
    PROVE  L!TypeOK'
<1>1. /\ Cost[r] \in Nat /\ redis \in Nat /\ database \in Nat /\ read[r] \in Nat
      /\ ChargedAt[r] \in Workers /\ losses' \in 0..MaxLosses
      /\ lost' \in [Workers -> BOOLEAN] /\ hasCounts' \in [Workers -> BOOLEAN]
      /\ outages' \in 0..MaxOutages
      /\ \A w \in Workers : lost'[w] => hasCounts'[w]
      /\ \A w \in Workers : hasCounts[w] => hasCounts'[w]
  BY ChargeTyped, LedgerKinds, OutagesTyped DEF L!TypeOK
<1>2. redis' \in Nat /\ database' \in Nat
  <2>1. redis' \in {redis, redis + Cost[r], redis + read[r]}
        /\ database' \in {database, database + Cost[r]}
    BY LedgerKinds
  <2>. QED
    BY <1>1, <2>1
<1>3. read' \in [Charges -> Nat]
  <2>1. read \in [Charges -> Nat] /\ 0 \in Nat
    BY DEF L!TypeOK
  <2>2. \/ read' = read
        \/ \E n \in Nat : L!Decide(r, n)
        \/ read' = [read EXCEPT ![r] = database]
    BY <1>1, <2>1, LedgerKinds
  <2>3. ASSUME NEW n \in Nat, L!Decide(r, n)
        PROVE  read' \in [Charges -> Nat]
    BY <2>3, Decides
  <2>. QED
    BY <1>1, <2>1, <2>2, <2>3
<1>4. \E p \in Rungs : /\ MovesTo(r, p)
                       /\ p = "miss" => hasCounts[ChargedAt[r]]
                       /\ p = "seed" => charging[r] = "miss"
  <2>1. ASSUME NEW n \in Nat, L!Decide(r, n)
        PROVE  \E p \in {"running", "refused"} : MovesTo(r, p)
    BY <2>1, Decides
  <2>2. 0 \in Nat
    OBVIOUS
  <2>3. \/ \E n \in Nat : L!Decide(r, n)
        \/ \E p \in {"asking", "fallback", "charged", "record"} : MovesTo(r, p)
        \/ MovesTo(r, "miss") /\ hasCounts[ChargedAt[r]]
        \/ MovesTo(r, "seed") /\ charging[r] = "miss"
    BY <1>1, <2>2, LedgerKinds
  <2>. QED
    BY <2>1, <2>3 DEF Rungs, L!InCheck
<1>5. PICK p \in Rungs : /\ MovesTo(r, p)
                         /\ p = "miss" => hasCounts[ChargedAt[r]]
                         /\ p = "seed" => charging[r] = "miss"
  BY <1>4
<1>6. /\ charging' \in [Charges -> Rungs]
      /\ charging'[r] = p /\ \A q \in Charges \ {r} : charging'[q] = charging[q]
  BY <1>5, InMoves DEF MovesTo, L!TypeOK, Rungs
<1>7. ASSUME NEW q \in Charges, charging'[q] \in {"miss", "seed"}
      PROVE  hasCounts'[ChargedAt[q]]
  <2>1. ChargedAt[q] \in Workers
    BY ChargeTyped
  <2>2. hasCounts[ChargedAt[q]]
    <3>1. charging[q] \in {"miss", "seed"} => hasCounts[ChargedAt[q]]
      BY DEF L!TypeOK
    <3>. QED
      BY <1>5, <1>6, <1>7, <3>1
  <2>. QED
    BY <1>1, <2>1, <2>2
<1>. QED
  BY <1>1, <1>2, <1>3, <1>6, <1>7 DEF L!TypeOK, Rungs

\* No charge is lost, and the database takes no more than what is charged.
LEMMA ChargeStep ==
    ASSUME LedgerAssumption, L!TypeOK, L!EveryChargeKept, DatabaseCharged,
           NEW r \in Charges, L!Step(r)
    PROVE  L!EveryChargeKept' /\ DatabaseCharged'
<1>. DEFINE t == Total({"charged"})
            u == Total({"charged"})'
<1>1. /\ Cost[r] \in Nat /\ redis \in Nat /\ database \in Nat /\ read[r] \in Nat
      /\ losses' = losses /\ t \in Nat /\ 0 \in Nat
  BY ChargeTyped, LedgerKinds, InTyped
<1>2. /\ losses = 0 => redis + database >= t
      /\ database <= t
  BY NamedSets DEF L!EveryChargeKept, DatabaseCharged, Total
<1>3. ASSUME NEW p, MovesTo(r, p), p # "charged", charging[r] # "charged"
      PROVE  u = t
  BY <1>3, Moves
<1>4. ASSUME MovesTo(r, "charged"), charging[r] # "charged"
      PROVE  u = t + Cost[r]
  BY <1>4, Moves
<1>5. ASSUME NEW n \in Nat, L!Decide(r, n), charging[r] # "charged"
      PROVE  u = t
  BY <1>3, <1>5, Decides
<1>. HIDE DEF t, u
<1>6. \/ u = t /\ redis' \in {redis, redis + Cost[r], redis + read[r]} /\ database' = database
      \/ u = t + Cost[r] /\ redis' = redis + Cost[r] /\ database' = database
      \/ u = t + Cost[r] /\ redis' = redis /\ database' = database + Cost[r]
  BY <1>1, <1>3, <1>4, <1>5, LedgerKinds
<1>7. /\ losses = 0 => redis' + database' >= u
      /\ database' <= u
  BY <1>1, <1>2, <1>6
<1>. QED
  BY <1>1, <1>7, NamedSetsNext DEF L!EveryChargeKept, DatabaseCharged, Total, u

\* A client keeps to one request at work.
LEMMA ClientsStep ==
    ASSUME LedgerAssumption, L!TypeOK, FewClients, NEW r \in Charges, L!Step(r)
    PROVE  FewClients'
<1>1. Many(AtWork) <= Clients /\ Many(AtWork) \in Nat /\ Clients \in Nat
  BY ChargeTyped, InTyped DEF FewClients
<1>2. ASSUME NEW p, MovesTo(r, p), charging[r] \in AtWork \/ p \notin AtWork
      PROVE  Many(AtWork)' <= Many(AtWork)
  <2>1. /\ Many(AtWork) \in Nat /\ Many(AtWork)' \in Nat
        /\ \/ Many(AtWork)' = Many(AtWork)
           \/ Many(AtWork) = Many(AtWork)' + 1
    BY <1>2, Moves, Zenon
  <2>. QED
    BY <2>1
<1>3. ASSUME MovesTo(r, "asking"), charging[r] = "new", Many(AtWork) < Clients
      PROVE  Many(AtWork)' <= Clients
  <2>1. "asking" \in AtWork /\ "new" \notin AtWork
    BY DEF AtWork, L!InCheck
  <2>2. Many(AtWork)' = Many(AtWork) + 1
    BY <1>3, <2>1, Moves
  <2>. QED
    BY <1>1, <1>3, <2>2
<1>4. ASSUME NEW n \in Nat, L!Decide(r, n), charging[r] \in AtWork
      PROVE  Many(AtWork)' <= Many(AtWork)
  BY <1>2, <1>4, Decides
<1>5. redis \in Nat /\ database \in Nat /\ read[r] \in Nat /\ 0 \in Nat
  BY ChargeTyped
<1>6. \/ charging[r] \in AtWork /\ \E p : MovesTo(r, p)
      \/ charging[r] \in AtWork /\ \E n \in Nat : L!Decide(r, n)
      \/ MovesTo(r, "asking") /\ charging[r] = "new" /\ Many(AtWork) < Clients
  BY <1>5, LedgerKinds DEF AtWork, L!InCheck
<1>7. Many(AtWork)' \in Nat
  BY WithinNext
<1>. QED
  BY <1>1, <1>2, <1>3, <1>4, <1>6, <1>7 DEF FewClients

\* What a check seeds Redis with stays in the database.
LEMMA SeedStep ==
    ASSUME LedgerAssumption, L!TypeOK, SeedKept, NEW r \in Charges, L!Step(r)
    PROVE  SeedKept' /\ database \in Nat /\ database' \in Nat /\ database <= database'
<1>1. /\ Cost[r] \in Nat /\ redis \in Nat /\ database \in Nat /\ read[r] \in Nat /\ 0 \in Nat
  BY ChargeTyped
<1>2. database' \in Nat /\ database <= database'
  <2>1. database' \in {database, database + Cost[r]}
    BY LedgerKinds
  <2>. QED
    BY <1>1, <2>1
<1>3. ASSUME NEW n \in Nat, L!Decide(r, n)
      PROVE  /\ charging'[r] # "seed"
             /\ \A q \in Charges \ {r} : read'[q] = read[q] /\ charging'[q] = charging[q]
  <2>1. PICK p \in {"running", "refused"} : MovesTo(r, p)
    BY <1>3, Decides
  <2>2. charging'[r] = p /\ \A q \in Charges \ {r} : charging'[q] = charging[q]
    BY <2>1, InMoves
  <2>. QED
    BY <1>3, <2>1, <2>2, Decides
<1>4. ASSUME NEW p, p # "seed", MovesTo(r, p), read' = read
      PROVE  /\ charging'[r] # "seed"
             /\ \A q \in Charges \ {r} : read'[q] = read[q] /\ charging'[q] = charging[q]
  BY <1>4, InMoves
<1>5. ASSUME MovesTo(r, "seed"), read' = [read EXCEPT ![r] = database], database # 0
      PROVE  /\ charging'[r] = "seed" /\ read'[r] = database
             /\ \A q \in Charges \ {r} : read'[q] = read[q] /\ charging'[q] = charging[q]
  <2>1. /\ charging'[r] = "seed" /\ \A q \in Charges \ {r} : charging'[q] = charging[q]
    BY <1>5, InMoves
  <2>. QED
    BY <1>5, <2>1 DEF L!TypeOK
<1>6. /\ charging'[r] = "seed" => read'[r] = database /\ database # 0
      /\ \A q \in Charges \ {r} : read'[q] = read[q] /\ charging'[q] = charging[q]
  BY <1>1, <1>3, <1>4, <1>5, LedgerKinds
<1>7. ASSUME NEW q \in Charges, charging'[q] = "seed"
      PROVE  read'[q] > 0 /\ read'[q] <= database'
  <2>1. CASE q = r
    BY <1>1, <1>2, <1>6, <1>7, <2>1
  <2>2. CASE q # r
    <3>1. read[q] > 0 /\ read[q] <= database /\ read'[q] = read[q] /\ read[q] \in Nat
      BY <1>6, <1>7, <2>2, ChargeTyped DEF SeedKept
    <3>. QED
      BY <1>1, <1>2, <3>1
  <2>. QED
    BY <2>1, <2>2
<1>. QED
  BY <1>1, <1>2, <1>7 DEF SeedKept

\* While every call to Redis is answered nobody leaves the one ledger.
LEMMA OneLedgerStep ==
    ASSUME LedgerAssumption, L!TypeOK, OneLedger, NEW r \in Charges, L!Step(r), outages' = 0
    PROVE  OneLedger'
<1>1. /\ Cost[r] \in Nat /\ redis \in Nat /\ database \in Nat /\ read[r] \in Nat /\ 0 \in Nat
      /\ ChargedAt[r] \in Workers /\ losses' = losses /\ outages \in Nat
      /\ outages = 0 /\ UNCHANGED <<lost, hasCounts, outages>>
  BY ChargeTyped, LedgerKinds, OutagesTyped
<1>2. /\ \A w \in Workers : ~hasCounts[w] /\ ~lost[w]
      /\ \A q \in Charges : /\ charging[q] \notin {"miss", "seed", "record"}
                            /\ UseRedis => charging[q] # "fallback"
      /\ losses = 0 => (IF UseRedis THEN redis ELSE database) = Total({"charged"})
  BY <1>1 DEF OneLedger
<1>3. ~L!MarkDown(r)
  BY <1>1 DEF L!MarkDown
<1>4. L!UsingRedis(r) <=> UseRedis
  BY <1>1, <1>2 DEF L!UsingRedis
<1>. DEFINE t == Total({"charged"})
            u == Total({"charged"})'
<1>5. ASSUME NEW p, MovesTo(r, p), p # "charged", charging[r] # "charged"
      PROVE  u = t
  BY <1>5, Moves
<1>6. ASSUME MovesTo(r, "charged"), charging[r] # "charged"
      PROVE  u = t + Cost[r]
  BY <1>6, Moves
<1>7. ASSUME NEW n \in Nat, L!Decide(r, n), charging[r] # "charged"
      PROVE  u = t /\ \E p \in {"running", "refused"} : MovesTo(r, p)
  BY <1>5, <1>7, Decides
<1>. HIDE DEF t, u
<1>8. /\ \E p \in {"asking", "running", "refused", "charged"} : MovesTo(r, p)
      /\ \/ u = t /\ redis' = redis /\ database' = database
         \/ u = t + Cost[r] /\ UseRedis /\ redis' = redis + Cost[r] /\ database' = database
         \/ u = t + Cost[r] /\ ~UseRedis /\ redis' = redis /\ database' = database + Cost[r]
  BY <1>1, <1>2, <1>3, <1>4, <1>5, <1>6, <1>7, LedgerKinds
<1>9. losses' = 0 => (IF UseRedis THEN redis' ELSE database') = u
  BY <1>1, <1>2, <1>8 DEF t
<1>10. \A q \in Charges : /\ charging'[q] \notin {"miss", "seed", "record"}
                          /\ UseRedis => charging'[q] # "fallback"
  <2>1. PICK p \in {"asking", "running", "refused", "charged"} : MovesTo(r, p)
    BY <1>8
  <2>2. charging'[r] = p /\ \A q \in Charges \ {r} : charging'[q] = charging[q]
    BY <2>1, InMoves
  <2>. QED
    BY <1>2, <2>2
<1>. QED
  BY <1>1, <1>2, <1>9, <1>10 DEF OneLedger, u

\* As long as there is one ledger, whoever it lets in found it below the limit.
LEMMA OverrunStays ==
    ASSUME LedgerAssumption, L!TypeOK, OneLedger, FewClients, FewClients', L!OverrunBounded,
           NEW r \in Charges, L!Step(r)
    PROVE  L!OverrunBounded'
<1>. SUFFICES ASSUME outages' = 0, losses' = 0
              PROVE  Total({"charged", "running", "record"})' <= Limit - 1 + Clients * L!MaxCost
  BY NamedSetsNext DEF L!OverrunBounded, Total
<1>. DEFINE all3 == {"charged", "running", "record"}
            v == Total(all3)
            w == Total(all3)'
<1>1. /\ Cost[r] \in Nat /\ redis \in Nat /\ database \in Nat /\ read[r] \in Nat /\ 0 \in Nat
      /\ ChargedAt[r] \in Workers /\ losses = 0 /\ outages = 0
      /\ Limit \in Nat /\ Clients \in Nat
  BY ChargeTyped, LedgerKinds, OutagesTyped
<1>2. v <= Limit - 1 + Clients * L!MaxCost
  BY <1>1, NamedSets DEF L!OverrunBounded, Total
<1>3. ASSUME NEW p, MovesTo(r, p), charging[r] \in all3 \/ p \notin all3
      PROVE  w <= v
  <2>1. /\ v \in Nat /\ w \in Nat /\ Cost[r] \in Nat
        /\ \/ w = v
           \/ v = w + Cost[r]
    BY <1>3, Moves
  <2>. QED
    BY <2>1
<1>4. ASSUME NEW n \in Nat, L!Decide(r, n), n < Limit => n = Total({"charged"}),
             charging[r] # "charged"
      PROVE  w <= Limit - 1 + Clients * L!MaxCost
  <2>1. CASE ~(n < Limit)
    <3>1. PICK p \in {"running", "refused"} : MovesTo(r, p)
      BY <1>4, Decides
    <3>2. charging'[r] = "refused" /\ charging'[r] = p
      BY <1>4, <2>1, <3>1, Decides, InMoves
    <3>3. w <= v
      BY <1>3, <3>1, <3>2
    <3>4. v \in Nat /\ w \in Nat /\ Clients * L!MaxCost \in Int
      <4>1. L!MaxCost \in Nat
        BY MaxCostIsMax
      <4>. QED
        BY <1>1, <4>1, InTyped, WithinNext
    <3>. QED
      BY <1>1, <1>2, <3>3, <3>4
  <2>2. CASE n < Limit
    <3>1. PICK p \in {"running", "refused"} : MovesTo(r, p)
      BY <1>4, Decides
    <3>2. Total({"charged"})' = Total({"charged"}) /\ Total({"charged"}) = n
      BY <1>4, <2>2, <3>1, Moves
    <3>. DEFINE A == In({"charged"})'
                B == In({"running", "record"})'
    <3>3. /\ In(all3)' = A \cup B /\ A \cap B = {}
          /\ A \in SUBSET Charges /\ B \in SUBSET Charges
      BY DEF In
    <3>4. w = L!Spent(A \cup B)
      BY <3>3 DEF Total
    <3>5. L!Spent(A) = n
      BY <3>2 DEF Total
    <3>6. Cardinality(B) <= Clients /\ Cardinality(B) \in Nat
      <4>1. {"running", "record"} \subseteq AtWork
        BY DEF AtWork
      <4>2. Many({"running", "record"})' <= Many(AtWork)'
            /\ Many({"running", "record"})' \in Nat /\ Many(AtWork)' \in Nat
        BY <4>1, WithinNext
      <4>3. Many({"running", "record"})' <= Clients
        BY <1>1, <4>2 DEF FewClients
      <4>. QED
        BY <4>2, <4>3 DEF Many
    <3>. HIDE DEF A, B
    <3>7. w = n + L!Spent(B) /\ L!Spent(B) \in Nat
      BY <3>3, <3>4, <3>5, SpentApart
    <3>8. L!Spent(B) <= Cardinality(B) * L!MaxCost /\ L!MaxCost \in Nat
      BY <3>3, SpentBounded
    <3>. DEFINE k == Cardinality(B)
                cost == L!MaxCost
                s == L!Spent(B)
    <3>. HIDE DEF k, cost, s, w, v
    <3>9. k \in Nat /\ cost \in Nat /\ k <= Clients /\ s \in Nat /\ s <= k * cost
      BY <3>6, <3>7, <3>8 DEF k, cost, s
    <3>10. k * cost <= Clients * cost
      BY <1>1, <3>9, Larger
    <3>11. n + s <= Limit - 1 + Clients * cost
      <4>1. k * cost \in Int /\ Clients * cost \in Int
        BY <1>1, <3>9
      <4>. QED
        BY <1>1, <1>4, <2>2, <3>9, <3>10, <4>1
    <3>. QED
      BY <3>7, <3>11 DEF s, cost
  <2>. QED
    BY <2>1, <2>2
<1>5. /\ \A x \in Workers : ~hasCounts[x] /\ ~lost[x]
      /\ \A q \in Charges : /\ charging[q] \notin {"miss", "seed", "record"}
                            /\ UseRedis => charging[q] # "fallback"
      /\ (IF UseRedis THEN redis ELSE database) = Total({"charged"})
  BY <1>1 DEF OneLedger
<1>6. L!UsingRedis(r) <=> UseRedis
  BY <1>1, <1>5 DEF L!UsingRedis
<1>. HIDE DEF v, w
<1>7. \/ \E n \in Nat : L!Decide(r, n) /\ n = Total({"charged"}) /\ charging[r] # "charged"
      \/ \E p : MovesTo(r, p) /\ (charging[r] \in all3 \/ p \notin all3)
  BY <1>1, <1>5, <1>6, LedgerKinds
<1>8. v \in Nat /\ w \in Nat /\ Clients * L!MaxCost \in Int
  <2>1. L!MaxCost \in Nat
    BY MaxCostIsMax
  <2>. QED
    BY <1>1, <2>1, InTyped, WithinNext DEF v, w
<1>9. w <= Limit - 1 + Clients * L!MaxCost
  BY <1>1, <1>2, <1>3, <1>4, <1>7, <1>8
<1>. QED
  BY <1>9 DEF w

\* What is seeded twice is what the checks under way found in the database.
LEMMA CoveredStep ==
    ASSUME LedgerAssumption, L!TypeOK, SeedKept, DatabaseCharged, FewClients, FewClients',
           Covered, NEW r \in Charges, L!Step(r)
    PROVE  Covered'
<1>. DEFINE seeding == {"miss", "seed"}
            booked == {"charged", "record"}
            n == Many(seeding)
            nn == Many(seeding)'
            t == Total(booked)
            tt == Total(booked)'
            k == Clients - 1
            cost == Cost[r]
<1>1. /\ cost \in Nat \ {0} /\ redis \in Nat /\ database \in Nat /\ read[r] \in Nat /\ 0 \in Nat
      /\ k \in Nat /\ n \in Nat /\ nn \in Nat /\ t \in Nat /\ tt \in Nat
  <2>1. Clients \in Nat \ {0} /\ Cost[r] \in Nat \ {0} /\ redis \in Nat /\ database \in Nat
        /\ read[r] \in Nat
    BY ChargeTyped
  <2>2. n \in Nat /\ nn \in Nat /\ t \in Nat /\ tt \in Nat
    BY InTyped, WithinNext
  <2>. HIDE DEF n, nn, t, tt
  <2>. QED
    BY <2>1, <2>2
<1>2. redis + n * database <= t + k * database
  BY DEF Covered
<1>3. database <= t
  <2>1. Total({"charged"}) <= t /\ Total({"charged"}) \in Nat
    BY Within, InTyped
  <2>. HIDE DEF t
  <2>. QED
    BY <1>1, <2>1 DEF DatabaseCharged
<1>4. ASSUME NEW p, MovesTo(r, p), charging[r] \in seeding <=> p \in seeding,
             charging[r] \in booked <=> p \in booked
      PROVE  nn = n /\ tt = t
  BY <1>4, Moves
<1>5. ASSUME NEW n0 \in Nat, L!Decide(r, n0), charging[r] \notin booked
      PROVE  tt = t /\ (IF charging[r] \in seeding THEN n = nn + 1 ELSE nn = n)
  <2>1. PICK p \in {"running", "refused"} : MovesTo(r, p)
    BY <1>5, Decides
  <2>2. p \notin seeding /\ p \notin booked
    BY <2>1
  <2>3. tt = t
    BY <1>5, <2>1, <2>2, Moves
  <2>4. IF charging[r] \in seeding THEN n = nn + 1 ELSE nn = n
    BY <2>1, <2>2, Moves
  <2>. QED
    BY <2>3, <2>4
<1>6. ASSUME MovesTo(r, "miss"), charging[r] = "asking"
      PROVE  tt = t /\ nn = n + 1 /\ nn <= k + 1
  <2>1. tt = t /\ nn = n + 1
    BY <1>6, Moves
  <2>2. seeding \subseteq AtWork
    BY DEF AtWork, L!InCheck
  <2>3. nn <= Many(AtWork)' /\ Many(AtWork)' \in Nat /\ Many(AtWork)' <= Clients
    BY <2>2, WithinNext DEF FewClients
  <2>4. Clients \in Nat
    BY ChargeTyped
  <2>. HIDE DEF n, nn, t, tt
  <2>. QED
    BY <1>1, <2>1, <2>3, <2>4
<1>7. ASSUME MovesTo(r, "charged"), charging[r] \in {"running", "record"}
      PROVE  /\ nn = n /\ n <= k
             /\ tt = IF charging[r] = "running" THEN t + cost ELSE t
  <2>1. nn = n /\ tt = IF charging[r] = "running" THEN t + cost ELSE t
    BY <1>7, Moves
  <2>2. In(seeding) \cup {r} \in SUBSET In(AtWork) /\ r \notin In(seeding)
    BY <1>7 DEF In, AtWork, L!InCheck
  <2>3. Cardinality(In(seeding) \cup {r}) = Cardinality(In(seeding)) + 1
    BY <2>2, InTyped, FS_AddElement
  <2>4. Cardinality(In(seeding) \cup {r}) <= Cardinality(In(AtWork))
    BY <2>2, InTyped, FS_Subset
  <2>5. n + 1 <= Many(AtWork) /\ Many(AtWork) <= Clients /\ Many(AtWork) \in Nat /\ Clients \in Nat
    BY <2>3, <2>4, InTyped, ChargeTyped DEF Many, FewClients
  <2>. HIDE DEF n, nn, t, tt
  <2>. QED
    BY <1>1, <2>1, <2>5
<1>8. ASSUME MovesTo(r, "record"), charging[r] = "running"
      PROVE  nn = n /\ tt = t + cost
  BY <1>8, Moves
<1>9. charging[r] = "seed" => read[r] <= database
  BY DEF SeedKept
<1>. HIDE DEF n, nn, t, tt, cost, k
<1>10. \/ nn = n /\ tt = t /\ redis' = redis /\ database' = database
       \/ nn = n + 1 /\ nn <= k + 1 /\ tt = t /\ redis = 0 /\ redis' = redis /\ database' = database
       \/ n = nn + 1 /\ tt = t /\ redis' = redis /\ database' = database
       \/ n = nn + 1 /\ tt = t /\ redis' \in {redis, redis + read[r]} /\ read[r] <= database
          /\ database' = database
       \/ nn = n /\ tt = t + cost /\ redis' \in {redis, redis + cost} /\ database' = database
       \/ nn = n /\ n <= k /\ tt \in {t, t + cost} /\ redis' = redis
          /\ database' = database + cost
  <2>1. \/ charging[r] = "new" /\ MovesTo(r, "asking") /\ UNCHANGED <<redis, database>>
        \/ charging[r] = "asking" /\ MovesTo(r, "miss") /\ redis = 0 /\ UNCHANGED <<redis, database>>
        \/ charging[r] = "asking" /\ MovesTo(r, "fallback") /\ UNCHANGED <<redis, database>>
        \/ /\ charging[r] \in {"asking", "fallback", "miss"} /\ UNCHANGED <<redis, database>>
           /\ \E i \in Nat : L!Decide(r, i)
        \/ charging[r] = "miss" /\ MovesTo(r, "seed") /\ UNCHANGED <<redis, database>>
        \/ /\ charging[r] = "seed" /\ \E i \in Nat : L!Decide(r, i)
           /\ redis' \in {redis, redis + read[r]} /\ database' = database
        \/ /\ charging[r] = "running" /\ MovesTo(r, "charged")
           /\ redis' = redis + cost /\ database' = database
        \/ /\ charging[r] = "running" /\ MovesTo(r, "record")
           /\ redis' \in {redis, redis + cost} /\ database' = database
        \/ /\ charging[r] \in {"running", "record"} /\ MovesTo(r, "charged")
           /\ database' = database + cost /\ redis' = redis
    BY <1>1, LedgerKinds DEF cost
  <2>2. CASE charging[r] = "new" /\ MovesTo(r, "asking") /\ UNCHANGED <<redis, database>>
    BY <1>4, <2>2
  <2>3. CASE charging[r] = "asking" /\ MovesTo(r, "miss") /\ redis = 0 /\ UNCHANGED <<redis, database>>
    BY <1>6, <2>3
  <2>4. CASE charging[r] = "asking" /\ MovesTo(r, "fallback") /\ UNCHANGED <<redis, database>>
    BY <1>4, <2>4
  <2>5. CASE /\ charging[r] \in {"asking", "fallback", "miss"} /\ UNCHANGED <<redis, database>>
             /\ \E i \in Nat : L!Decide(r, i)
    BY <1>5, <2>5
  <2>6. CASE charging[r] = "miss" /\ MovesTo(r, "seed") /\ UNCHANGED <<redis, database>>
    BY <1>4, <2>6
  <2>7. CASE /\ charging[r] = "seed" /\ \E i \in Nat : L!Decide(r, i)
             /\ redis' \in {redis, redis + read[r]} /\ database' = database
    BY <1>5, <1>9, <2>7
  <2>8. CASE /\ charging[r] = "running" /\ MovesTo(r, "charged")
             /\ redis' = redis + cost /\ database' = database
    BY <1>7, <2>8
  <2>9. CASE /\ charging[r] = "running" /\ MovesTo(r, "record")
             /\ redis' \in {redis, redis + cost} /\ database' = database
    BY <1>8, <2>9
  <2>10. CASE /\ charging[r] \in {"running", "record"} /\ MovesTo(r, "charged")
              /\ database' = database + cost /\ redis' = redis
    BY <1>7, <2>10
  <2>. QED
    BY <2>1, <2>2, <2>3, <2>4, <2>5, <2>6, <2>7, <2>8, <2>9, <2>10
<1>11. redis' + nn * database' <= tt + k * database'
  <2>1. CASE nn = n /\ tt = t /\ redis' = redis /\ database' = database
    BY <1>2, <2>1
  <2>2. CASE nn <= k + 1 /\ tt = t /\ redis = 0 /\ redis' = redis /\ database' = database
    <3>1. k + 1 \in Nat /\ (k + 1) * database = k * database + database
          /\ k * database \in Nat
      BY <1>1
    <3>2. nn * database <= (k + 1) * database
      BY <1>1, <2>2, <3>1, Larger
    <3>3. nn * database \in Nat
      BY <1>1
    <3>. QED
      BY <1>1, <1>3, <2>2, <3>1, <3>2, <3>3
  <2>3. CASE n = nn + 1 /\ tt = t /\ redis' \in {redis, redis + read[r]} /\ database' = database
             /\ (redis' # redis => read[r] <= database)
    <3>1. n * database = nn * database + database /\ nn * database \in Nat /\ k * database \in Nat
      BY <1>1, <2>3
    <3>2. redis' <= redis + database /\ redis' \in Nat
      BY <1>1, <2>3
    <3>. DEFINE x == nn * database
                y == k * database
    <3>3. x \in Nat /\ y \in Nat /\ redis + (x + database) <= t + y
      BY <1>2, <2>3, <3>1
    <3>. HIDE DEF x, y
    <3>4. redis' + x <= t + y
      <4>1. ASSUME NEW z \in Nat, z <= redis + database
            PROVE  z + x <= t + y
        BY <1>1, <3>3, <4>1
      <4>. QED
        BY <3>2, <4>1
    <3>. QED
      BY <2>3, <3>4 DEF x, y
  <2>4. CASE nn = n /\ tt = t + cost /\ redis' \in {redis, redis + cost} /\ database' = database
    <3>. DEFINE x == n * database
                y == k * database
    <3>1. x \in Nat /\ y \in Nat /\ redis + x <= t + y
      BY <1>1, <1>2
    <3>. HIDE DEF x, y
    <3>2. redis + x <= (t + cost) + y /\ (redis + cost) + x <= (t + cost) + y
      BY <1>1, <3>1
    <3>3. redis' + x <= (t + cost) + y
      BY <2>4, <3>2
    <3>. QED
      BY <2>4, <3>3 DEF x, y
  <2>5. CASE nn = n /\ n <= k /\ tt \in {t, t + cost} /\ redis' = redis
             /\ database' = database + cost
    <3>1. /\ n * (database + cost) = n * database + n * cost
          /\ k * (database + cost) = k * database + k * cost
          /\ n * database \in Nat /\ k * database \in Nat /\ n * cost \in Nat /\ k * cost \in Nat
      BY <1>1
    <3>2. n * cost <= k * cost
      BY <1>1, <2>5, Larger
    <3>. DEFINE x == n * database
                y == k * database
                xc == n * cost
                yc == k * cost
    <3>3. /\ x \in Nat /\ y \in Nat /\ xc \in Nat /\ yc \in Nat /\ xc <= yc
          /\ redis + x <= t + y /\ t <= tt
      BY <1>1, <1>2, <2>5, <3>1, <3>2
    <3>. HIDE DEF x, y, xc, yc
    <3>4. redis + (x + xc) <= tt + (y + yc)
      BY <1>1, <3>3
    <3>. QED
      BY <2>5, <3>1, <3>4 DEF x, y, xc, yc
  <2>. QED
    BY <1>10, <2>1, <2>2, <2>3, <2>4, <2>5
<1>. QED
  BY <1>11 DEF Covered, n, nn, t, tt, k

\* The ledgers' invariant at first.
LEMMA LedgerInit ==
    ASSUME LedgerAssumption, L!Init
    PROVE  LedgerInv
<1>1. /\ Clients \in Nat \ {0} /\ Limit \in Nat \ {0} /\ MaxOutages \in Nat /\ MaxLosses \in Nat
      /\ Charges # {} /\ ChargedAt \in [Charges -> Workers]
  BY DEF LedgerAssumption
<1>2. L!TypeOK
  BY <1>1 DEF L!Init, L!TypeOK, L!InCheck
<1>3. \A P : "new" \notin P => In(P) = {}
  BY DEF In, L!Init
<1>4. Cardinality({}) = 0 /\ L!Spent({}) = 0
  <2>1. {} \in SUBSET {} /\ {} \in SUBSET Charges
    OBVIOUS
  <2>. QED
    BY <2>1, SpentGrows, FS_EmptySet
<1>5. \A P : "new" \notin P => Many(P) = 0 /\ Total(P) = 0
  BY <1>3, <1>4 DEF Many, Total
<1>6. "new" \notin AtWork
  BY DEF AtWork, L!InCheck
<1>7. /\ Many(AtWork) = 0 /\ Total({"charged"}) = 0 /\ Total({"charged", "record"}) = 0
      /\ Total({"charged", "running", "record"}) = 0 /\ Many({"miss", "seed"}) = 0
  BY <1>5, <1>6
<1>8. redis = 0 /\ database = 0
  BY DEF L!Init
<1>9. L!EveryChargeKept
  BY <1>7, <1>8, NamedSets DEF L!EveryChargeKept, Total
<1>10. L!OverrunBounded
  <2>1. PICK r \in Charges : TRUE
    BY <1>1
  <2>2. L!MaxCost \in Nat
    BY <2>1, MaxCostIsMax
  <2>3. Clients * L!MaxCost \in Nat
    BY <1>1, <2>2
  <2>4. 0 <= Limit - 1 + Clients * L!MaxCost
    BY <1>1, <2>3
  <2>. QED
    BY <1>7, <2>4, NamedSets DEF L!OverrunBounded, Total
<1>11. DatabaseCharged /\ FewClients
  BY <1>1, <1>7, <1>8 DEF DatabaseCharged, FewClients
<1>12. OneLedger /\ SeedKept
  BY <1>7 DEF OneLedger, SeedKept, L!Init
<1>13. Covered
  <2>1. (Clients - 1) * 0 = 0
    BY <1>1
  <2>. QED
    BY <1>7, <1>8, <2>1 DEF Covered
<1>. QED
  BY <1>2, <1>9, <1>10, <1>11, <1>12, <1>13 DEF LedgerInv

\* A step that leaves the charges and the database alone.
LEMMA LedgerRest ==
    ASSUME LedgerAssumption, LedgerInv, UNCHANGED <<database, hasCounts, charging, read, outages>>,
           \/ redis' = redis /\ losses' = losses
              /\ (lost' = lost \/ \E w \in Workers : lost' = [lost EXCEPT ![w] = FALSE])
           \/ redis' = 0 /\ losses' = losses + 1 /\ losses < MaxLosses /\ lost' = lost
    PROVE  LedgerInv'
<1>1. /\ redis \in Nat /\ database \in Nat /\ Clients \in Nat \ {0} /\ MaxLosses \in Nat
      /\ losses \in Nat /\ lost \in [Workers -> BOOLEAN] /\ losses <= MaxLosses
  BY DEF LedgerAssumption, LedgerInv, L!TypeOK
<1>2. /\ redis' \in Nat /\ redis' <= redis
      /\ losses' \in 0..MaxLosses /\ (losses' = 0 => losses = 0 /\ redis' = redis)
  BY <1>1
<1>3. /\ lost' \in [Workers -> BOOLEAN] /\ \A w \in Workers : lost'[w] => lost[w]
  BY <1>1
<1>4. L!TypeOK'
  BY <1>2, <1>3 DEF LedgerInv, L!TypeOK
<1>5. \A P : Many(P)' = Many(P) /\ Total(P)' = Total(P) /\ Many(P) \in Nat /\ Total(P) \in Nat
  <2>1. \A P : In(P)' = In(P)
    BY DEF In
  <2>. QED
    BY <2>1, InTyped DEF Many, Total
<1>6. L!Charged' = L!Charged /\ (L!Charged \cup L!Running)' = L!Charged \cup L!Running
  BY DEF L!Charged, L!Running
<1>7. L!EveryChargeKept' /\ L!OverrunBounded'
  BY <1>2, <1>6 DEF LedgerInv, L!EveryChargeKept, L!OverrunBounded
<1>8. DatabaseCharged' /\ FewClients' /\ SeedKept'
  BY <1>5 DEF LedgerInv, DatabaseCharged, FewClients, SeedKept
<1>9. OneLedger'
  BY <1>2, <1>3, <1>5 DEF LedgerInv, OneLedger
<1>10. Covered'
  <2>. DEFINE x == Many({"miss", "seed"}) * database
              y == Total({"charged", "record"}) + (Clients - 1) * database
  <2>1. x \in Nat /\ y \in Nat /\ redis + x <= y
    <3>1. Many({"miss", "seed"}) \in Nat /\ Total({"charged", "record"}) \in Nat /\ Clients - 1 \in Nat
      BY <1>1, <1>5
    <3>2. (Clients - 1) * database \in Nat
      BY <1>1, <3>1
    <3>. QED
      BY <1>1, <3>1, <3>2 DEF LedgerInv, Covered
  <2>2. x' = x /\ y' = y
    BY <1>5
  <2>. HIDE DEF x, y
  <2>3. redis' + x <= y
    <3>1. ASSUME NEW z \in Nat, z <= redis
          PROVE  z + x <= y
      BY <1>1, <2>1, <3>1
    <3>. QED
      BY <1>2, <3>1
  <2>. QED
    BY <2>2, <2>3 DEF Covered, x, y
<1>. QED
  BY <1>4, <1>7, <1>8, <1>9, <1>10 DEF LedgerInv

\* Every step of the ledgers keeps the invariant.
LEMMA LedgerNext ==
    ASSUME LedgerAssumption, LedgerInv, L!Next \/ UNCHANGED ledgers
    PROVE  LedgerInv'
<1>1. CASE UNCHANGED ledgers
  BY <1>1, LedgerRest DEF ledgers
<1>2. ASSUME NEW r \in Charges, L!Step(r)
      PROVE  LedgerInv'
  <2>1. L!TypeOK /\ L!TypeOK'
    BY <1>2, LedgerTyped DEF LedgerInv
  <2>2. L!EveryChargeKept' /\ DatabaseCharged'
    BY <1>2, ChargeStep DEF LedgerInv
  <2>3. FewClients'
    BY <1>2, ClientsStep DEF LedgerInv
  <2>4. SeedKept'
    BY <1>2, SeedStep DEF LedgerInv
  <2>5. OneLedger'
    <3>1. CASE outages' = 0
      BY <1>2, <3>1, OneLedgerStep DEF LedgerInv
    <3>2. CASE outages' # 0
      BY <3>2 DEF OneLedger
    <3>. QED
      BY <3>1, <3>2
  <2>6. L!OverrunBounded'
    BY <1>2, <2>3, OverrunStays DEF LedgerInv
  <2>7. Covered'
    BY <1>2, <2>3, CoveredStep DEF LedgerInv
  <2>. QED
    BY <2>1, <2>2, <2>3, <2>4, <2>5, <2>6, <2>7 DEF LedgerInv
<1>3. ASSUME NEW w \in Workers, L!RetryRedis(w)
      PROVE  LedgerInv'
  BY <1>3, LedgerRest DEF L!RetryRedis
<1>4. CASE L!RedisLosesAll
  BY <1>4, LedgerRest DEF L!RedisLosesAll
<1>. QED
  BY <1>1, <1>2, <1>3, <1>4 DEF L!Next

\* The invariant of the two ledgers.
THEOREM LedgerInvariance == SpecBoth => []LedgerInv
<1>1. InitBoth => LedgerInv
  BY LedgerAssumption, LedgerInit DEF InitBoth
<1>2. LedgerInv /\ [NextBoth]_all => LedgerInv'
  <2>. SUFFICES ASSUME LedgerInv, [NextBoth]_all
                PROVE  LedgerInv'
    OBVIOUS
  <2>1. L!Next \/ UNCHANGED ledgers
    BY DEF NextBoth, all
  <2>. QED
    BY <2>1, LedgerAssumption, LedgerNext
<1>. QED
  BY <1>1, <1>2, PTL DEF SpecBoth

\* No charge is lost while Redis keeps its data, and neither the overrun nor
\* what is counted twice exceeds what the requests in flight can make of it.
THEOREM ChargesAreKept == SpecBoth => []ChargesKept
<1>1. LedgerInv => L!OvercountBounded
  <2>. SUFFICES ASSUME LedgerInv
                PROVE  redis <= Total({"charged", "running", "record"}) + (Clients - 1) * database
    BY NamedSets DEF L!OvercountBounded, Total
  <2>1. /\ Total({"charged", "record"}) <= Total({"charged", "running", "record"})
        /\ Total({"charged", "record"}) \in Nat /\ Total({"charged", "running", "record"}) \in Nat
        /\ Many({"miss", "seed"}) \in Nat
    BY LedgerAssumption, Within, InTyped
  <2>2. redis \in Nat /\ database \in Nat /\ Clients - 1 \in Nat
    BY LedgerAssumption DEF LedgerAssumption, LedgerInv, L!TypeOK
  <2>3. Many({"miss", "seed"}) * database \in Nat /\ (Clients - 1) * database \in Nat
    BY <2>1, <2>2
  <2>. DEFINE x == Many({"miss", "seed"}) * database
              y == (Clients - 1) * database
              t == Total({"charged", "record"})
              u == Total({"charged", "running", "record"})
  <2>4. x \in Nat /\ y \in Nat /\ t \in Nat /\ u \in Nat /\ t <= u /\ redis + x <= t + y
    BY <2>1, <2>3 DEF LedgerInv, Covered
  <2>. HIDE DEF x, y, t, u
  <2>5. redis <= u + y
    BY <2>2, <2>4
  <2>. QED
    BY <2>5 DEF u, y
<1>2. LedgerInv => ChargesKept
  BY <1>1 DEF LedgerInv, ChargesKept, L!ChargesKept
<1>. QED
  BY <1>2, LedgerInvariance, PTL

\* A worker that saw an outage lets nobody in on an empty count while the
\* database holds one.
THEOREM QuotaIsNotHandedBack == SpecBoth => NotHandedBack
<1>1. LedgerInv /\ [NextBoth]_all =>
        [\A r \in Charges :
            /\ charging[r] \in L!InCheck /\ charging'[r] = "running" /\ read'[r] = 0
            /\ hasCounts[ChargedAt[r]]
            => database = 0]_ledgers
  <2>. SUFFICES ASSUME LedgerInv, L!Next, NEW r \in Charges,
                       charging[r] \in L!InCheck, charging'[r] = "running", read'[r] = 0,
                       hasCounts[ChargedAt[r]]
                PROVE  database = 0
    BY DEF NextBoth, all
  <2>1. L!TypeOK /\ SeedKept /\ charging[r] # "running"
    BY DEF LedgerInv, L!InCheck
  <2>2. L!Step(r)
    <3>1. ASSUME NEW q \in Charges, L!Step(q), q # r
          PROVE  FALSE
      <4>1. \E p : MovesTo(q, p)
        BY <3>1, LedgerKinds, LedgerAssumption, <2>1 DEF L!Decide, L!Goto, MovesTo
      <4>2. charging'[r] = charging[r]
        BY <2>1, <3>1, <4>1, InMoves, LedgerAssumption
      <4>. QED
        BY <2>1, <4>2
    <3>2. charging' # charging
      BY <2>1
    <3>. QED
      BY <3>1, <3>2 DEF L!Next, L!RetryRedis, L!RedisLosesAll
  <2>3. redis \in Nat /\ database \in Nat /\ read[r] \in Nat /\ 0 \in Nat
    BY <2>1, ChargeTyped, LedgerAssumption
  <2>4. ASSUME NEW n \in Nat, L!Decide(r, n)
        PROVE  n = 0
    BY <2>1, <2>4, Decides, LedgerAssumption
  <2>5. ASSUME NEW p, MovesTo(r, p)
        PROVE  p = "running"
    BY <2>1, <2>5, InMoves, LedgerAssumption
  <2>6. charging[r] = "seed" => read[r] > 0
    BY <2>1 DEF SeedKept
  <2>. QED
    BY <2>1, <2>2, <2>3, <2>4, <2>5, <2>6, LedgerKinds, LedgerAssumption
       DEF L!Consults, L!InCheck
<1>. QED
  BY <1>1, LedgerInvariance, PTL DEF SpecBoth, NotHandedBack, L!NotHandedBack, ledgers, L!vars

=============================================================================
