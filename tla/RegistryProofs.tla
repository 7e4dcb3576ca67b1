--------------------------- MODULE RegistryProofs ---------------------------
(***************************************************************************)
(* Proofs about RegistryReload, for every number of workers, requests and  *)
(* files, whatever each request asks for and however often an operator     *)
(* touches the directory.                                                  *)
(*                                                                         *)
(* TypeOK is not inductive.  A stamp names one content because no more are *)
(* given than there are writes: every request writes at most once, between *)
(* the moment it is its turn and the answer (StampsCounted).  And the      *)
(* worker that a handler has the loop of is the one its request is at      *)
(* because only who is inside a handler has a loop (TurnsKept).            *)
(***************************************************************************)
EXTENDS RegistryReload, FiniteSetTheorems, TLAPS

\* The requests that are inside their handler have the loop of their worker, and nobody
\* else has one.
TurnsKept ==
    /\ \A r \in Requests : pc[r] \in {"list", "readline", "writeline"} => Handling(r)
    /\ \A w \in Workers : loop[w] # Nobody =>
          pc[loop[w]] \in {"list", "read", "judge", "readline", "writeline"}
    /\ \A r \in Requests : pc[r] \notin {"idle", "done"} => job[r].at \in Workers

\* The requests that have written, or will not any more.
Spent == {r \in Requests : \/ pc[r] \in {"list", "done"}
                           \/ pc[r] \in {"read", "judge"} /\ Handling(r)}

StampsCounted == last <= 1 + edits + Cardinality(Spent)

IInv == TypeOK /\ TurnsKept /\ StampsCounted

Where == {"idle", "refresh", "handler", "list", "read", "judge", "readline", "writeline", "done"}

\* TypeOK but for the stamp given last, which only counting bounds.
Typed ==
    /\ disk \in Listing /\ edits \in 0..MaxEdits
    /\ snap \in [Workers -> [read : Listing, print : Listing]]
    /\ loop \in [Workers -> Requests \cup {Nobody}]
    /\ \A w \in Workers : loop[w] # Nobody => job[loop[w]].at = w
    /\ pc \in [Loaders -> Where]
    /\ load \in [Loaders -> Load]
    /\ job \in [Requests -> Jobs]
    /\ line \in [Requests -> Contents \cup {Gone}]

(***************************************************************************)
(* Counting requests.                                                      *)
(***************************************************************************)
LEMMA SpentIsCounted ==
    /\ Spent \in SUBSET Requests /\ IsFiniteSet(Spent) /\ IsFiniteSet(Requests)
    /\ Cardinality(Spent) \in Nat /\ Cardinality(Requests) \in Nat
    /\ Cardinality(Spent) <= Cardinality(Requests)
<1>1. Spent \in SUBSET Requests /\ IsFiniteSet(Requests)
  BY RegistryAssumption DEF Spent
<1>2. IsFiniteSet(Spent) /\ Cardinality(Spent) <= Cardinality(Requests)
  BY <1>1, FS_Subset
<1>. QED
  BY <1>1, <1>2, FS_CardinalityType

\* The same of the requests that are through after a step.
LEMMA SpentNextIsCounted ==
    /\ Spent' \in SUBSET Requests /\ IsFiniteSet(Spent')
    /\ Cardinality(Spent') \in Nat
    /\ Cardinality(Spent') <= Cardinality(Requests)
<1>1. Spent' \in SUBSET Requests /\ IsFiniteSet(Requests)
  BY RegistryAssumption DEF Spent
<1>2. IsFiniteSet(Spent') /\ Cardinality(Spent') <= Cardinality(Requests)
  BY <1>1, FS_Subset
<1>. QED
  BY <1>1, <1>2, FS_CardinalityType

\* A step that writes nothing and takes nobody's turn back keeps the count.
LEMMA NoStampGiven ==
    ASSUME IInv, Spent \subseteq Spent', last' = last, edits' \in Nat, edits <= edits'
    PROVE  last' \in Stamps /\ StampsCounted'
<1>1. Cardinality(Spent) <= Cardinality(Spent')
  BY SpentNextIsCounted, FS_Subset
<1>2. last \in Nat /\ edits \in Nat /\ last \in Stamps
  BY RegistryAssumption, SpentIsCounted DEF IInv, TypeOK, Stamps
<1>3. last' <= 1 + edits' + Cardinality(Spent')
  BY <1>1, <1>2, SpentIsCounted, SpentNextIsCounted DEF IInv, StampsCounted
<1>. QED
  BY <1>2, <1>3 DEF StampsCounted

\* The write of a request is its only one.
LEMMA StampOfRequest ==
    ASSUME IInv, NEW r \in Requests, r \notin Spent, Spent \cup {r} \subseteq Spent',
           last' = last + 1, edits' = edits
    PROVE  last' \in Stamps /\ StampsCounted'
<1>1. Cardinality(Spent \cup {r}) = Cardinality(Spent) + 1
  BY SpentIsCounted, FS_AddElement
<1>2. Cardinality(Spent \cup {r}) <= Cardinality(Spent')
  BY SpentNextIsCounted, FS_Subset
<1>3. last \in Nat /\ edits \in Nat /\ edits <= MaxEdits /\ MaxEdits \in Nat
  BY RegistryAssumption, SpentIsCounted DEF IInv, TypeOK, Stamps
<1>4. last' <= 1 + edits' + Cardinality(Spent')
  BY <1>1, <1>2, <1>3, SpentIsCounted, SpentNextIsCounted DEF IInv, StampsCounted
<1>5. last' \in Stamps
  BY <1>3, <1>4, SpentIsCounted, SpentNextIsCounted DEF Stamps
<1>. QED
  BY <1>4, <1>5 DEF StampsCounted

\* The write of an operator is counted among the edits.
LEMMA StampOfOperator ==
    ASSUME IInv, Spent' = Spent, last' \in {last, last + 1},
           edits < MaxEdits, edits' = edits + 1
    PROVE  last' \in Stamps /\ StampsCounted'
<1>1. last \in Nat /\ last >= 1 /\ edits \in Nat /\ MaxEdits \in Nat
  BY RegistryAssumption, SpentIsCounted DEF IInv, TypeOK, Stamps
<1>2. last' <= 1 + edits' + Cardinality(Spent)
  BY <1>1, SpentIsCounted DEF IInv, StampsCounted
<1>3. last' \in Stamps
  BY <1>1, <1>2, SpentIsCounted DEF Stamps
<1>4. Cardinality(Spent') = Cardinality(Spent)
  OBVIOUS
<1>. QED
  BY <1>2, <1>3, <1>4 DEF StampsCounted
(***************************************************************************)
(* What loads and turns are made of.                                       *)
(***************************************************************************)
\* A load that starts, or that is over, is one.
LEMMA LoadsAreLoads ==
    /\ NoLoad \in Load
    /\ \A files \in SUBSET Files : [NoLoad EXCEPT !.todo = files] \in Load
    /\ NoJob \in Jobs
<1>1. NoFiles \in Listing
  BY DEF NoFiles, Listing
<1>2. 1 \in Files
  BY RegistryAssumption DEF Files
<1>. QED
  BY <1>1, <1>2 DEF NoLoad, Load, NoJob, Jobs, Ops

\* Files that a load reads are those of a listing.
LEMMA LoadOfOne ==
    ASSUME IInv, NEW l \in Loaders, NEW x \in Load
    PROVE  [load EXCEPT ![l] = x] \in [Loaders -> Load]
BY DEF IInv, TypeOK

\* Whoever goes on without taking or giving the loop leaves the turns as they are.
LEMMA TurnsOnMove ==
    ASSUME IInv, NEW l \in Loaders, NEW x \in Where,
           Goto(l, x), UNCHANGED <<loop, job>>,
           l \in Requests =>
              /\ x \in {"list", "readline", "writeline"} => Handling(l)
              /\ Handling(l) => x \in {"list", "read", "judge", "readline", "writeline"}
              /\ x \notin {"idle", "done"} => job[l].at \in Workers
    PROVE  TurnsKept'
<1>1. /\ pc \in [Loaders -> Where] /\ Requests \subseteq Loaders
      /\ loop \in [Workers -> Requests \cup {Nobody}]
      /\ \A w \in Workers : loop[w] # Nobody => job[loop[w]].at = w
  BY DEF IInv, TypeOK, Where, Loaders
<1>2. TurnsKept
  BY DEF IInv
<1>3. \A m \in Loaders : pc'[m] = IF m = l THEN x ELSE pc[m]
  BY <1>1 DEF Goto
<1>. QED
  BY <1>1, <1>2, <1>3 DEF TurnsKept, Handling

\* An answer gives the loop back.
LEMMA TurnsOnAnswer ==
    ASSUME IInv, NEW r \in Requests, Answer(r)
    PROVE  TurnsKept'
<1>1. /\ pc \in [Loaders -> Where] /\ r \in Loaders /\ Requests \subseteq Loaders
      /\ loop \in [Workers -> Requests \cup {Nobody}] /\ job \in [Requests -> Jobs]
      /\ \A w \in Workers : loop[w] # Nobody => job[loop[w]].at = w
      /\ Nobody \notin Requests
  BY RegistryAssumption DEF IInv, TypeOK, Where, Loaders
<1>2. TurnsKept
  BY DEF IInv
<1>3. /\ \A m \in Loaders : pc'[m] = IF m = r THEN "done" ELSE pc[m]
      /\ \A w \in Workers : loop'[w] = IF loop[w] = r THEN Nobody ELSE loop[w]
      /\ \A q \in Requests : q # r => job'[q] = job[q]
  BY <1>1 DEF Answer, Goto
<1>. QED
  BY <1>1, <1>2, <1>3 DEF TurnsKept, Handling

\* A handler that enters finds the loop free and takes it.
LEMMA TurnsOnTake ==
    ASSUME IInv, NEW r \in Requests, NEW o, Enter(r, o), TakeLoop(r),
           NEW x \in {"list", "readline"}, Goto(r, x), UNCHANGED job
    PROVE  TurnsKept' /\ \A w \in Workers : loop'[w] # Nobody => job'[loop'[w]].at = w
<1>1. /\ pc \in [Loaders -> Where] /\ r \in Loaders /\ Requests \subseteq Loaders
      /\ loop \in [Workers -> Requests \cup {Nobody}]
      /\ \A w \in Workers : loop[w] # Nobody => job[loop[w]].at = w
      /\ Nobody \notin Requests
  BY RegistryAssumption DEF IInv, TypeOK, Where, Loaders
<1>2. TurnsKept
  BY DEF IInv
<1>3. /\ \A m \in Loaders : pc'[m] = IF m = r THEN x ELSE pc[m]
      /\ \A w \in Workers : loop'[w] = IF w = job[r].at THEN r ELSE loop[w]
      /\ job[r].at \in Workers /\ loop[job[r].at] = Nobody /\ pc[r] = "handler"
  BY <1>1, <1>2 DEF Enter, TakeLoop, Goto, TurnsKept
<1>. QED
  BY <1>1, <1>2, <1>3 DEF TurnsKept, Handling

\* Types of what an answer changes.
LEMMA TypesOnAnswer ==
    ASSUME IInv, NEW r \in Requests, Answer(r)
    PROVE  /\ loop' \in [Workers -> Requests \cup {Nobody}]
           /\ \A w \in Workers : loop'[w] # Nobody => job'[loop'[w]].at = w
           /\ pc' \in [Loaders -> Where]
           /\ job' \in [Requests -> Jobs]
           /\ line' \in [Requests -> Contents \cup {Gone}]
<1>1. /\ pc \in [Loaders -> Where] /\ job \in [Requests -> Jobs]
      /\ loop \in [Workers -> Requests \cup {Nobody}]
      /\ \A w \in Workers : loop[w] # Nobody => job[loop[w]].at = w
      /\ line \in [Requests -> Contents \cup {Gone}]
  BY DEF IInv, TypeOK, Where
<1>2. \A w \in Workers : loop'[w] = IF loop[w] = r THEN Nobody ELSE loop[w]
  BY DEF Answer
<1>3. \A q \in Requests : q # r => job'[q] = job[q]
  BY <1>1 DEF Answer
<1>4. job' \in [Requests -> Jobs]
  BY <1>1, LoadsAreLoads DEF Answer
<1>. QED
  BY <1>1, <1>2, <1>3, <1>4 DEF Answer, Goto, Where

\* A loop or a request that stays, stays typed.
LEMMA TypesAsTheyAre ==
    ASSUME IInv
    PROVE  /\ pc \in [Loaders -> Where] /\ load \in [Loaders -> Load]
           /\ disk \in Listing /\ snap \in [Workers -> [read : Listing, print : Listing]]
           /\ Requests \subseteq Loaders /\ Workers \subseteq Loaders
           /\ Loaders = Workers \cup Requests
           /\ TurnsKept
BY DEF IInv, TypeOK, Where, Loaders

(***************************************************************************)
(* What every step keeps: one lemma for each, its three parts in turn.     *)
(***************************************************************************)
\* A file is read into the load.
LEMMA ReadFileKeeps ==
    ASSUME IInv, NEW l \in Loaders, ReadFile(l)
    PROVE  IInv'
<1>. USE RegistryAssumption DEF Loaders
<1>1. Spent \subseteq Spent' /\ last' = last /\ edits' = edits
  BY DEF IInv, TypeOK, TurnsKept, Spent, Handling, ReadFile
<1>2. last' \in Stamps /\ StampsCounted'
  BY <1>1, NoStampGiven DEF IInv, TypeOK
<1>3. TurnsKept'
  BY DEF IInv, TurnsKept, Handling, ReadFile
<1>4. load' \in [Loaders -> Load]
  <2>1. PICK f \in Files : load' = [load EXCEPT ![l].todo = @ \ {f}, ![l].read[f] = disk[f]]
    BY DEF ReadFile, Readable, Present
  <2>2. load[l] \in Load /\ disk \in Listing
    BY TypesAsTheyAre
  <2>3. [load[l] EXCEPT !.todo = @ \ {f}, !.read[f] = disk[f]] \in Load
    BY <2>2 DEF Load, Listing
  <2>4. load' = [load EXCEPT ![l] = [load[l] EXCEPT !.todo = @ \ {f}, !.read[f] = disk[f]]]
    <3>1. load \in [Loaders -> Load] /\ l \in Loaders
      BY TypesAsTheyAre
    <3>2. load[l] = [todo |-> load[l].todo, read |-> load[l].read, print |-> load[l].print]
      BY <2>2 DEF Load
    <3>. QED
      BY ONLY <2>1, <3>1, <3>2
  <2>. QED
    BY <2>3, <2>4, LoadOfOne
<1>5. Typed'
  BY <1>4 DEF IInv, TypeOK, Typed, TurnsKept, Where, Jobs, ReadFile
<1>. QED
  BY <1>2, <1>3, <1>5 DEF IInv, TypeOK, Typed, Where

\* A load raises.
LEMMA LoadRaisesKeeps ==
    ASSUME IInv, NEW l \in Loaders, LoadRaises(l)
    PROVE  IInv'
<1>. USE RegistryAssumption DEF Loaders
<1>1. Spent \subseteq Spent' /\ last' = last /\ edits' = edits
  BY DEF IInv, TypeOK, TurnsKept, Spent, Handling, LoadRaises, NextUnreadable, Answer, Goto
<1>2. last' \in Stamps /\ StampsCounted'
  BY <1>1, NoStampGiven DEF IInv, TypeOK
<1>3. TurnsKept'
  <2>1. CASE l \in Requests
    BY <2>1, TurnsOnAnswer DEF LoadRaises
  <2>2. CASE l \notin Requests
    BY <2>2, TurnsOnMove DEF LoadRaises, Where
  <2>. QED
    BY <2>1, <2>2
<1>4. load' \in [Loaders -> Load]
  BY LoadsAreLoads, LoadOfOne DEF LoadRaises
<1>5. Typed'
  <2>1. CASE l \in Requests
    BY <1>4, <2>1, TypesOnAnswer DEF LoadRaises, IInv, TypeOK, Typed
  <2>2. CASE l \notin Requests
    BY <1>4, <2>2 DEF LoadRaises, Goto, IInv, TypeOK, Typed, Where
  <2>. QED
    BY <2>1, <2>2
<1>. QED
  BY <1>2, <1>3, <1>5 DEF IInv, TypeOK, Typed, Where

\* A load takes its fingerprint.
LEMMA TakeFingerprintKeeps ==
    ASSUME IInv, NEW l \in Loaders, TakeFingerprint(l)
    PROVE  IInv'
<1>. USE RegistryAssumption DEF Loaders
<1>1. Spent \subseteq Spent' /\ last' = last /\ edits' = edits
  BY DEF IInv, TypeOK, TurnsKept, Spent, Handling, TakeFingerprint, Goto
<1>2. last' \in Stamps /\ StampsCounted'
  BY <1>1, NoStampGiven DEF IInv, TypeOK
<1>3. TurnsKept'
  BY TurnsOnMove, TypesAsTheyAre DEF TakeFingerprint, TurnsKept, Where
<1>4. load' \in [Loaders -> Load]
  <2>1. load[l] \in Load /\ disk \in Listing
    BY TypesAsTheyAre
  <2>2. [load[l] EXCEPT !.print = disk] \in Load
    BY <2>1 DEF Load
  <2>3. load' = [load EXCEPT ![l] = [load[l] EXCEPT !.print = disk]]
    BY TypesAsTheyAre DEF TakeFingerprint
  <2>. QED
    BY <2>2, <2>3, LoadOfOne
<1>5. Typed'
  BY <1>4 DEF IInv, TypeOK, Typed, TurnsKept, Where, Jobs, TakeFingerprint, Goto
<1>. QED
  BY <1>2, <1>3, <1>5 DEF IInv, TypeOK, Typed, Where

\* A load without models publishes nothing.
LEMMA KeepPreviousKeeps ==
    ASSUME IInv, NEW l \in Loaders, KeepPrevious(l)
    PROVE  IInv'
<1>. USE RegistryAssumption DEF Loaders
<1>1. Spent \subseteq Spent' /\ last' = last /\ edits' = edits
  BY DEF IInv, TypeOK, TurnsKept, Spent, Handling, KeepPrevious, Loaded, Answer, Goto
<1>2. last' \in Stamps /\ StampsCounted'
  BY <1>1, NoStampGiven DEF IInv, TypeOK
<1>3. TurnsKept'
  <2>1. CASE Handling(l)
    BY <2>1, TurnsOnAnswer DEF KeepPrevious, Loaded, Handling
  <2>2. CASE ~Handling(l)
    BY <2>2, TurnsOnMove, TypesAsTheyAre DEF KeepPrevious, Loaded, TurnsKept, Where
  <2>. QED
    BY <2>1, <2>2
<1>4. load' \in [Loaders -> Load]
  BY LoadsAreLoads, LoadOfOne DEF KeepPrevious, Loaded
<1>5. Typed'
  <2>1. CASE Handling(l)
    BY <1>4, <2>1, TypesOnAnswer DEF KeepPrevious, Loaded, Handling, IInv, TypeOK, Typed
  <2>2. CASE ~Handling(l)
    BY <1>4, <2>2 DEF KeepPrevious, Loaded, Goto, IInv, TypeOK, Typed, Where
  <2>. QED
    BY <2>1, <2>2
<1>. QED
  BY <1>2, <1>3, <1>5 DEF IInv, TypeOK, Typed, Where

\* A load publishes.
LEMMA PublishKeeps ==
    ASSUME IInv, NEW l \in Loaders, Publish(l)
    PROVE  IInv'
<1>. USE RegistryAssumption DEF Loaders
<1>1. Spent \subseteq Spent' /\ last' = last /\ edits' = edits
  BY DEF IInv, TypeOK, TurnsKept, Spent, Handling, Publish, Loaded, Answer, Goto
<1>2. last' \in Stamps /\ StampsCounted'
  BY <1>1, NoStampGiven DEF IInv, TypeOK
<1>3. TurnsKept'
  <2>1. CASE Handling(l)
    BY <2>1, TurnsOnAnswer DEF Publish, Loaded, Handling
  <2>2. CASE ~Handling(l)
    BY <2>2, TurnsOnMove, TypesAsTheyAre DEF Publish, Loaded, TurnsKept, Where
  <2>. QED
    BY <2>1, <2>2
<1>4. load' \in [Loaders -> Load]
  BY LoadsAreLoads, LoadOfOne DEF Publish, Loaded
<1>5. Typed'
  <2>. DEFINE found == [read |-> load[l].read, print |-> load[l].print]
  <2>1. found \in [read : Listing, print : Listing]
    BY TypesAsTheyAre DEF Load
  <2>2. snap' \in [Workers -> [read : Listing, print : Listing]]
    BY <2>1, TypesAsTheyAre DEF Publish
  <2>3. CASE Handling(l)
    BY <1>4, <2>2, <2>3, TypesOnAnswer DEF Publish, Loaded, Handling, IInv, TypeOK, Typed
  <2>4. CASE ~Handling(l)
    BY <1>4, <2>2, <2>4 DEF Publish, Loaded, Goto, IInv, TypeOK, Typed, Where
  <2>. QED
    BY <2>3, <2>4
<1>. QED
  BY <1>2, <1>3, <1>5 DEF IInv, TypeOK, Typed, Where

\* The watcher starts a load.
LEMMA WatchTickKeeps ==
    ASSUME IInv, NEW w \in Workers, WatchTick(w)
    PROVE  IInv'
<1>. USE RegistryAssumption DEF Loaders
<1>1. Spent \subseteq Spent' /\ last' = last /\ edits' = edits
  BY DEF IInv, TypeOK, TurnsKept, Spent, Handling, WatchTick, StartLoad, Goto
<1>2. last' \in Stamps /\ StampsCounted'
  BY <1>1, NoStampGiven DEF IInv, TypeOK
<1>3. TurnsKept'
  BY TurnsOnMove, TypesAsTheyAre DEF WatchTick, StartLoad, Where
<1>4. load' \in [Loaders -> Load]
  <2>1. Present(disk) \in SUBSET Files
    BY DEF Present
  <2>. QED
    BY <2>1, LoadsAreLoads, LoadOfOne, TypesAsTheyAre DEF WatchTick, StartLoad
<1>5. Typed'
  BY <1>4 DEF IInv, TypeOK, Typed, TurnsKept, Where, Jobs, WatchTick, StartLoad, Goto
<1>. QED
  BY <1>2, <1>3, <1>5 DEF IInv, TypeOK, Typed, Where

\* A request comes.
LEMMA ArriveKeeps ==
    ASSUME IInv, NEW r \in Requests, Arrive(r)
    PROVE  IInv'
<1>. USE RegistryAssumption DEF Loaders
<1>1. Spent \subseteq Spent' /\ last' = last /\ edits' = edits
  BY DEF IInv, TypeOK, TurnsKept, Spent, Handling, Arrive, Goto
<1>2. last' \in Stamps /\ StampsCounted'
  BY <1>1, NoStampGiven DEF IInv, TypeOK
<1>3. TurnsKept'
  BY DEF IInv, TypeOK, TurnsKept, Handling, Jobs, Arrive, Goto
<1>4. Typed'
  <2>1. PICK j \in Jobs : job' = [job EXCEPT ![r] = j]
    BY DEF Arrive, Jobs
  <2>2. \A w \in Workers : loop[w] # r
    BY TypesAsTheyAre DEF Arrive, TurnsKept
  <2>3. \A q \in Requests : q # r => job'[q] = job[q]
    BY <2>1 DEF IInv, TypeOK
  <2>4. job' \in [Requests -> Jobs]
    BY <2>1 DEF IInv, TypeOK
  <2>. QED
    BY <2>2, <2>3, <2>4 DEF Arrive, Goto, IInv, TypeOK, Typed, Where
<1>. QED
  BY <1>2, <1>3, <1>4 DEF IInv, TypeOK, Typed, Where

\* A request looks whether the snapshot is stale.
LEMMA RefreshKeeps ==
    ASSUME IInv, NEW r \in Requests, Refresh(r)
    PROVE  IInv'
<1>. USE RegistryAssumption DEF Loaders
<1>1. Spent \subseteq Spent' /\ last' = last /\ edits' = edits
  BY DEF IInv, TypeOK, TurnsKept, Spent, Handling, Refresh, StartLoad, Goto
<1>2. last' \in Stamps /\ StampsCounted'
  BY <1>1, NoStampGiven DEF IInv, TypeOK
<1>3. TurnsKept'
  <2>1. ~Handling(r) /\ job[r].at \in Workers
    BY TypesAsTheyAre DEF Refresh, TurnsKept, Handling
  <2>2. PICK x \in {"read", "handler"} : Goto(r, x)
    BY DEF Refresh, StartLoad
  <2>. QED
    BY <2>1, <2>2, TurnsOnMove DEF Refresh, Where
<1>4. load' \in [Loaders -> Load]
  <2>1. Present(disk) \in SUBSET Files
    BY DEF Present
  <2>. DEFINE new == [NoLoad EXCEPT !.todo = Present(disk)]
  <2>2. CASE Stale(job[r].at)
    <3>1. new \in Load
      BY <2>1, LoadsAreLoads
    <3>2. load' = [load EXCEPT ![r] = new]
      BY <2>2 DEF Refresh, StartLoad
    <3>. HIDE DEF new
    <3>. QED
      BY <3>1, <3>2, TypesAsTheyAre
  <2>3. CASE ~Stale(job[r].at)
    BY <2>3, TypesAsTheyAre DEF Refresh
  <2>. QED
    BY <2>2, <2>3
<1>5. Typed'
  <2>1. PICK x \in {"read", "handler"} : Goto(r, x)
    BY DEF Refresh, StartLoad
  <2>2. pc' \in [Loaders -> Where]
    BY <2>1, TypesAsTheyAre DEF Goto, Where
  <2>. QED
    BY <1>4, <2>2 DEF Refresh, IInv, TypeOK, Typed
<1>. QED
  BY <1>2, <1>3, <1>5 DEF IInv, TypeOK, Typed, Where

\* The handler that only reloads.
LEMMA ReloadRegistryKeeps ==
    ASSUME IInv, NEW r \in Requests, ReloadRegistry(r)
    PROVE  IInv'
<1>. USE RegistryAssumption DEF Loaders
<1>1. Spent \subseteq Spent' /\ last' = last /\ edits' = edits
  BY DEF IInv, TypeOK, TurnsKept, Spent, Handling, ReloadRegistry, Enter, TakeLoop, Goto
<1>2. last' \in Stamps /\ StampsCounted'
  BY <1>1, NoStampGiven DEF IInv, TypeOK
<1>3. TurnsKept'
  BY TurnsOnTake DEF ReloadRegistry
<1>4. Typed'
  BY DEF IInv, TypeOK, Typed, TurnsKept, Where, Jobs, ReloadRegistry, Enter, TakeLoop, Goto
<1>. QED
  BY <1>2, <1>3, <1>4 DEF IInv, TypeOK, Typed, Where

\* The handler that writes a file.
LEMMA SaveModelKeeps ==
    ASSUME IInv, NEW r \in Requests, SaveModel(r)
    PROVE  IInv'
<1>. USE RegistryAssumption DEF Loaders
<1>1. /\ r \notin Spent /\ Spent \cup {r} \subseteq Spent'
      /\ last' = last + 1 /\ edits' = edits
  BY DEF IInv, TypeOK, TurnsKept, Spent, Handling, SaveModel, Enter, TakeLoop, Goto, Put
<1>2. last' \in Stamps /\ StampsCounted'
  BY <1>1, StampOfRequest
<1>3. TurnsKept'
  BY TurnsOnTake DEF SaveModel
<1>4. Typed'
  <2>. DEFINE new == <<"good", last + 1>>
  <2>1. "good" \in Kinds
    BY TypesAsTheyAre DEF Kinds
  <2>2. new \in Contents
    BY <1>1, <1>2, <2>1 DEF Contents
  <2>3. disk' = [disk EXCEPT ![job[r].file] = new]
    BY DEF SaveModel, Put
  <2>4. disk' \in Listing
    BY <2>2, <2>3, TypesAsTheyAre DEF Listing
  <2>. QED
    BY <2>4, TurnsOnTake DEF SaveModel, Enter, TakeLoop, Goto, IInv, TypeOK, Typed, Where, Jobs
<1>. QED
  BY <1>2, <1>3, <1>4 DEF IInv, TypeOK, Typed, Where

\* The handler that deletes a file.
LEMMA DeleteModelKeeps ==
    ASSUME IInv, NEW r \in Requests, DeleteModel(r)
    PROVE  IInv'
<1>. USE RegistryAssumption DEF Loaders
<1>1. Spent \subseteq Spent' /\ last' = last /\ edits' = edits
  BY DEF IInv, TypeOK, TurnsKept, Spent, Handling, DeleteModel, Enter, TakeLoop, Goto, Remove,
     Listing
<1>2. last' \in Stamps /\ StampsCounted'
  BY <1>1, NoStampGiven DEF IInv, TypeOK
<1>3. TurnsKept'
  BY TurnsOnTake DEF DeleteModel
<1>4. Typed'
  BY DEF IInv, TypeOK, Typed, TurnsKept, Where, Jobs, DeleteModel, Enter, TakeLoop, Goto,
     Remove, Listing
<1>. QED
  BY <1>2, <1>3, <1>4 DEF IInv, TypeOK, Typed, Where

\* A handler that edits one line starts.
LEMMA StartEditKeeps ==
    ASSUME IInv, NEW r \in Requests, StartEdit(r)
    PROVE  IInv'
<1>. USE RegistryAssumption DEF Loaders
<1>1. Spent \subseteq Spent' /\ last' = last /\ edits' = edits
  BY DEF IInv, TypeOK, TurnsKept, Spent, Handling, StartEdit, Enter, TakeLoop, Goto
<1>2. last' \in Stamps /\ StampsCounted'
  BY <1>1, NoStampGiven DEF IInv, TypeOK
<1>3. TurnsKept'
  BY TurnsOnTake DEF StartEdit
<1>4. Typed'
  BY DEF IInv, TypeOK, Typed, TurnsKept, Where, Jobs, StartEdit, Enter, TakeLoop, Goto
<1>. QED
  BY <1>2, <1>3, <1>4 DEF IInv, TypeOK, Typed, Where

\* A handler that finds nothing to edit.
LEMMA NotFoundKeeps ==
    ASSUME IInv, NEW r \in Requests, NotFound(r)
    PROVE  IInv'
<1>. USE RegistryAssumption DEF Loaders
<1>1. Spent \subseteq Spent' /\ last' = last /\ edits' = edits
  BY DEF IInv, TypeOK, TurnsKept, Spent, Handling, NotFound, Enter, Answer, Goto
<1>2. last' \in Stamps /\ StampsCounted'
  BY <1>1, NoStampGiven DEF IInv, TypeOK
<1>3. TurnsKept'
  BY TurnsOnAnswer DEF NotFound
<1>4. Typed'
  BY TypesOnAnswer DEF NotFound, IInv, TypeOK, Typed
<1>. QED
  BY <1>2, <1>3, <1>4 DEF IInv, TypeOK, Typed, Where

\* The file to edit is read.
LEMMA ReadLineKeeps ==
    ASSUME IInv, NEW r \in Requests, ReadLine(r)
    PROVE  IInv'
<1>. USE RegistryAssumption DEF Loaders
<1>1. Spent \subseteq Spent' /\ last' = last /\ edits' = edits
  BY DEF IInv, TypeOK, TurnsKept, Spent, Handling, ReadLine, Goto, Listing
<1>2. last' \in Stamps /\ StampsCounted'
  BY <1>1, NoStampGiven DEF IInv, TypeOK
<1>3. TurnsKept'
  BY TurnsOnMove, TypesAsTheyAre DEF ReadLine, TurnsKept, Where
<1>4. Typed'
  BY DEF IInv, TypeOK, Typed, TurnsKept, Where, Jobs, ReadLine, Goto, Listing
<1>. QED
  BY <1>2, <1>3, <1>4 DEF IInv, TypeOK, Typed, Where

\* The value is the default already.
LEMMA AlreadyDefaultKeeps ==
    ASSUME IInv, NEW r \in Requests, AlreadyDefault(r)
    PROVE  IInv'
<1>. USE RegistryAssumption DEF Loaders
<1>1. Spent \subseteq Spent' /\ last' = last /\ edits' = edits
  BY DEF IInv, TypeOK, TurnsKept, Spent, Handling, AlreadyDefault, Goto
<1>2. last' \in Stamps /\ StampsCounted'
  BY <1>1, NoStampGiven DEF IInv, TypeOK
<1>3. TurnsKept'
  BY TurnsOnMove, TypesAsTheyAre DEF AlreadyDefault, TurnsKept, Where
<1>4. Typed'
  BY DEF IInv, TypeOK, Typed, TurnsKept, Where, Jobs, AlreadyDefault, Goto
<1>. QED
  BY <1>2, <1>3, <1>4 DEF IInv, TypeOK, Typed, Where

\* The edited file is written.
LEMMA WriteLineKeeps ==
    ASSUME IInv, NEW r \in Requests, WriteLine(r)
    PROVE  IInv'
<1>. USE RegistryAssumption DEF Loaders
<1>1. /\ r \notin Spent /\ Spent \cup {r} \subseteq Spent'
      /\ last' = last + 1 /\ edits' = edits
  BY DEF IInv, TypeOK, TurnsKept, Spent, Handling, WriteLine, Goto, Put
<1>2. last' \in Stamps /\ StampsCounted'
  BY <1>1, StampOfRequest
<1>3. TurnsKept'
  BY TurnsOnMove, TypesAsTheyAre DEF WriteLine, TurnsKept, Where
<1>4. Typed'
  <2>. DEFINE new == <<IF line[r] = Gone THEN "good" ELSE line[r][1], last + 1>>
  <2>1. (IF line[r] = Gone THEN "good" ELSE line[r][1]) \in Kinds
    BY TypesAsTheyAre DEF Kinds, IInv, TypeOK, Contents
  <2>2. new \in Contents
    BY <1>1, <1>2, <2>1 DEF Contents
  <2>3. disk' = [disk EXCEPT ![job[r].file] = new]
    BY DEF WriteLine, Put
  <2>4. disk' \in Listing
    BY <2>2, <2>3, TypesAsTheyAre DEF Listing
  <2>. QED
    BY <2>4, TypesAsTheyAre DEF WriteLine, Goto, IInv, TypeOK, Typed, Where, Jobs
<1>. QED
  BY <1>2, <1>3, <1>4 DEF IInv, TypeOK, Typed, Where

\* A handler starts its load.
LEMMA ListFilesKeeps ==
    ASSUME IInv, NEW r \in Requests, ListFiles(r)
    PROVE  IInv'
<1>. USE RegistryAssumption DEF Loaders
<1>1. Spent \subseteq Spent' /\ last' = last /\ edits' = edits
  BY DEF IInv, TypeOK, TurnsKept, Spent, Handling, ListFiles, StartLoad, Goto
<1>2. last' \in Stamps /\ StampsCounted'
  BY <1>1, NoStampGiven DEF IInv, TypeOK
<1>3. TurnsKept'
  BY TurnsOnMove, TypesAsTheyAre DEF ListFiles, StartLoad, TurnsKept, Where
<1>4. load' \in [Loaders -> Load]
  <2>1. Present(disk) \in SUBSET Files
    BY DEF Present
  <2>. QED
    BY <2>1, LoadsAreLoads, LoadOfOne, TypesAsTheyAre DEF ListFiles, StartLoad
<1>5. Typed'
  BY <1>4 DEF IInv, TypeOK, Typed, TurnsKept, Where, Jobs, ListFiles, StartLoad, Goto
<1>. QED
  BY <1>2, <1>3, <1>5 DEF IInv, TypeOK, Typed, Where

\* An operator writes or removes a file.
LEMMA HandEditKeeps ==
    ASSUME IInv, HandEdit
    PROVE  IInv'
<1>. USE RegistryAssumption DEF Loaders
<1>1. /\ Spent' = Spent /\ last' \in {last, last + 1}
      /\ edits < MaxEdits /\ edits' = edits + 1
  BY DEF Spent, Handling, HandEdit, Put, Remove
<1>2. last' \in Stamps /\ StampsCounted'
  BY <1>1, StampOfOperator
<1>3. TurnsKept'
  BY DEF IInv, TurnsKept, Handling, HandEdit
<1>4. disk' \in Listing
  <2>1. PICK f \in Files : \/ \E k \in Kinds : Put(f, k)
                           \/ Remove(f)
    BY DEF HandEdit
  <2>2. ASSUME NEW k \in Kinds, Put(f, k) PROVE disk' \in Listing
    BY <1>2, <2>2, TypesAsTheyAre DEF Put, Listing, Contents
  <2>3. ASSUME Remove(f) PROVE disk' \in Listing
    BY <2>3, TypesAsTheyAre DEF Remove, Listing
  <2>. QED
    BY <2>1, <2>2, <2>3
<1>5. edits' \in 0..MaxEdits
  BY <1>1 DEF IInv, TypeOK
<1>6. Typed'
  BY <1>4, <1>5 DEF IInv, TypeOK, Typed, HandEdit, Where
<1>. QED
  BY <1>2, <1>3, <1>6 DEF IInv, TypeOK, Typed, Where

(***************************************************************************)
(* The invariant.                                                          *)
(***************************************************************************)

\* It holds at the start.
LEMMA RegistryInit == Init => IInv
<1>. SUFFICES ASSUME Init PROVE IInv
  OBVIOUS
<1>. USE RegistryAssumption DEF Loaders
<1>2. 1 \in Stamps /\ StampsCounted
  BY SpentIsCounted DEF Init, Stamps, StampsCounted
<1>3. <<"good", 1>> \in Contents
  BY <1>2 DEF Contents, Kinds
<1>4. Typed
  BY <1>3 DEF Init, Typed, Listing, Where, Load, NoLoad, NoFiles, Jobs, NoJob, Ops, Files
<1>5. TurnsKept
  BY DEF Init, TurnsKept, Handling
<1>. QED
  BY <1>2, <1>4, <1>5 DEF IInv, TypeOK, Typed, Where, Init

\* Every step keeps it.
LEMMA RegistryStep == IInv /\ [Next]_vars => IInv'
<1>. SUFFICES ASSUME IInv, [Next]_vars PROVE IInv'
  OBVIOUS
<1>1. ASSUME NEW l \in Loaders, LoadStep(l) PROVE IInv'
  <2>1. CASE ReadFile(l)
    BY <2>1, ReadFileKeeps
  <2>2. CASE LoadRaises(l)
    BY <2>2, LoadRaisesKeeps
  <2>3. CASE TakeFingerprint(l)
    BY <2>3, TakeFingerprintKeeps
  <2>4. CASE KeepPrevious(l)
    BY <2>4, KeepPreviousKeeps
  <2>5. CASE Publish(l)
    BY <2>5, PublishKeeps
  <2>. QED
    BY <1>1, <2>1, <2>2, <2>3, <2>4, <2>5 DEF LoadStep
<1>2. ASSUME NEW w \in Workers, WatchTick(w) PROVE IInv'
  BY <1>2, WatchTickKeeps
<1>3. ASSUME NEW r \in Requests, Arrive(r) PROVE IInv'
  BY <1>3, ArriveKeeps
<1>4. ASSUME NEW r \in Requests, HandlerStep(r) PROVE IInv'
  <2>1. CASE Refresh(r)
    BY <2>1, RefreshKeeps
  <2>2. CASE ReloadRegistry(r)
    BY <2>2, ReloadRegistryKeeps
  <2>3. CASE SaveModel(r)
    BY <2>3, SaveModelKeeps
  <2>4. CASE DeleteModel(r)
    BY <2>4, DeleteModelKeeps
  <2>5. CASE StartEdit(r)
    BY <2>5, StartEditKeeps
  <2>6. CASE NotFound(r)
    BY <2>6, NotFoundKeeps
  <2>7. CASE ReadLine(r)
    BY <2>7, ReadLineKeeps
  <2>8. CASE AlreadyDefault(r)
    BY <2>8, AlreadyDefaultKeeps
  <2>9. CASE WriteLine(r)
    BY <2>9, WriteLineKeeps
  <2>10. CASE ListFiles(r)
    BY <2>10, ListFilesKeeps
  <2>. QED
    BY <1>4, <2>1, <2>2, <2>3, <2>4, <2>5, <2>6, <2>7, <2>8, <2>9, <2>10 DEF HandlerStep
<1>5. ASSUME HandEdit PROVE IInv'
  BY <1>5, HandEditKeeps
<1>6. ASSUME UNCHANGED vars PROVE IInv'
  BY <1>6 DEF vars, IInv, TypeOK, TurnsKept, StampsCounted, Spent, Handling
<1>. QED
  BY <1>1, <1>2, <1>3, <1>4, <1>5, <1>6 DEF Next

(***************************************************************************)
(* Whatever is written, deleted, broken and loaded in whatever order: a    *)
(* snapshot is made of contents that were written, and a loop that is      *)
(* taken is held by a request of that worker.                              *)
(***************************************************************************)
THEOREM RegistryInvariance == Spec => []TypeOK
<1>1. IInv => TypeOK
  BY DEF IInv
<1>. QED
  BY <1>1, RegistryInit, RegistryStep, PTL DEF Spec

(***************************************************************************)
(* A worker that has models keeps some: what Publish puts in place of a    *)
(* snapshot with models has models too, whichever of the worker's loads    *)
(* comes last and whatever became of the directory meanwhile.              *)
(***************************************************************************)
LEMMA ModelsStay ==
    TypeOK /\ [Next]_vars =>
        [\A w \in Workers : Models(snap[w].read) # {} => Models(snap[w].read)' # {}]_vars
<1>. SUFFICES ASSUME TypeOK, Next, NEW w \in Workers, Models(snap[w].read) # {}
              PROVE  Models(snap'[w].read) # {}
  BY DEF Models, Present
<1>1. ASSUME NEW l \in Loaders, Publish(l) PROVE Models(snap'[w].read) # {}
  <2>1. Models(load[l].read) = {} => Models(snap[WorkerOf(l)].read) = {}
    BY <1>1 DEF Publish, Emptied
  <2>2. /\ w = WorkerOf(l) => snap'[w].read = load[l].read
        /\ w # WorkerOf(l) => snap'[w] = snap[w]
    BY <1>1 DEF Publish, TypeOK
  <2>. QED
    BY <2>1, <2>2
<1>2. ASSUME snap' = snap PROVE Models(snap'[w].read) # {}
  BY <1>2
<1>3. CASE \E l \in Loaders : LoadStep(l)
  BY <1>1, <1>2, <1>3
  DEF LoadStep, ReadFile, LoadRaises, TakeFingerprint, KeepPrevious
<1>4. CASE \E v \in Workers : WatchTick(v)
  BY <1>2, <1>4 DEF WatchTick
<1>5. CASE \E r \in Requests : Arrive(r) \/ HandlerStep(r)
  BY <1>2, <1>5
  DEF Arrive, HandlerStep, Refresh, ReloadRegistry, SaveModel, DeleteModel, StartEdit,
      NotFound, ReadLine, AlreadyDefault, WriteLine, ListFiles
<1>6. CASE HandEdit
  BY <1>2, <1>6 DEF HandEdit
<1>. QED
  BY <1>3, <1>4, <1>5, <1>6 DEF Next

\* No load leaves a worker that has models without any.
THEOREM SnapshotsKeepModels == Spec => NeverEmptied
<1>. QED
  BY ModelsStay, RegistryInvariance, PTL DEF Spec, NeverEmptied
=============================================================================
