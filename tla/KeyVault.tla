------------------------------ MODULE KeyVault ------------------------------
(***************************************************************************)
(* The sealed copies of the API keys (app/core/keyvault.py), how they move  *)
(* from one reveal secret to the next (app/core/keyrotation.py) and the     *)
(* handlers that read them (app/api/admin.py).  A row keeps the copy that   *)
(* was sealed when its key was issued.  A process knows the secrets of its  *)
(* environment, the current one and at most one previous, until it is       *)
(* restarted.  Ciphertext is abstracted to who sealed what: a copy opens    *)
(* under the secret that sealed it unless it is damaged, and shows a key.   *)
(***************************************************************************)
EXTENDS Integers, FiniteSets

CONSTANTS
    Last,           \* the keys are 1..Last, in the order in which they were created
    Workers,        \* processes of the gateway, and of its command line
    Jobs,           \* re-sealings, of the console or of the command line
    Old, New, NoSecret,
    MaxEvents       \* restarts, keys issued, revoked and purged, rows changed from outside

ASSUME VaultAssumption ==
    /\ Last \in Nat \ {0}
    /\ Workers # {}
    /\ Old # New /\ NoSecret \notin {Old, New}
    /\ MaxEvents \in Nat

VARIABLES
    rows,       \* key -> its row of api_keys: is it there, revoked, its copy
    conf,       \* process -> the secrets it was started with
    jobs,       \* re-sealing -> where it stands
    told,       \* a survey said that no copy needs the previous secret
    late,       \* keys sealed under Old, or changed from outside, since that survey
    events      \* bounded by MaxEvents

vars == <<rows, conf, jobs, told, late, events>>

Event == events < MaxEvents /\ events' = events + 1

Keys == 1..Last

\* key_sealed: the format, the secret that sealed it, the key that is inside.
Copies == [format : {"v1", "v2", "newer"}, secret : {Old, New}, key : Keys, damaged : BOOLEAN]
NoCopy == [format |-> "none", secret |-> NoSecret, key |-> 0, damaged |-> FALSE]
Sealed(s, k) == [format |-> "v2", secret |-> s, key |-> k, damaged |-> FALSE]

\* The environments on the documented way from Old to New, and one with the feature off.
Before == [current |-> Old, previous |-> NoSecret]
During == [current |-> New, previous |-> Old]
After == [current |-> New, previous |-> NoSecret]
SwitchedOff == [current |-> NoSecret, previous |-> Old]
Environments == {Before, During, After, SwitchedOff}

NoRows == [k \in {} |-> NoCopy]
Idle == [status |-> "idle", worker |-> CHOOSE w \in Workers : TRUE, todo |-> NoRows,
         resealed |-> 0, moved |-> 0, recorded |-> -1]

---------------------------------------------------------------------------
(* keyvault.inspect *)

\* The previous secret never opens anything while there is no current one.
Previous(c) == IF c.current = NoSecret THEN NoSecret ELSE c.previous

Opens(s, copy) == s # NoSecret /\ copy.secret = s /\ ~copy.damaged

\* The state of a copy for a process, before it is compared with the row's hash.
Tried(c, copy) ==
    IF copy = NoCopy THEN "none"
    ELSE IF c.current = NoSecret THEN "off"
    ELSE IF copy.format \in {"v1", "v2"} /\ Opens(c.current, copy) THEN "current"
    ELSE IF copy.format \in {"v1", "v2"} /\ Opens(Previous(c), copy) THEN "previous"
    ELSE "lost"

\* A plausible bug: the hash of the row is not compared.
InspectOnly(c, k, copy) == Tried(c, copy)

\* What opens must be the key of its row.
Inspect(c, k, copy) ==
    IF Tried(c, copy) \in {"current", "previous"} /\ copy.key # k
    THEN "lost" ELSE Tried(c, copy)

\* Why a copy is lost; only v2 records which secret sealed it.
Reason(c, k, copy) ==
    IF Tried(c, copy) \in {"current", "previous"} /\ copy.key # k THEN "not_this_key"
    ELSE CASE copy.format = "newer" -> "unknown_format"
           [] copy.format = "v1" -> "unreadable"
           [] copy.format = "v2" /\ copy.secret \in {c.current, Previous(c)} -> "damaged"
           [] OTHER -> "unknown_secret"

---------------------------------------------------------------------------
Present(k) == rows[k].there
Stored == {k \in Keys : Present(k) /\ rows[k].copy # NoCopy}

\* keyrotation.survey and its warning: no stored copy waits for the previous secret, and
\* none is closed for want of the right one.
States(c, s) == {k \in Stored : Inspect(c, k, rows[k].copy) = s}
WrongSecret(c) ==
    {k \in States(c, "lost") : Reason(c, k, rows[k].copy) \in {"unknown_secret", "unreadable"}}
\* A plausible bug: the survey leaves revoked keys out.
PreviousUnusedLive(c) ==
    /\ c.current # NoSecret /\ c.previous # NoSecret
    /\ \A k \in States(c, "previous") : rows[k].revoked
    /\ WrongSecret(c) = {}

PreviousUnused(c) ==
    /\ c.current # NoSecret /\ c.previous # NoSecret
    /\ States(c, "previous") = {}
    /\ WrongSecret(c) = {}

Init ==
    /\ rows \in [Keys -> [there : BOOLEAN, revoked : {FALSE},
                          copy : {Sealed(Old, 1), [Sealed(Old, Last) EXCEPT !.format = "v1"],
                                  NoCopy}]]
    /\ \A k \in Keys : rows[k].copy # NoCopy => rows[k].copy.key = k
    /\ \A k \in Keys : rows[k].there \/ (k # 1 /\ rows[k].copy = NoCopy)
    /\ rows[1].copy # NoCopy
    /\ conf = [w \in Workers |-> Before]
    /\ jobs = [j \in Jobs |-> Idle]
    /\ told = FALSE /\ late = {} /\ events = 0

\* The operator follows the documented order: the previous secret is removed only once a
\* survey has said that nothing needs it.  A restart ends the re-sealings of the process
\* before they have recorded anything.
Restart(w, c) ==
    /\ Event
    /\ c # conf[w]
    /\ c = After => told
    /\ c = Before => conf[w] = SwitchedOff
    /\ conf' = [conf EXCEPT ![w] = c]
    /\ jobs' = [j \in Jobs |-> IF jobs[j].status \in {"running", "interrupted"} /\ jobs[j].worker = w
                               THEN [Idle EXCEPT !.status = "killed"] ELSE jobs[j]]
    /\ UNCHANGED <<rows, told, late>>

\* seal
Seal(s, k) == IF s = NoSecret THEN NoCopy ELSE Sealed(s, k)

\* create_api_key: the copy is sealed under the current secret, or there is none.
Issue(w, k) ==
    LET s == conf[w].current IN
    /\ Event
    /\ ~Present(k)
    /\ rows' = [rows EXCEPT ![k] = [there |-> TRUE, revoked |-> FALSE,
                                    copy |-> Seal(s, k)]]
    /\ late' = IF s = Old THEN late \cup {k} ELSE late
    /\ UNCHANGED <<conf, jobs, told>>

Revoke(k) ==
    /\ Event
    /\ Present(k) /\ ~rows[k].revoked
    /\ rows' = [rows EXCEPT ![k].revoked = TRUE]
    /\ UNCHANGED <<conf, jobs, told, late>>

Purge(k) ==
    /\ Event
    /\ Present(k) /\ rows[k].revoked
    /\ rows' = [rows EXCEPT ![k] = [there |-> FALSE, revoked |-> FALSE, copy |-> NoCopy]]
    /\ late' = late \ {k}
    /\ UNCHANGED <<conf, jobs, told>>

\* Outside the gateway: a damaged row, rows that were mixed up, a restored backup, a row
\* that a newer version wrote.
Accident(k) ==
    /\ Event
    /\ Present(k)
    /\ \E copy \in {[rows[l].copy EXCEPT !.damaged = TRUE] : l \in Stored \cap {k}}
                   \cup {rows[l].copy : l \in Stored}
                   \cup {Sealed(Old, k), [Sealed(New, k) EXCEPT !.format = "newer"]} :
          /\ copy # rows[k].copy
          /\ rows' = [rows EXCEPT ![k].copy = copy]
    /\ late' = late \cup {k}
    /\ UNCHANGED <<conf, jobs, told>>

\* What the console and the log say of the copies; `told` stands for the operator's memory.
Survey(w) ==
    /\ PreviousUnused(conf[w])
    /\ told' = TRUE /\ late' = {}
    /\ ~told \/ late # {}
    /\ UNCHANGED <<rows, conf, jobs, events>>

\* reveal_api_key: the keys that are handed out for a row, by a process.
Shows(w, k) ==
    IF /\ Present(k) /\ ~rows[k].revoked
       /\ Inspect(conf[w], k, rows[k].copy) \in {"current", "previous"}
    THEN {rows[k].copy.key} ELSE {}

---------------------------------------------------------------------------
(* keyrotation.reseal *)

\* Every stored copy is read at once; the transaction ends before the first write.
\* Re-sealings are alike and used in a fixed order.
Begin(j, w) ==
    /\ jobs[j].status = "idle" /\ j = CHOOSE i \in Jobs : jobs[i].status = "idle"
    /\ conf[w].current # NoSecret
    /\ jobs' = [jobs EXCEPT ![j].status = "running", ![j].worker = w,
                            ![j].todo = [k \in Stored |-> rows[k].copy]]
    /\ UNCHANGED <<rows, conf, told, late, events>>

NextRow(j) == CHOOSE k \in DOMAIN jobs[j].todo : \A l \in DOMAIN jobs[j].todo : k <= l
RestOf(j) == [l \in DOMAIN jobs[j].todo \ {NextRow(j)} |-> jobs[j].todo[l]]

Running(j) == jobs[j].status = "running" /\ DOMAIN jobs[j].todo # {}

\* A row that is current or lost is counted and left alone.
Skip(j) ==
    /\ Running(j)
    /\ Inspect(conf[jobs[j].worker], NextRow(j), jobs[j].todo[NextRow(j)]) # "previous"
    /\ jobs' = [jobs EXCEPT ![j].todo = RestOf(j)]
    /\ UNCHANGED <<rows, conf, told, late, events>>

\* UPDATE ... WHERE key_sealed = observed.
StillAsObserved(j, k) == Present(k) /\ rows[k].copy = jobs[j].todo[k]

\* The update and its commit; a commit that raises may have been applied, and was not
\* counted: the counter is raised after it.
Move(j, outcome) ==
    LET k == NextRow(j)
        won == StillAsObserved(j, k) /\ outcome # "rolled_back"
    IN
    /\ Running(j)
    /\ Inspect(conf[jobs[j].worker], k, jobs[j].todo[k]) = "previous"
    /\ rows' = IF won THEN [rows EXCEPT ![k].copy = Sealed(conf[jobs[j].worker].current,
                                                            jobs[j].todo[k].key)]
               ELSE rows
    /\ jobs' = [jobs EXCEPT
           ![j].todo = IF outcome = "ok" THEN RestOf(j) ELSE NoRows,
           ![j].status = IF outcome = "ok" THEN "running" ELSE "interrupted",
           ![j].moved = @ + (IF won THEN 1 ELSE 0),
           ![j].resealed = @ + (IF won /\ outcome = "ok" THEN 1 ELSE 0)]
    /\ late' = IF won /\ conf[jobs[j].worker].current # Old THEN late \ {k} ELSE late
    /\ UNCHANGED <<conf, told, events>>

\* The audit of a re-sealing, finished or interrupted; it may fail in its turn.
Record(j) ==
    /\ \/ jobs[j].status = "interrupted"
       \/ jobs[j].status = "running" /\ DOMAIN jobs[j].todo = {}
    /\ \E recorded \in {-1, jobs[j].resealed} :
          jobs' = [jobs EXCEPT ![j].recorded = recorded, ![j].worker = Idle.worker,
                               ![j].status = IF @ = "running" THEN "done" ELSE "failed"]
    /\ UNCHANGED <<rows, conf, told, late, events>>

Next ==
    \/ \E w \in Workers : Survey(w) \/ \E c \in Environments : Restart(w, c)
    \/ \E w \in Workers, k \in Keys : Issue(w, k)
    \/ \E k \in Keys : Revoke(k) \/ Purge(k) \/ Accident(k)
    \/ \E j \in Jobs, w \in Workers : Begin(j, w)
    \/ \E j \in Jobs : Skip(j) \/ Record(j)
                       \/ \E outcome \in {"ok", "applied", "rolled_back"} : Move(j, outcome)

Spec == Init /\ [][Next]_vars

---------------------------------------------------------------------------
Todos == UNION {[K -> Copies] : K \in SUBSET Keys}
JobTypes ==
    [status : {"idle", "running", "interrupted", "done", "failed", "killed"},
     worker : Workers, todo : Todos,
     resealed : 0..Last, moved : 0..Last, recorded : -1..Last]

TypeOK ==
    /\ rows \in [Keys -> [there : BOOLEAN, revoked : BOOLEAN, copy : Copies \cup {NoCopy}]]
    /\ conf \in [Workers -> Environments]
    /\ jobs \in [Jobs -> JobTypes]
    /\ told \in BOOLEAN /\ late \subseteq Keys
    /\ events \in 0..MaxEvents

\* Once the operator was told that no copy needs the previous secret, the new secret alone
\* opens every sound copy: none is stranded by re-sealings that were interrupted, ran
\* twice or met a changed row.  Excepted are copies sealed under the old secret since, by
\* a process that was not restarted, and rows changed from outside since.
NoneStranded ==
    told => \A k \in Stored \ late :
               Tried(During, rows[k].copy) \in {"current", "previous"} /\ rows[k].copy.key = k
               => Opens(New, rows[k].copy)

\* A step that moves a copy to another secret moves a copy that opened and was the copy of
\* its row: what is damaged, mixed up or in a newer format keeps its traces.
OnlySoundCopiesMove ==
    [][\A k \in Keys :
          /\ Present(k) /\ rows'[k].there
          /\ rows[k].copy # NoCopy /\ rows'[k].copy # rows[k].copy
          /\ events' = events
          => /\ rows[k].copy.key = k /\ ~rows[k].copy.damaged /\ rows[k].copy.format # "newer"
             /\ rows'[k].copy = Sealed(rows'[k].copy.secret, k)
             /\ rows'[k].copy.secret # rows[k].copy.secret]_vars

\* A key is shown only under its own row.
ShowsItsOwn == \A w \in Workers, k \in Keys : Shows(w, k) \subseteq {k}

\* What a re-sealing recorded is what it moved; an interrupted one may have moved one more.
RecordedIsMoved ==
    \A j \in Jobs : jobs[j].recorded # -1 =>
        /\ jobs[j].recorded <= jobs[j].moved
        /\ jobs[j].moved - jobs[j].recorded <= (IF jobs[j].status = "done" THEN 0 ELSE 1)

\* What a re-sealing has moved and counted at each point of its way.
JobKept(j) ==
    LET job == jobs[j] IN
    /\ job.status \in {"idle", "running", "interrupted", "killed"} => job.recorded = -1
    /\ job.status = "idle" => job.moved = 0 /\ job.resealed = 0
    /\ job.status = "running" => /\ job.moved = job.resealed
                                /\ job.moved + Cardinality(DOMAIN job.todo) <= Last
    /\ job.status = "interrupted" => job.resealed <= job.moved /\ job.moved <= job.resealed + 1
    /\ job.status = "done" /\ job.recorded # -1 => job.recorded = job.moved
    /\ job.status = "failed" /\ job.recorded # -1 =>
          job.recorded <= job.moved /\ job.moved <= job.recorded + 1

IInv == TypeOK /\ NoneStranded /\ \A j \in Jobs : JobKept(j)

\* The copies, together: none is stranded once the operator was told so, none is shown
\* for another key, and what a re-sealing recorded is what it moved.
CopiesKept == TypeOK /\ NoneStranded /\ ShowsItsOwn /\ RecordedIsMoved

=============================================================================
