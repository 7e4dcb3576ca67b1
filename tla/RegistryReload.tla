--------------------------- MODULE RegistryReload ---------------------------
(***************************************************************************)
(* The model registry: app/registry/store.py, and the admin handlers of    *)
(* app/api/admin.py and app/registry/writer.py that write its files.       *)
(*                                                                         *)
(* Every worker process holds a snapshot of the files of config/models.    *)
(* A watcher compares the fingerprint of the directory with that of the    *)
(* snapshot every reload_seconds and every admin request does the same     *)
(* before its handler runs; when they differ the directory is loaded again. *)
(* A load reads one file after the other, takes the fingerprint after the  *)
(* last of them, and publishes.  The handlers of several workers and an    *)
(* operator with an editor write the same directory meanwhile.             *)
(*                                                                         *)
(* A file is what a load makes of it and its stamp (the mtime_ns:size that *)
(* the fingerprint names it by).                                           *)
(***************************************************************************)
EXTENDS Naturals, FiniteSets

CONSTANTS
    Workers,
    Requests,     \* admin requests
    NFiles,       \* the model files 1..NFiles, in the order of their names
    Targets,      \* bound: the files that admin requests name
    Asks,         \* bound: what each of them may ask for
    MaxEdits,     \* bound: how often an operator touches the directory by hand
    Nobody

Files == 1..NFiles
Kinds == {"good", "bad", "broken"}   \* loads; fails validation; is no YAML at all
Stamps == 1..(1 + MaxEdits + Cardinality(Requests))
Contents == Kinds \X Stamps
Gone == <<"gone", 0>>
Ops == {"save", "toggle", "tune", "delete", "reload"}
Listing == [Files -> Contents \cup {Gone}]
Loaders == Workers \cup Requests

ASSUME RegistryAssumption ==
    /\ IsFiniteSet(Workers) /\ IsFiniteSet(Requests)
    /\ Workers \cap Requests = {}
    /\ Nobody \notin Loaders
    /\ Asks \in [Requests -> SUBSET Ops]
    /\ Targets \subseteq Files /\ Targets # {}
    /\ NFiles \in Nat \ {0} /\ MaxEdits \in Nat

VARIABLES
    disk,      \* the directory: the content of each file
    last,      \* the stamp given last
    edits,
    snap,      \* [Workers -> [read, print]]: the files a worker's snapshot was
               \* parsed from, and its fingerprint
    loop,      \* the request whose handler has the event loop of a worker
    pc,        \* where a watcher or an admin request is
    load,      \* the load it is in: the files to read, those read, the fingerprint
    job,       \* what a request asks for: worker, operation, file
    line       \* the content a one-line edit starts from, Gone to rewrite the file

vars == <<disk, last, edits, snap, loop, pc, load, job, line>>

NoFiles == [f \in Files |-> Gone]
NoLoad == [todo |-> {}, read |-> NoFiles, print |-> NoFiles]
NoJob == [at |-> Nobody, op |-> "reload", file |-> 1]

Present(files) == {f \in Files : files[f] # Gone}
Models(files) == {f \in Present(files) : files[f][1] = "good"}
Readable == {f \in Present(disk) : disk[f][1] # "broken"}
WorkerOf(l) == IF l \in Workers THEN l ELSE job[l].at
Handling(l) == l \in Requests /\ loop[job[l].at] = l

Init ==
    /\ disk = [f \in Files |-> <<"good", 1>>]
    /\ last = 1
    /\ edits = 0
    /\ snap = [w \in Workers |-> [read |-> disk, print |-> disk]]
    /\ loop = [w \in Workers |-> Nobody]
    /\ pc = [l \in Loaders |-> "idle"]
    /\ load = [l \in Loaders |-> NoLoad]
    /\ job = [r \in Requests |-> NoJob]
    /\ line = [r \in Requests |-> Gone]

-----------------------------------------------------------------------------
\* Writing the directory.  A file is replaced as a whole: _atomic_write renames.

Put(f, k) ==
    /\ last' = last + 1
    /\ disk' = [disk EXCEPT ![f] = <<k, last + 1>>]

Remove(f) == disk' = [disk EXCEPT ![f] = Gone] /\ UNCHANGED last

Goto(l, where) == pc' = [pc EXCEPT ![l] = where]

\* A request is answered: whatever its handler held is free again.
Answer(r) ==
    /\ Goto(r, "done")
    /\ loop' = [w \in Workers |-> IF loop[w] = r THEN Nobody ELSE loop[w]]
    /\ job' = [job EXCEPT ![r] = NoJob]
    /\ line' = [line EXCEPT ![r] = Gone]

-----------------------------------------------------------------------------
\* Loading the directory: load_snapshot and reload.

\* The glob is taken at once, the files it names are opened one by one.
StartLoad(l) ==
    /\ load' = [load EXCEPT ![l] = [NoLoad EXCEPT !.todo = Present(disk)]]
    /\ Goto(l, "read")

ListFiles(r) ==
    /\ pc[r] = "list" /\ StartLoad(r)
    /\ UNCHANGED <<disk, last, edits, snap, loop, job, line>>

NextFile(l) == CHOOSE f \in load[l].todo : \A g \in load[l].todo : f <= g

ReadFile(l) ==
    /\ pc[l] = "read" /\ load[l].todo # {}
    /\ LET f == NextFile(l) IN
          /\ f \in Readable
          /\ load' = [load EXCEPT ![l].todo = @ \ {f}, ![l].read[f] = disk[f]]
    /\ UNCHANGED <<disk, last, edits, snap, loop, pc, job, line>>

\* How a load that published nothing, or published, goes on: the watcher goes
\* back to sleep, a refresh to the handler, a handler to its answer.
Loaded(l) ==
    /\ load' = [load EXCEPT ![l] = NoLoad]
    /\ IF Handling(l)
          THEN Answer(l)
          ELSE /\ Goto(l, IF l \in Workers THEN "idle" ELSE "handler")
               /\ UNCHANGED <<loop, job, line>>

\* A file that vanished since the glob fails its stat, and a YAML syntax error
\* is no ValueError: both leave load_snapshot.  The watcher logs, a request
\* is answered 500.
NextUnreadable(l) == pc[l] = "read" /\ load[l].todo # {} /\ NextFile(l) \notin Readable

LoadRaises(l) ==
    /\ NextUnreadable(l)
    /\ load' = [load EXCEPT ![l] = NoLoad]
    /\ IF l \in Requests
          THEN Answer(l)
          ELSE Goto(l, "idle") /\ UNCHANGED <<loop, job, line>>
    /\ UNCHANGED <<disk, last, edits, snap>>

\* fingerprint() runs after the last file was read.
TakeFingerprint(l) ==
    /\ pc[l] = "read" /\ load[l].todo = {}
    /\ load' = [load EXCEPT ![l].print = disk]
    /\ Goto(l, "judge")
    /\ UNCHANGED <<disk, last, edits, snap, loop, job, line>>

\* A candidate without models does not replace a snapshot that has some.  The
\* snapshot can be replaced between this look and the assignment of the next
\* line, but a snapshot with models only by one with models, so both are one step.
EmptiedNever(l) == FALSE   \* A plausible bug: every candidate is published.
Emptied(l) == Models(load[l].read) = {} /\ Models(snap[WorkerOf(l)].read) # {}

KeepPrevious(l) ==
    /\ pc[l] = "judge" /\ Emptied(l)
    /\ Loaded(l)
    /\ UNCHANGED <<disk, last, edits, snap>>

Publish(l) ==
    /\ pc[l] = "judge" /\ ~Emptied(l)
    /\ snap' = [snap EXCEPT ![WorkerOf(l)] = [read |-> load[l].read, print |-> load[l].print]]
    /\ Loaded(l)
    /\ UNCHANGED <<disk, last, edits>>

-----------------------------------------------------------------------------
\* Noticing a change: _reload_if_changed and refresh_if_stale.

\* A plausible bug: a file that is gone changes nothing, as with the newest mtime.
StaleByPresence(w) == \E f \in Present(disk) : snap[w].print[f] # disk[f]
Stale(w) == snap[w].print # disk

WatchTick(w) ==
    /\ pc[w] = "idle" /\ Stale(w)
    /\ StartLoad(w)
    /\ UNCHANGED <<disk, last, edits, snap, loop, job, line>>

Arrive(r) ==
    /\ pc[r] = "idle"
    /\ \E w \in Workers, o \in Asks[r], f \in Targets :
          job' = [job EXCEPT ![r] = [at |-> w, op |-> o, file |-> f]]
    /\ Goto(r, "refresh")
    /\ UNCHANGED <<disk, last, edits, snap, loop, load, line>>

Refresh(r) ==
    /\ pc[r] = "refresh"
    /\ IF Stale(job[r].at)
          THEN StartLoad(r)
          ELSE Goto(r, "handler") /\ UNCHANGED load
    /\ UNCHANGED <<disk, last, edits, snap, loop, job, line>>

-----------------------------------------------------------------------------
\* The handlers.  None awaits before its reload is over, so one at a time has
\* the event loop of its worker; threads and other workers go on.

Enter(r, o) ==
    /\ pc[r] = "handler" /\ job[r].op = o
    /\ loop[job[r].at] = Nobody

TakeLoop(r) == loop' = [loop EXCEPT ![job[r].at] = r]

Known(r) == job[r].file \in Models(snap[job[r].at].read)

ReloadRegistry(r) ==
    /\ Enter(r, "reload") /\ TakeLoop(r) /\ Goto(r, "list")
    /\ UNCHANGED <<disk, last, edits, snap, load, job, line>>

SaveModel(r) ==
    /\ Enter(r, "save") /\ TakeLoop(r) /\ Goto(r, "list")
    /\ Put(job[r].file, "good")
    /\ UNCHANGED <<edits, snap, load, job, line>>

DeleteModel(r) ==
    /\ Enter(r, "delete") /\ disk[job[r].file] # Gone
    /\ TakeLoop(r) /\ Goto(r, "list")
    /\ Remove(job[r].file)
    /\ UNCHANGED <<edits, snap, load, job, line>>

\* Only set_model_enabled looks whether the file is there.
StartEdit(r) ==
    /\ \/ Enter(r, "toggle") /\ Known(r) /\ disk[job[r].file] # Gone
       \/ Enter(r, "tune") /\ Known(r)
    /\ TakeLoop(r) /\ Goto(r, "readline")
    /\ UNCHANGED <<disk, last, edits, snap, load, job, line>>

NotFound(r) ==
    /\ \/ Enter(r, "delete") /\ disk[job[r].file] = Gone
       \/ Enter(r, "toggle") /\ (~Known(r) \/ disk[job[r].file] = Gone)
       \/ Enter(r, "tune") /\ ~Known(r)
    /\ Answer(r)
    /\ UNCHANGED <<disk, last, edits, snap, load>>

\* set_field_in_file reads the file.  It edits the line it finds, or reports
\* that it cannot (no such file, no such block) and the caller rewrites the
\* file from the definition in memory.
ReadLine(r) ==
    /\ pc[r] = "readline"
    /\ \E s \in {disk[job[r].file], Gone} : line' = [line EXCEPT ![r] = s]
    /\ Goto(r, "writeline")
    /\ UNCHANGED <<disk, last, edits, snap, loop, load, job>>

\* The value is the default of the schema and the file does not name it.
AlreadyDefault(r) ==
    /\ pc[r] = "readline" /\ disk[job[r].file] # Gone
    /\ Goto(r, "list")
    /\ UNCHANGED <<disk, last, edits, snap, loop, load, job, line>>

WriteLine(r) ==
    /\ pc[r] = "writeline"
    /\ Put(job[r].file, IF line[r] = Gone THEN "good" ELSE line[r][1])
    /\ Goto(r, "list")
    /\ UNCHANGED <<edits, snap, loop, load, job, line>>

-----------------------------------------------------------------------------
\* An operator with an editor, or a deployment.

HandEdit ==
    /\ edits < MaxEdits /\ edits' = edits + 1
    /\ \E f \in Files : (\E k \in Kinds : Put(f, k)) \/ (disk[f] # Gone /\ Remove(f))
    /\ UNCHANGED <<snap, loop, pc, load, job, line>>

LoadStep(l) ==
    \/ ReadFile(l) \/ LoadRaises(l) \/ TakeFingerprint(l)
    \/ KeepPrevious(l) \/ Publish(l)

HandlerStep(r) ==
    \/ Refresh(r)
    \/ ReloadRegistry(r) \/ SaveModel(r) \/ DeleteModel(r)
    \/ StartEdit(r) \/ NotFound(r)
    \/ ReadLine(r) \/ AlreadyDefault(r) \/ WriteLine(r)
    \/ ListFiles(r)

Next ==
    \/ \E l \in Loaders : LoadStep(l)
    \/ \E w \in Workers : WatchTick(w)
    \/ \E r \in Requests : Arrive(r) \/ HandlerStep(r)
    \/ HandEdit

Spec == Init /\ [][Next]_vars

\* asyncio.sleep returns, a thread that can run does, a handler goes on.
FairSpec ==
    /\ Spec
    /\ \A l \in Loaders : WF_vars(LoadStep(l))
    /\ \A w \in Workers : WF_vars(WatchTick(w))
    /\ \A r \in Requests : WF_vars(HandlerStep(r))

-----------------------------------------------------------------------------
Load == [todo : SUBSET Files, read : Listing, print : Listing]
Jobs == [at : Workers \cup {Nobody}, op : Ops, file : Files]

\* The variables have their types: a file that is loaded or listed is one that
\* was written, and the loop of a worker is held by a request that reached it.
TypeOK ==
    /\ disk \in Listing /\ last \in Stamps /\ edits \in 0..MaxEdits
    /\ snap \in [Workers -> [read : Listing, print : Listing]]
    /\ loop \in [Workers -> Requests \cup {Nobody}]
    /\ \A w \in Workers : loop[w] # Nobody => job[loop[w]].at = w
    /\ pc \in [Loaders -> {"idle", "refresh", "handler", "list", "read", "judge",
                           "readline", "writeline", "done"}]
    /\ load \in [Loaders -> Load]
    /\ job \in [Requests -> Jobs]
    /\ line \in [Requests -> Contents \cup {Gone}]

\* A worker that has models never loses all of them (reload: "Keeps the
\* previous snapshot if the new one has no models"), whatever is deleted or
\* broken on disk and however many loads of the worker end in any order.
NeverEmptied ==
    [][\A w \in Workers : Models(snap[w].read) # {} => Models(snap[w].read)' # {}]_vars

\* A directory that load_snapshot parses and that reload accepts.
Loadable ==
    /\ Models(disk) # {}
    /\ Readable = Present(disk)

\* When the directory is left alone every worker ends with a snapshot whose
\* fingerprint is that of the directory, also when loads of one worker publish
\* in the wrong order, raise, or were overtaken by a write; the exception is a
\* directory that no load accepts, which leaves the snapshot of before.
EveryWorkerNotices == <>[](Loadable => \A w \in Workers : snap[w].print = disk)

\* What fingerprint() is for: telling whether the directory is still "the set
\* that was loaded".  A worker that finds it unchanged holds its content.
FingerprintTellsTruth == \A w \in Workers : snap[w].print = disk => snap[w].read = disk

\* The head of store.py: "if any file fails validation the previous good
\* snapshot is kept".
BadFileKeepsPrevious ==
    [][\A w \in Workers : snap'[w] # snap[w] =>
          \A f \in Present(snap'[w].read) : snap'[w].read[f][1] # "bad"]_vars
=============================================================================
