# Verification of LiteGate

LiteGate is a gateway between people with coding tools and the model servers of
a team: it authenticates a request, checks its quota, picks a backend with a
free slot, translates, relays the answer and records what it cost.  These
modules state what the gateway promises and check it: the slots of the backends
and their health, the life of a request across failures, what a stream looks
like to its reader, the usage log and the quota counters, the registry of
models, accounts and key copies, who may hand out what, and what the console
tells its administrators.

Everything here is translated from the code under `src/app`; `PROJECT.json` names
for every definition the lines it stands for.

    tlc -config InFlight_faults.cfg MCInFlight.tla      # one run
    tlapm InFlightProofs.tla                            # one module of proofs

## 1. Inventory

| Component | State it keeps | Operations | Interacts with |
|---|---|---|---|
| In-flight slots (`core/inflight.py`) | leases with an expiry, in Redis and in each worker | acquire (one atomic script), release, fallback when a call to Redis raises | Router; Redis |
| Router (`core/routing.py`) | local hint per backend, held leases, release tasks, health counters | select, acquire, release, report_success/failure, probe loop | Registry snapshot; limiter; lifecycle |
| Request lifecycle (`api/lifecycle.py`) | per request: slot held, stream handed over, status | take_slot, complete, open_stream(_for), relay | Router, upstream client, request context |
| Request context (`api/openai.py`) | model, endpoint, tried, exhausted, finalized; process-wide set of pending finalizers | another_endpoint, retarget, finalize, _record_usage, drain | usage log, quota |
| Usage log (`core/usage.py`) | buffer, batches in the air, dropped and rejected counts | submit, flush, row by row, put back, stop | database; reports and shutdown call flush |
| Quota (`core/quota.py`) | counters in Redis and in the database, per worker "Redis is down until" and "the database has counts" | check, admit, release, record, reset; policy resolution | Redis, database, registry defaults |
| Registry (`registry/*`) | immutable snapshot, fingerprint of the files | reload, refresh_if_stale, watcher thread, writer | everybody reads the snapshot |
| Routing rules, auto (`core/rules.py`, `core/auto.py`, `core/latency.py`) | EWMA of speeds | resolve_route, fallback_models, ranking | capability gates |
| Capability gates (`core/capability.py`) | none | validate_* | rules, lifecycle |
| Response cache (`core/responsecache.py`) | answers with a lifetime | key, get, put | complete path of chat |
| Protocol adapters (`upstream/protocol/*`) | per stream: open blocks, item order, running numbers | translate requests and whole answers, turn chunks into events | relay |
| Accounts and keys (`api/auth.py`, `core/auth.py`) | users, session epochs, keys | setup, login, log-out, change_password, update_user, create/revoke key | database |
| Key vault (`core/keyvault.py`, `core/keyrotation.py`) | sealed key copies | seal, unseal, reseal (compare and set per row), survey | database, environment |
| Administration (`api/admin.py`) | workspaces, members, bundles, keys, policies, files of the registry | create/update/delete, reset, reload, test runs, advice | all of the above |
| Model test bench (`core/modeltest.py`) | runs, results, verdicts; findings of a probe | ten tests, publication; eight questions, advice | the gateway as its own client; a model server |
| Application (`main.py`, `state.py`) | the services | start, stop (in an order that matters) | all |
| Reports, release tools, console, scripts | database rows, files | read, offline jobs | all |

Behaviours that are hard to test:

* **Interleavings across awaits.**  Select and acquire are several awaits apart;
  a release runs under a cancel scope; `flush` holds a batch without the lock;
  quota is checked before the answer and charged after it; every handler of the
  accounts is away for the time of a password hash between its look and its write.
* **Several workers, one Redis.**  What a worker believes of Redis (down or not,
  has the database counts or not) is private to it, as are its health counters and
  its secrets.
* **Partial failure.**  A call that raises may have been executed; a commit may
  lose its answer; a place booked in one ledger may be given back to the other; a
  model server dies in the middle of an answer, or of the very question it is asked.
* **Cancellation.**  A caller may leave at every await, also while a record is
  written or a slot is being acquired.
* **Order.**  A backend sends thoughts, text and pieces of several calls in any
  order; a client expects events with places and numbers.
* **Long sequences.**  An empty list of models means "all": what is taken away in
  the wrong order hands out more than there was.
* **Time.**  Leases expire, minutes roll over between booking and giving back,
  windows of different length begin at the same instant.
* **Shutdown and crash.**  Tasks are cancelled with data in their hands, workers
  die with leases in Redis, a re-sealing stops half-way.

The full list, each at its line and with the properties that watch it, is
`hazards` in `PROJECT.json`.

## 2. What is modelled

| Module | Code | Run through |
|---|---|---|
| InFlight ⇒ SlotPermits | `core/inflight.py`, acquire and release of `core/routing.py` | MCInFlight |
| EndpointHealth | the probe loop, the reports and the hysteresis of `core/routing.py` | MCDispatch |
| Dispatch | `core/auto.py`, `core/rules.py`, `core/capability.py`, `select`, the failover of `_RequestContext`, `core/responsecache.py`, `api/retrieval.py` | MCDispatch |
| RequestLifecycle | `api/lifecycle.py` over `_RequestContext` | MCRequestLifecycle |
| StreamAdapters, StreamRelay | `upstream/protocol/*`, `relay` and the `produce` of each surface | MCStreams |
| ChatTranslation | the request translations, the profilers of `core/multimodal.py` | MCStreams |
| UsageBuffer ⇒ UsageLedger | `core/usage.py` | MCUsageBuffer |
| MinuteQuota, QuotaLedgers | the counter stores, the gates and the long windows of `core/quota.py` | MCQuota |
| QuotaPolicies | the policies, windows and screens of `core/quota.py` | MCConsole |
| RegistryReload | `registry/*` and the handlers that write files | MCRegistryReload |
| KeyVault | `core/keyvault.py`, `core/keyrotation.py` | MCCredentials |
| Accounts | `api/auth.py`, `core/passwords.py`, the user handlers of `api/admin.py`, `scripts/reset_password.py` | MCCredentials |
| AccessControl | workspaces, bundles, members, keys and policies of `api/admin.py`, the rules of `core/auth.py` | MCAccessControl |
| TestBench, BackendProbe | `core/modeltest.py` and its handlers | MCConsole |

MCQuota, MCCredentials, MCDispatch, MCStreams and MCConsole put two or three modules side
by side: `part` says which of them moves in a behaviour, and the others keep one initial
state.  This is a union of separate state spaces and shows nothing of an interplay.

### InFlight (with SlotPermits)

`left[store][slot][request]` is the remaining life of a lease; 0 means absent or
expired, which the code cannot tell apart because every reader sweeps first.
`acquire` is split where it awaits: `Ask` (slot computed, script sent),
`RedisExecutes` (the script), `Answered` (the bookkeeping without an await of its
own), with `FallBack` (the call raises; the worker's own store decides) and
`CancelAsking` (the caller is gone; the lease it may have is given back by a task,
and the command may still arrive: `RedisExecutesLate`).  `Release` decrements the
local hint and starts the task; `ReturnPrimary` and `ReturnFallback` are its two
awaits.  `Reload` moves endpoints between backends; `Crash` takes a worker.

`SlotPermits` is what a limiter promises: a request enters a place only while fewer
than `Ceiling` counted requests are in it, and requests leave.  The mapping counts
the running requests whose lease is alive in the store that granted it.  "Per
store" is the code's own promise: with Redis answering there is one store, and
during an outage the ceiling becomes one per worker (docstring of
`ResilientInFlightLimiter`).

A deployment without Redis is a single worker whose every call falls back.  A call
that raised is taken to have been executed by then or never; only a cancelled
command may arrive late.

### EndpointHealth

What one worker believes of the endpoints.  Requests end in any order and report success,
failure, or a fault that is the request's own (`ReportRequestFault`: no verdict on the
machine); the probe loop asks every health path of the round it began with (`ProbeAll`,
`ProbeAnswers`), also of endpoints that are marked, while the registry changes thresholds
and what is listed.  `machine` is the truth: "well", "wavering", "odd" or "down"; "odd"
answers its health path while requests fail.  A machine that is "wavering" is not ill, and
still some of what it is asked counts against it, requests and probes alike: the code counts
every status but 400, 413 and 422, a read timeout of a long answer, a late health path and any
exception while the gateway relays (`core/routing.py:46`, `:285`, `:406`,
`api/lifecycle.py:191`, `:516`).  No property says that such a machine stays in rotation: three
in a row take it out.  `heard` is a history variable: the last `Keep` reports on an endpoint.  The counters
stop at `Keep`, which no threshold exceeds; beyond a threshold the code only compares.

### Dispatch

One request from its arrival to its answer, by definition and configuration instead of by
time: `auto` ranks the models, `resolve_route` applies overflow and small-prompt hops, the
gates refuse or pass, `select` takes the best endpoint by health, priority and weight, and
`another_endpoint` and `retarget` move the request when the machine is full or fails.  What
other traffic does is a choice (`sick`, `Full`).  Tokens are numbers, with a rate per model,
because context and output cap are compared with them.  The cache is a sequence in order of
expiry; `key` is built where the code builds it, before the failover.  What
`validate_routing` and the schema let in (`ValidRouting`, `ValidModel`) and what
`validate_chat_params` does (`ValidCall`) are assumptions on the registries and the calls
(`RegistriesAssumption`): the gateway refuses others.  Fallbacks are places in a model's list,
because the first that has an endpoint is asked and the ones passed over count as exhausted.
`MAX_HOPS` is written out in `ResolveRoute`.  The gates are those of `Capable`: chat, media
(pictures, audio; video never), tools, streaming, and what only a backend of the caller's own
surface can do; with `CanServe`, `Fits`, `OutputCap` and `EndpointSupports` for the surface,
the window, the cap and the machine.  "Every gate" below means these.  `modalities.input` is
not a gate of its own, since the schema makes it agree with the capabilities
(`registry/schema.py:373`).  `auto` ranks by each of the four strategies; what the code decides
by the time to the first token or the place in the registry is left open (`Chosen`).

### RequestLifecycle

One request from its first slot to its usage row.  `Elsewhere(t)` is
`another_endpoint`: an endpoint of the same model not in `tried`, else an endpoint
of the first fallback model that has one; `select` may return nothing although an
endpoint is left, because it is full.  `Finalize` is guarded by `_finalized` and the
backlog; the record is a task (`WriteRow`, then `SettleQuota`) that survives its
caller.  `HangUp` may strike at every await of the opening of a stream.  Contention
for slots is left to InFlight: here acquire may grant or refuse.

### StreamAdapters and StreamRelay

The adapters are functions on their own state: a chunk in, events out.  A chunk has a
thought, a text, pieces of calls, a finish, a usage, any of them or several; a piece is
known by its number, which is what "once, in order" needs, and never a string.  StreamRelay
puts them into `relay`: one payload is read, counted and turned into frames, which are
handed over one by one; the caller may leave at each of these points and the line may break
at each read.  MCStreams takes StreamRelay as an instance (`Stream`), with the names `stage`,
`outcome` and `Totals` for its phase, status and reports.  `reader` is a client that follows the events: it opens, extends and closes
items at their index and notes what it cannot place.  `given` is what the backend sent.

### ChatTranslation

The conversation a client sends, piece by piece, and what the chat backend gets to see:
`responses_to_openai_request`, `anthropic_to_openai_request`, and the two profilers which
count the same request for the gates.  A piece is known by its place in the history.

### UsageBuffer (with UsageLedger)

A section under the lock awaits nothing, so it is one step.  `Take` empties the
buffer into the flusher's own batch; `BatchAccepted`, `BatchRefused` and
`BatchFails` are the outcomes of its transaction, `RowAccepted`, `RowRefused` and
`RowFails` those of the row-by-row round.  `Fails` may commit before it fails.  The
database refuses a bad value and a duplicate `request_id`.  `Stop` cancels the loop
wherever it is.  `UsageLedger` gives each row one fate: new, waiting, then stored,
refused or dropped for good; lost only in the step in which the process stops.

### MinuteQuota, QuotaLedgers, QuotaPolicies

MinuteQuota: the gates of `admit` over `ResilientCounterStore`: Redis counts first and steps
back (`RedisTake`, `RedisStepBack`), the database updates conditionally, inserts,
updates again (`DatabaseTake`, `DatabaseInsert`, `DatabaseTakeAgain`).  `GiveBack`
names the minute, and the ledger, of the moment it runs in, as the code does.
`took` and `gave` are history variables: where a place was booked and where it was
given back.  Not in it: the tokens-per-minute limit, which is checked like a long
window.

QuotaLedgers: one subject, one long window: `check` before the answer (`GetFromRedis`,
`GetFromDatabase`, and after an outage `ConsultDatabase` and `Seed`), `record` after
it.  Who uses which ledger is decided by the worker's own `down` and `hasCounts`.

QuotaPolicies: which policies bind a request and under which names it is counted, over
counters that do not fail: the winner among policies for persons, workspaces, models and
bundles, the ceilings of a key in their own windows, the book the screens read once, the
reset of a person.  A minute is the unit of time and windows are as short as they can be
while each holds two of the next smaller, so that hours, days, months and terms begin at the
same instant within the bounds; `TermsTile` checks the calendar itself on months.

### RegistryReload

A load is split where other threads and processes can come between: the glob
(`StartLoad`), one step per file (`ReadFile`, `LoadRaises`), the fingerprint
(`TakeFingerprint`), the publication (`Publish`, or `KeepPrevious` for a candidate
without models).  The fingerprint is one step although it stats file by file: each
stat comes after the read of its file in either case.  Three kinds of process load:
the watcher (`WatchTick`), an admin request before its handler (`Refresh`), and the
handler after its write.  Handlers await nothing until their reload is over, so they
take turns on `loop`; the first two run in threads.  A file is its stamp and what a
load makes of it: a model, a validation error (also a duplicate alias), or no YAML,
whose `YAMLError` no handler of `load_snapshot` catches.  Writes replace whole files.
A `tune` of several fields is one write.  Not in it: a write that fails, `gateway.yaml`
as a file of its own, the database projection after a reload, and two writes of one
length within the resolution of the file system's clock, which the fingerprint cannot
tell apart.

### KeyVault

A copy is who sealed it, for which key, in which format, and whether it is damaged; opening
it succeeds under the secret that sealed it.  A worker has the secrets of its environment
until it is restarted into another one on the documented way from the old secret to the new.
A re-sealing reads its list of rows at once and moves them one by one: `Skip` for what it
leaves alone, `Move` for a compare-and-set whose transaction succeeds, fails, or succeeds and
loses its answer, `Record` for the audit, which may fail too.  Keys are issued, revoked and
purged, and rows changed from outside, in between.

### Accounts

Each handler is split at its awaits: what it read is kept in `reqs[r].row` and what it writes
was made of that row, so a write may be about an older account.  `epoch` is the number a
session carries; there is no table of sessions.  PostgreSQL has the row locks the code asks
for, SQLite has none.  `rewound`, `raced` and `unasked` are history variables for the
exceptions that the code does not exclude (see section 3).

### AccessControl

The tables of workspaces, members, bundles, keys and policies with the handlers that change
them, in requests that do not overlap: the question is where a sequence leads.  `Reach` is
what a key may call by `core/auth.py`; an empty list is everything its owner may.  A database
refuses what breaks a foreign key and does what `ON DELETE` says.

### TestBench and BackendProbe

A test is a verdict on what the registry said when the run began and what the server does now.
A run keeps its row (`rows`) and publishes its verdicts one by one (`Post`); rows and posts
may be lost, the worker may die.  BackendProbe asks eight questions in order of a server that
may die of any of them; `build_advice` and `model_advice` are functions of what it found.

## 3. Runs

| Run | Shows | Bounds |
|---|---|---|
| inflight_faults | ceiling per ledger, exact hint, clean attempts, leases only age, SlotPermits implemented, every slot comes back | 2 requests of 2 workers, an endpoint that moves between 2 backends, every fault |
| inflight_crowd | cancellations and reloads cost no slot; a refusal books nothing | 3 requests, 2 workers, 2 endpoints on 2 backends |
| usage_faults | bounded buffer, a row in one place, only guilty rows rejected, UsageLedger implemented, every row settles | 4 rows, buffer of 2, 3 flushers, 2 outages |
| usage_stop | *violation*: a graceful stop loses the loop's batch | 2 rows, no outage |
| quota_faults | counters exact until the first failure, all gates or none, overrun bounded per ledger, the race for a new row refuses nobody wrongly; no charge lost, double count bounded, no quota handed back | 3 requests of 2 workers, 2 gates, 2 minutes, 1 failure, 1 reset; 4 charges of 2 clients, 2 outages, 1 loss of data |
| lifecycle_faults | one row and one settlement of what was served, no endpoint twice, slots follow work, no switch after the first byte, an end | a stream and an answer, 3 models, backlog of 1 |
| registry_edits | models never lost all at once, every state of the directory that stays is noticed | 1 worker, 2 files, 2 requests, 1 edit by hand |
| credentials | no key copy stranded, shown for another key or moved unless it opens; a password change ends sessions, an administrator remains | 2 keys, 2 workers, 2 re-sealings, 3 events; 3 requests on 2 accounts, 4 initial tables, both databases |
| access | no dangling reference, taking away never widens a key, who is told is told of all, managers stay within their reach | 3 actors on 3 databases of up to 2 workspaces, 3 keys, 2 policies, 1 bundle; 3 requests |
| streams | every event has its place and number, a complete answer is the whole one, the bill is what was shown; the translated conversation is the one that was sent | 4 payloads (6 native events) on 6 kinds of surface; conversations of 6 pieces |
| dispatch | who serves passes every gate within its cap, the cache is faithful; endpoints go and come back on evidence, and do come back | 2 calls of 18 kinds over 4 registries of 5 models, cache of 1; 2 endpoints, 2 requests, 2 events, 2 pairs of thresholds |
| console | windows share no row, the right policy binds, screens are complete, resets open; verdicts are earned; advice was measured | 7 policies, 3 callers, 2 requests over 3 minutes around a term's first; 2 runs, 4 servers; 6 probed servers |

The names in PROJECT.json stand for conjunctions of named parts, each of which has its
comment where it is defined:

* `BooksAgree`, `RowsInPlace`, `PlacesExact`, `ChargesKept`: the ledgers.
* `OneRowEach` is `AtMostOnce`, `Accounted`, `ChargedAsServed`; `OneTryEach` is
  `EndpointOnce` and `SlotFollowsWork`.
* `VerdictsSound` is `HealthTypeOK`, `OneVerdict`, `EvidenceKept`; `ServedAsAllowed`
  is `GatesHold`, `CapIsTheServers`, `VectorsOfOneModel`, `HeaderIsOfTheServer`,
  `AutoIsServed`.
* `StreamIsReadable` is `NeverLost`, `NumbersFollow`, `NothingAfterTheEnd`; `AnswersAgree` is
  `AnswerIsWhole` and `StreamedAsWhole`; `BillIsTrue` is `ShownIsCharged`,
  `OutputIsNeverFree`, `EndsAsRecorded`; `ConversationKept` is `NothingDropped`,
  `CountedIsSent`, `OrderKept`, `SystemFirst`, `CallsAnsweredNext`.
* `CopiesKept` is `NoneStranded`, `ShowsItsOwn`, `RecordedIsMoved`; `AdministrationLasts` is
  `AnAdministratorRemains`, `PrintedPasswordWorks`, `OneUnasked`.
* `RowsConsistent` is `ReferencesKept` and `OneLivePolicy`; `NothingWidensUnseen` is
  `TakingAwayNeverWidens` and `LeaveTells`; `ManagersStayWithin` is `GrantsWithinReach` and
  `RightsAreTheOwners`.
* `LimitsAreClear` is `CountersApart`, `TermsTile`, `MostSpecificWins`, `ShadowedNeverBinds`,
  `ScreensAreComplete`, `ResetReopens`; `BadgesAreEarned` is `RowTellsProgress`,
  `PassIsEarned`, `AsDeclaredIsGreen`, `BadgeIsTheLatest`; `AdviceIsMeasured` is
  `NeverInvented`, `RateOutlivesTheServer`, `AdviceFitsEngine`, `OverdeclaredIsReported`.

Why these bounds are enough to be interesting.

* Slots: two requests on one slot are the smallest contention, a third one is needed for a
  refused one that comes in between; two workers for every disagreement about Redis.
* Usage: two rows besides a bad one for "its neighbour"; a batch in the air and a buffer
  that fills meanwhile for the put-back.
* Quota: one failure for a worker that uses Redis while another does not, with the ledger
  changing back and forth under a request; a minute that changes while a place is booked.
* Registry: three loads at once (watcher and two requests) for any order of publication,
  and a hand that stands for the other workers, which share nothing but the directory.
  `EveryWorkerNotices` speaks of the fingerprint alone: a file written in the middle of a load
  is `Registry_gap` below, which no property that holds can cover.
* Lifecycle: two models that fall back to each other, by way of one that has nothing to
  offer, for a circle; a backlog that one record fills.
* Dispatch: models that differ in window, cap, tokenizer, surface, tools, streaming, eyes and
  ears, so that a
  hop or a fallback to any other is refused by some gate; two calls, so that the second may
  meet the entry of the first in the cache.
* Streams: four payloads hold two calls that are interleaved, with a text between them.
  Conversations: a call, its result with a picture, words after it, and the same again.
* Vault: the way from one secret to the next, with a process that was not restarted.
  Accounts: three requests, for two at once and the consequence.
* Access: three requests are two preparations and the one that widens.
* Console: a minute at which an hour, a day, a month and a term begin.

What the instances leave out in number, the proofs of section 4 cover for the
modules that it names.

Several properties carry their exception inside, so that one instance with every
fault can check them: `OnePlaceEach` (a commit that lost its answer), `CountersExact`
and the `OverrunBounded`s (no failure so far, or no reset), `Accounted` (the three
ways around a record), `ChargedAsServed` (a caller who hung up in the queue),
`UnlessRewound`, `AnAdministratorRemains` and `OneUnasked` (`raced`), `TakingAwayNeverWidens`
(the last workspace of an owner), `NothingAfterTheEnd` (a native line that breaks after its
end).
With nothing misplaced `OverrunBounded` of MinuteQuota is the limit itself.

Every unbounded counter has a named bound: `TTL`, `MaxOutages`, `MaxFailures`,
`MaxLosses`, `MaxResets`, `LastMinute`, `MaxPending`, `MaxEdits`, `MaxEvents`, `MaxChanges`,
`MaxChunks`, `MaxNative`, `MaxPieces`, `MaxCalls`, `MaxLocal`, `MaxMinutes`, `MaxRequests`,
`Keep`, and `Targets` and `Asks` for what the admin requests may ask.  Each request of
Accounts is used once.  `Cleared` is the person alone in the runs: a reset clears the ceiling
of a key only on request.

`CHECK_DEADLOCK FALSE` stands where a finished instance has nothing left to do (all
requests over, minute, changes and failures used up).  RequestLifecycle has a `Terminated`
step instead and is checked for deadlock.

### What the code does otherwise than it says

One disagreement is a listed run (`usage_stop`).  Six more have a configuration of their own,
of one property that fails, to be run by hand:

| Configuration (module) | Property | The code, and what it says |
|---|---|---|
| Lifecycle_unclaimed (MCRequestLifecycle) | `SlotGivenBack` | a body that never starts keeps its slot until the lease expires (`api/lifecycle.py:505`, against `:499`) |
| Registry_gap (MCRegistryReload) | `FingerprintTellsTruth` | a file written during a load is taken for loaded (`registry/store.py:148`, against `:155`) |
| Registry_badfile (MCRegistryReload) | `BadFileKeepsPrevious` | an invalid file takes its model out (`registry/store.py:131`, against `:5` and `docs/RUNBOOK.md:432`) |
| Quota_ledger (MCQuota) | `GivesBackItsOwn` | a place booked in Redis is given back in the database (`core/quota.py:720`, against `:717`) |
| Access_defaults (MCAccessControl) | `DefaultsWithinReach` | the default bundles of a workspace are checked by nobody (`api/admin.py:1367`), and neither is a deleted bundle taken out of them, so a workspace's defaults contradict what it allows (against `:1341`) |
| Console_dead (MCConsole) | `DeadIsBlocked` | a server that does not answer its first question returns before `build_advice` (`core/modeltest.py:1082`), whose blocker "unreachable" (`:840`) can never appear; the verdict is "consistent" (`docs/RUNBOOK.md:182`) |

Two more are stated in Dispatch and fail: `RoutedIsServed` (a model that passes `can_serve`
may still be refused for its window, against the docstring in `core/rules.py:63`), and
`ReachedIsRecorded` (a malformed answer of a retrieval backend, and a `plan()` that raises
after a fallback, leave a request that reached a model without a usage row, against
`docs/API.md:969`).

Those that follow have no run: the properties above are stated so that they allow exactly
these.

* `RedisInFlightLimiter` may book and then raise; if the worker's own store is full,
  `acquire` answers "full, nothing booked" and the lease stays in Redis until it
  expires (`core/inflight.py:163`, against `:48`).  `SlotsComeBack` bounds the harm.
* A place booked in one minute and given back in the next is taken off the new minute
  (`core/quota.py:592`): the `Strays` of `OverrunBounded`.
* A request that overshoots in Redis stays counted until its second command; one that
  arrives in between is refused although a place has become free (`:586`, against
  `:577`): the `Passing` of `CountersExact`.
* A gate with limit 0 can answer 429 when a reset deletes the row between the lost
  INSERT and the second UPDATE (`:475`, against `:296`).
* Two checks that miss at once both seed Redis (`:678`, against `:625`): the
  `Clients - 1` of `OvercountBounded`.
* A worker that made no call during an outage does not consult the database
  afterwards (`:670`, against `:613`): the last premise of `NotHandedBack`.
* A policy whose window is changed starts its new window from zero.
* A fallback model that `plan()` refuses ends the request without a row
  (`api/lifecycle.py:259`, against `:253`): "unplanned" in `Accounted`.
* A caller who hangs up while waiting for a slot pays for a request that no backend
  saw (`api/lifecycle.py:449`): "aborted" in `ChargedAsServed`.  One who leaves with the
  last frame in hand is recorded as "aborted" as well.
* A request that failed on one machine and found the others full is not charged,
  with the reason that no backend saw it (`api/lifecycle.py:240`, `:227`).
* `tried` is emptied when a fallback model takes over (`api/openai.py:539`): the
  header of failed machines forgets them, and a backend that two aliases share can
  be handed the request again.  `EndpointOnce` speaks of endpoints, `HeaderIsOfTheServer` of
  the model that served.
* A native relay passes an early clean end on as it came; a native line that breaks after
  the backend's own closing event gets the gateway's failure behind it.
* A machine that is full and says 408 or 429 is counted as failing, although
  `is_retryable_status` says that it is "out of room" and not "unwell"
  (`core/routing.py:285`, against `:54`); so are a read timeout and the gateway's own exception
  in a relay.  Three in a row take a well machine out, until the probes bring it back: the
  "wavering" machine of EndpointHealth.
* The same answer streamed and in one piece differs in what `InOnePiece` names.  For Responses
  a call without arguments has `"{}"` in one piece (`upstream/protocol/responses.py:570`) and
  `""` in the events and in the closing output (`:876`).  For Messages an answer with nothing in
  it has one empty text block in one piece (`upstream/protocol/anthropic.py:497`), and no block
  when it is streamed.  Not in the model, since arguments have no inside there: arguments that
  are no JSON are wrapped as `_raw` in one piece (`:483`) and streamed as they are.
* In the Responses translation a thought or a text between a call and its result parts the
  call from its tool message (`Unparted`); a tool item stays open until the finish (against
  `upstream/protocol/responses.py:779`, "two items must never be open at once"); the name of
  a call that comes after its first piece is lost for Claude Code.
* Sessions: an epoch read before a password hash and written after it can take an epoch
  back, and a session of an older password with it (`UnlessRewound`).  SQLite locks no row:
  two administrators who demote each other both succeed (`api/admin.py:454` says so).  On
  PostgreSQL a change judged on a row that was no administrator's when it was read can leave
  no active administrator (`raced`).
* `quota_defaults.term_start_months` is not wired (`DEPLOYMENT.md:2667`).  A console session
  is bound by no policy of a workspace, and what `not_bound` names are keys alone.
* A test run stays "running" for ever after a crash, or when its error row cannot be written;
  `total` counts ids of no test; publishing swallows every failure, a refusal included, so a
  badge may be older than its run (`cleanly`).
* A window below about 605 tokens fails MODEL-003 though it is honest (the floor of 512);
  MODEL-006 passes a server that ignores pictures (`Able` asks nothing of it); an unreadable
  `/v1/models` fails every test that reads it, undeclared features included (against
  `core/modeltest.py:35`); a server that dies of the question about tools is advised as one
  that accepted it.
* `tune_endpoint` writes a model's file although it was deleted meanwhile
  (`api/admin.py:3632`): `set_field_in_file` cannot read it and the definition in
  memory is written, what `set_model_enabled` refuses to do (`:3545`).  That check too
  is one step before the write.
* A file with a YAML syntax error makes `load_snapshot` raise: every admin request
  answers 500, the error is in no snapshot, and a gateway that starts then does not
  come up (`registry/store.py:131`), against "A typo in a YAML file cannot take the
  gateway down" (`docs/ARCHITECTURE.md:289`).
* Deleting the last model leaves it in the snapshot until the gateway restarts, and
  the fingerprints differ for good: `Loadable` of `EveryWorkerNotices`.

### Fairness

* InFlight `FairSpec`: time passes, Redis works through its queue, a scheduled task
  runs, a coroutine whose answer is there is resumed, a backend call ends (each has a
  timeout).  Nothing obliges a caller to ask again: `Select` and `Finish` are not fair.
* UsageBuffer `FairSpec`: a flush that has begun goes on, and the loop flushes every
  two seconds.  That the database comes back is the bound `MaxOutages`.
* RequestLifecycle `FairSpec`: every await of the path has an answer, an error or a
  timeout; finalizer tasks run.  Hanging up is not fair.
* RegistryReload `FairSpec`: `asyncio.sleep` returns, a thread goes on, a handler that
  may run does.  No request and no edit is owed.
* EndpointHealth `FairSpec`: the health loop goes round and each probe has a timeout.
  Nothing is assumed of requests: `ComesBack` holds without any.  Its premise is a machine that
  is "well" for good, which fails no request and no probe any more; a wavering one may go and
  come back for ever.

The other runs check safety alone, without fairness.

## 4. Proofs

For every value of the constants that the assumptions allow, checked by TLAPS.

**InFlightProofs**, from `InFlightAssumption` (finitely many requests, positive limits below
`Ceiling`, positive `TTL`, Redis is not a worker):

* `Invariance`: `Spec => []IInv` with `IInv == TypeOK /\ HintExact /\ CleanAttempts`.
  `TypeOK` alone is not inductive: `Release` decrements the hint, which stays a natural
  number only because it counts the running requests.  `CleanAttempts` says that no
  clean-up of an earlier attempt is still under way when a request runs.
* `BooksCorrect`: `[]BooksAgree`, which adds `CeilingHolds`: booking adds one below the
  limit, everything else shrinks; a late command carries the limit it was sent with.
* `LeasesAreKept`: `LeaseOnlyAges`, from `CleanAttempts`: every task and every late
  command belongs to a request that does not run.
* `NoSlotIsLost`: `[]NothingLeftBehind`, while Redis and the workers stay up (`NoFaults`).  By
  `LeasesKnown` every lease is known to a command still late, to a request that runs or to a
  task; and a command is late only while the task that undoes it waits.
* `PermitsImplemented`: the refinement of `SlotPermits`; initial states map to initial
  states, an `Enter` to an `Enter`, every other step to a `Leave` or a stutter.

**RequestProofs**, what is recorded of a request.  The request, from `LifecycleAssumption` (no
endpoint is of two models, no model falls back to itself; the fallback chains may be of any
form and length):

* `Inductive`: `Spec => []IInv`, where `IInv` is `TypeOK`, `SlotFollowsWork` and three parts
  that say what the code keeps in its head.  `AttemptsKept`: an endpoint that was sent the
  request is the one in hand or one of those behind it, which are `tried` and *all* endpoints
  of the exhausted models (`Seen`); `ElsewhereIsSound` shows that `another_endpoint` leaves
  everything it had behind it, `EndpointIsFresh` that the one in hand is new.  `RecordsKept`:
  a finalized request has one task, or both of its entries, or was dropped.  `ChargesKept`:
  what `ChargedAsServed` will ask of the settlement is true of the task already, and a request
  that has been handed over is never back where attempts are made.
* `EachHasOneRow`, `EachIsTriedOnce`: `[]OneRowEach` and `[]OneTryEach`.
* `HeadersStayTrue`: `NoSwitchOnceOpened`, from the last part of `ChargesKept`.

The usage log (`Log`, the instance of UsageBuffer in MCUsageBuffer), from `UsageAssumption`
(`UsageKnown`):

* `RowsStayInPlace`: `[]RowsInPlace`.  It is inductive in itself: that a row is in one place
  includes that no flusher's hand holds it twice and no two hands share it, which is what a
  put-back into a full buffer and a row-by-row round over duplicates rest on.
* `LedgerImplemented`: the refinement of `UsageLedger`: each step changes fates as the ledger
  may, or leaves them.

The streams (`Stream`, the instance of StreamRelay in MCStreams), from `StreamsAssumption`
(`StreamsKnown`: the surfaces there are, chunks as a chat backend can send them, counts that
are not negative); of any number of chunks, pieces and calls:

* `StreamHolds`: `SpecBoth => []StreamInv`.  What the properties say of the reader is not
  inductive, because the adapter is ahead of it.  `Leads` reads the frames on the way one after
  the other; the invariant speaks of the reader they lead to.  While the backend is read, that
  reader has what the adapter has (`Mirrors`): an item for each index given away, the open one
  open and with the text the adapter remembers, each tool call at its index with the arguments
  so far, and no two calls at one index; and it waits for the adapter's next number
  (`Reaching`).  While the stream is closed, it has been told of an end that the usage row will
  agree with (`Ending`).  That a chunk keeps this is shown one event at a time (`EmitAdded`,
  `EmitDelta`, `EmitDone`), then for each operation of the two adapters, and for the calls of
  a chunk and the calls still open at the end by following the fold from number to number
  (`UpTo`, `FoldExists`).
* `StreamReadable` and `BillTrue`: `[]StreamIsReadable`, `[]BillIsTrue`.
* The proof corrected two definitions that left a choice open where the code makes one: a
  client that is told of an item it cannot place (`Follow`), and which of its answers `_inspect`
  of the vault gives to a copy it cannot open (`Tried`, `Reason`): alternatives of a CASE that
  overlapped.  The order in which `finish_events` takes the calls is now stated by the numbers
  of the backend (`ByCall`), as the code has it, and not by a sort.

**RoutingProofs**.  The health of endpoints, from `HealthAssumption` (thresholds between 1 and
`Keep`):

* `VerdictsAreSound`: `[]VerdictsSound`, whatever the machines do: it is about what was heard of
  an endpoint, and says nothing of whether the machine deserved it.  `EvidenceKept` is what makes it useful: the counters
  say how the list of the last reports ends, though that list forgets and they saturate.
* `FlipsAreEarned`: `FlipsOnEvidence`, from `EvidenceKept`, whatever thresholds the registry
  sets in between.

Dispatch, from `RegistriesAssumption` (registries that load and calls that pass
`validate_chat_params`; a call for "auto" is no retrieval; at least one entry in the cache), for
any number of models, endpoints, fallbacks and calls, whatever is sick or full at any choice:

* `RouteLeads`: however the rules of the models point at one another, a route ends at the
  model that was asked or at one that can serve the call, and that holds its prompt unless a
  small-prompt rule sent it there.  `CapIsBounded`: the cap given to a model is within what the
  model may write for all choices, what was wanted and the window.
* `RequestsAreServedAsAllowed`: `[]ServedAsAllowed`.  That `tried` is what the header says is
  not inductive: `DInv` adds that the machines in `past` before the last are either of models
  that are `exhausted` or exactly the `tried` ones of this model (`PastKept`), so that a
  fallback is never a model whose machines were forgotten; that the last of `past` is who
  serves, with its own cap (`Serving`); and that `AutoIsServed` is owed by refusals alone, which
  rests on `RoomFits`: who leaves the headroom of `auto` fits the window.
* `CachedAnswersAreFaithful`: `[]CacheIsFaithful`, from `CacheKept`: the key of *every* entry
  names who gave its answer, to whom and to what.  `Store` builds the key again after the
  failover; without that the entry of a fallback would carry the name of the model before.

**RegistryProofs**, from `RegistryAssumption` (finitely many workers and requests, at least one
file):

* `RegistryInvariance`: `[]TypeOK`, with `IInv == TypeOK /\ TurnsKept /\ StampsCounted`; it is
  the ground `SnapshotsKeepModels` stands on, and no run checks it.
  `TurnsKept`: who is inside a handler has the one loop of its worker, and nobody else has.
  `StampsCounted`: no more stamps were given than there were edits and requests that had their
  turn, so that a stamp never names two contents; without it `last` is not bounded.
* `SnapshotsKeepModels`: `NeverEmptied`.  Every load ends in `Publish` or `KeepPrevious`,
  whoever began it and whatever happened to the directory between its first file and its last.

**CredentialProofs**.  The vault, from `VaultAssumption` (there are workers, the secrets
differ):

* `VaultInvariance`: `Spec => []IInv` with `IInv == TypeOK /\ NoneStranded` and `JobKept` of
  each re-sealing: what it moved, resealed and recorded agree up to the one move whose
  transaction lost its answer.
* `CopiesAreKept`: `[]CopiesKept`.  A row that no survey has seen (`late`) is the exception
  inside `NoneStranded`; the code has it too.
* `MovesAreSound`: `OnlySoundCopiesMove`.  A row is opened before it is written, the write is
  compared with what was opened, and only a worker with both secrets gets that far.

The accounts, from `AccountsAssumption` (finitely many names and requests, one of two
databases, tables to start from with no session ended yet and, if anybody administers, somebody
active who does):

* `AccountsInvariance`: `SpecBoth => []AccountsInv`.  That an epoch stays within the number of
  requests needs `Epochs`: each answer raises one by one at most.  `SessionsKept` says of
  sessions *and* of the rows that requests have read that they are of epochs their account has
  had, and at its present epoch have its password: a log-in signs what it read, not what is
  there when it answers.  `Judged` ties an update to the administrators it counted: on
  PostgreSQL they are held, so no other update touches them before it is written.
  `Administered` and `MakersMeet` need each other: an account made unasked means there are
  administrators, and then no starting worker makes another.
* `AdministrationIsKept` and `SessionsStandOnThePassword`: `[]AdministrationLasts`,
  `[]UnlessRewound`.  The proof corrected `OneUnasked`: two administrators who put each other
  out (`raced`) leave none, and the next worker that starts makes a second account unasked.
  Three requests are too few to show it.

**AccessControlProofs**, from `AccessAssumption` (people have one of three roles, and the
databases to start from are typed and consistent):

* `RowsStayConsistent`: `[]RowsConsistent`.  `Good`, the same said of a database, is
  inductive: one lemma per table that a request writes alone, one each for the two requests
  that write several (`purge_api_key`, `delete_workspace`).
* `NothingIsWidened`: `NothingWidensUnseen`.  A permission is a union of what workspaces and
  bundles allow, cut down to a list, and unions of less are less.  The list is the step that
  is not monotone: an empty one is everything.  `List` asks what is written on the key, not
  what it expands to, so a bundle that is switched off only narrows; and a key that still
  works has the owner, the workspace and the bundles it had (`LiveKeysStay`), so only
  `AmendKey` writes an empty list, and that is no taking away.
* `ManagersKeepWithin`: `ManagersStayWithin`, for a request that is not an administrator's,
  one request at a time: what it writes was asked for by `_assert_may_grant`,
  `_assert_may_lift_key_list` or `_assert_may_decide_key` against the database it found.

**QuotaProofs**, from `QuotaAssumption` (finitely many requests, each with at least one gate
and no gate twice) and `LedgerAssumption` (finitely many charges, at least one, of positive
cost; at least one client):

* `QuotaInvariance`: `Spec => []IInv`.  The three parts of `PlacesExact` are not inductive
  alone.  `CountersExact` is only true while nothing failed and nobody reset, and tells
  nothing about the step after: `CountsCover` says what remains then, that a counter is never
  below what is booked in it, and that the database, where nothing fails, stays exact.
  `PlacesByGate` ties the places to the gate a request has reached and to what it still has
  to give back (`todo`), and `LeftBehind` says why a request that left may still hold one.
  `EmptyWithoutRow` and `LoserHasRow` are about the insert that two workers race for,
  `PastOnly` about a give-back that runs when its minute is over.
* `PlacesAreExact`: `[]PlacesExact`.  A deployment without Redis is included, which the runs
  are not: there a give-back takes nothing from a count of zero - in a new minute, after a
  reset, or when a stray took it before - and the place stays booked (`NothingLeft`).
* `LosersAreRefusedWhenFull`: `LoserRefusedOnlyWhenFull`, from `LoserHasRow` and the exact
  count of the database.
* `LedgerInvariance`: `SpecBoth => []LedgerInv`.  `OvercountBounded` is not inductive: a seed
  on its way is a count that is not there yet.  `Covered` adds the seeds to come: what Redis
  holds, and the database once for each check that may still seed it, is no more than was
  charged and the database once for every client but one.  `OneLedger` says that before the
  first failed call there is one ledger, `SeedKept` that a check seeds what the database held.
* `ChargesAreKept` and `QuotaIsNotHandedBack`: `[]ChargesKept`, `NotHandedBack`.
* What requests cost together is a fold, and a fold cannot be reasoned about by the induction
  theorems of the library.  It is shown to be the number of *units* (a request paired with one
  of the things it costs), for if there were a set for which it is not, there would be a
  smallest one (`SmallestSet`).

**ConsoleProofs**.  The test bench, from `BenchAssumption` (declarations that the schema lets
in - a window and an output of at least one token -, any servers) of TestBench:

* `BadgesHold`: `[]BadgesAreEarned`.  `BenchInv` says of each run: what it has found is in the
  order of the tests, none of them still to come, and a pass among it is one of the server
  that answered (`RunSound`); its row shows a prefix of that, all of it when it is done
  (`RowSound`).  `SaysSame` ties the table to the run that posted last and lost nothing; what
  keeps it is that the features of a run differ, so that no post undoes another of the same
  run.  `AsDeclaredIsGreen` is not inductive: `RunGreen` asks of the results still to be
  posted what it asks of the table.  The proof corrected two things: the prompt of MODEL-003
  is never shorter than 512 estimated tokens, so a model of a smaller window may fail it
  though it is served as declared (`SMALLEST_TESTED` in `Green`); and the cap that the gateway
  puts on what a test may write (`Granted`) was not in the model - a thinking model passes only
  if what it thinks leaves room under it, which `Matches` now says.

The probe, from `ServersAssumption` of MCConsole (`ServersKnown`: what a server counts tokens
of, and whether it talks):

* `AdviceHolds`: `[]AdviceIsMeasured`.  `ProbeInv` says of what has been found that the server
  has it (`SeenAtServer`), and by the number of the question what must have been found before
  and of what the server can have died so far (`ToldBefore`): the rate is the third question,
  so a server that dies of the fifth has told it.

The limits, from `PoliciesAssumption` of MCConsole (`PoliciesKnown` of QuotaPolicies: rows as
their schema lets them in, a key of one person and one workspace, a console session in no
workspace, a clock past its first year):

* `LimitsStayClear`: `[]LimitsAreClear`.  Two parts of it need an invariant (`PoliciesInv`).
  `CountersApart` only speaks of rows and lanes that are there; `Booked` says of *every* lane
  and kind of window that its row holds what was charged to it since the window began, and
  that no row is of a window to come.  It rests on `NamesApart` - of two kinds of window that
  begin in one minute at most one has the plain name, since whether a longer one begins too
  depends on the minute alone - and on `WindowIs`: from one minute to the next a window goes
  on or a new one begins, which for terms is `TermsTileEverywhere`, for any set of months, and
  needs that a term begins with a month.  `ResetReopens` holds because all that binds a
  request of a person is among the lanes that `binding` shows (`BindingShown`, through
  `AliasIs`: a model that no policy names is bound as a model without a name), and what is
  shown is cleared or kept by name.  The other parts say what the policies alone decide, and
  are shown of whatever policies are in force, not only in fresh states: the score of a row is
  a number that orders targets as `resolve_limits` lists them (`SpecificScores`), which is
  true because no row names both a model and a bundle.
* `LimitsBind`: `EachLimitHolds`, from `Booked`, at the step that lets a request in.

Only model-checked: liveness (`SlotsComeBack`, `EveryRowSettles`, `EveryRequestEnds`,
`EveryWorkerNotices`, `ComesBack`), which is out of the prover's
reach; and what two folds over data of any length have in common, which would take induction
over that data: that an answer is the same streamed and in one piece (`AnswersAgree`) and that
a translated conversation is the one that was sent (`ConversationKept`).

## 5. Not modelled, and why

Named in `PROJECT.json` under `components`.  In short: pure arithmetic on one request
(token estimates, prices), formatting and I/O (upstream client, catalogues, reports, browser,
offline tools).  Within modelled parts: the load that `select` compares among endpoints of
one priority, the tokens-per-minute limit, the measuring of speed (`latency.py`, `perf.py`),
sampling parameters and tool definitions of a translated request, the throttling of logins,
the cap on one's own keys across overlapping requests, a usage record that raises (`_add`
catches what a counter raises), exceptions other than `GatewayError` in `complete`, overlapping
requests in AccessControl, and the button that updates the gateway: its status is written by
a program outside (`scripts/self_update.sh`), and stays "running", with the button refusing,
if that program dies.

## 6. Plan

1. *(done)* InFlight, UsageBuffer, MinuteQuota, QuotaLedgers, RequestLifecycle,
   RegistryReload.
2. *(done)* EndpointHealth, KeyVault, Accounts, the cache and the rules (Dispatch),
   QuotaPolicies, the streams and translations, AccessControl, the test bench.
3. *(done)* Proofs of the slots, the lifecycle, the usage log, the health counters, routing
   and the cache, the registry, the key vault, the accounts, access control, and the minutes
   and ledgers of the quota, its policies, the test bench, the probe and the streams.
4. Proof still worth having: `AnswersAgree`, step by step along the stream.
5. Abstract specifications still to be stated: a quota gate as one atomic counter (for
   MinuteQuota within one minute), a request as "one row, one settlement" (for
   RequestLifecycle).
6. Modules still worth having: the order of stopping in `main.py` with the finalizers and the
   usage log together; overlapping requests in AccessControl on one workspace.
