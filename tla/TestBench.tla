------------------------------ MODULE TestBench -------------------------------
(***************************************************************************)
(* The compatibility suite: MODEL-001 to MODEL-010 of core/modeltest.py    *)
(* (ModelTestSuite), the runs that the console starts in the background    *)
(* and a terminal starts by hand, and the table of verdicts behind the     *)
(* badge of a model (api/admin.py).                                        *)
(*                                                                         *)
(* A test is named by its feature.  What it finds depends on what the      *)
(* registry declares of the model, which the suite reads once per run, and *)
(* on what the backend does; both may change between two tests.            *)
(***************************************************************************)
EXTENDS Integers, FiniteSets, SequencesExt

CONSTANTS
    Runs,          \* runs of the suite
    Terminals,     \* the runs among them that have no row: scripts/model_test_suite.py
    Selections,    \* run -> what it may be asked for: sets of tests, {} for all
    Declared,      \* what the registry may say of the model
    Backends,      \* what may stand behind it
    Faults,        \* of "row lost", "post lost", "crash"
    MaxEvents      \* bound on edits of the registry, changes of the backend and faults

\* What the registry's schema and the suite let through, and what a server may be like.
ASSUME BenchAssumption ==
    /\ \A m \in Declared :
         /\ m.listed \in BOOLEAN /\ m.tools \in BOOLEAN /\ m.vision \in BOOLEAN
         /\ m.reasoning \in BOOLEAN /\ m.anthropic \in BOOLEAN
         /\ m.window \in Nat \ {0} /\ m.output \in Nat \ {0}
    /\ \A b \in Backends :
         /\ b.up \in BOOLEAN /\ b.slow \in BOOLEAN /\ b.usage \in BOOLEAN
         /\ b.takesResults \in BOOLEAN
         /\ b.window \in Nat /\ b.perSentence \in Nat /\ b.thinks \in Nat
         /\ b.chunks \in Nat /\ b.calls \in Nat
    /\ MaxEvents \in Nat

VARIABLES
    declared,      \* the model in the registry
    backend,       \* the server behind it
    runs,          \* phase, tests left to do, what was read of the registry, results
    rows,          \* ModelTestRun: status, total, completed, results
    verdicts,      \* ModelCompatibility: feature -> status
    cleanly,       \* ghost: runs all of whose posts arrived, and no other's since
    events

bench == <<declared, backend, runs, rows, verdicts, cleanly, events>>

ALL_TESTS == <<"chat", "streaming", "long_context", "tools", "multi_tool", "vision",
               "vision_text", "agent_loop", "claude_code", "concurrent">>
RequiresTools == {"tools", "multi_tool", "agent_loop"}
RequiresVision == {"vision", "vision_text"}
Unread == [listed |-> FALSE]

\* `only or ALL_TESTS`, by their places in the suite; an id of no test selects nothing.
Plan(only) == {i \in DOMAIN ALL_TESTS : only = {} \/ ALL_TESTS[i] \in only}

-----------------------------------------------------------------------------
(* The tests.  caps is what the run has read of the registry; the gateway    *)
(* itself goes by what is declared when the request arrives.                 *)

REASONING_BUDGET == 1024
AtMost(a, b) == IF a <= b THEN a ELSE b
AtLeast(a, b) == IF a >= b THEN a ELSE b

\* _budget: room to think, for a model that says it thinks.
Budget(tokens, caps) ==
    IF caps.reasoning THEN AtMost(AtLeast(tokens, REASONING_BUDGET), caps.output) ELSE tokens

\* validate_context_budget: the gateway's own cap on what a test asks for, by the model's
\* output and by what a short prompt leaves of the window.
ShortPrompt == 16
MIN_OUTPUT_IN_DOUBT == 256
RoomToAnswer(model) ==
    AtMost(model.output, AtLeast(model.window - ShortPrompt, MIN_OUTPUT_IN_DOUBT))
Granted(budget) == AtMost(budget, RoomToAnswer(declared))

\* A plausible bug, and what it was once: HTTP 200 is an answer.
AnswersAnything(budget) == backend.up

\* Thinking comes out of the same budget as the answer.
Answers(budget) == backend.up /\ backend.thinks < Granted(budget)

\* LONG_CONTEXT_FILL of the window, as the suite believes tokens to be.
LongPrompt(window) == AtLeast((60 * window) \div 100, 512)

SentencesOf(target) == target \div 10
CHARS_PER_SENTENCE == 45
CHARS_PER_TOKEN == 4

\* What the gateway's context gate thinks of the prompt, and what the backend counts.
Estimated(n) == (n * CHARS_PER_SENTENCE) \div CHARS_PER_TOKEN
Counted(n) == n * backend.perSentence

\* CONTEXT_TOLERANCE for the gateway's guess; the backend counts the answer's room as well.
Accepted(n) ==
    /\ 100 * Estimated(n) <= 115 * declared.window
    /\ Counted(n) + Granted(32) <= backend.window

\* A pass only when the backend itself has counted more than half of the window.
LongContext(caps) ==
    LET n == SentencesOf(LongPrompt(caps.window))
    IN  IF backend.slow THEN "degraded"
        ELSE IF ~Accepted(n) THEN "fail"
        ELSE IF backend.usage /\ 2 * Counted(n) > caps.window THEN "pass" ELSE "degraded"

Graded(good, better) == IF ~good THEN "fail" ELSE IF better THEN "pass" ELSE "degraded"

\* MODEL-009: only where the Anthropic surface is open; with tools, they have to be taken too.
ClaudeCode(caps) ==
    IF ~declared.anthropic THEN "not_tested"
    ELSE Graded(Answers(Budget(128, caps)) /\ (caps.tools => declared.tools), caps.tools)

\* MODEL-010: a refusal with a reason is not a failure.
FiveAtOnce ==
    IF ~backend.up \/ backend.five = "broken" THEN "fail"
    ELSE IF backend.five = "served" THEN "pass" ELSE "degraded"

Verdict(test, caps) ==
    CASE test = "chat" -> Graded(Answers(Budget(16, caps)), TRUE)
      [] test = "streaming" -> Graded(backend.up, backend.chunks >= 2)
      [] test = "long_context" -> IF backend.up THEN LongContext(caps) ELSE "fail"
      [] test = "tools" -> Graded(backend.up /\ declared.tools, backend.calls >= 1)
      [] test = "multi_tool" -> Graded(backend.up /\ declared.tools, backend.calls >= 2)
      [] test = "vision" ->
           Graded(backend.up /\ declared.vision /\ backend.image # "refused", TRUE)
      [] test = "vision_text" ->
           Graded(backend.up /\ declared.vision /\ backend.image # "refused",
                  backend.image = "seen")
      [] test = "agent_loop" ->
           Graded(backend.up /\ declared.tools /\ (backend.calls >= 1 => backend.takesResults),
                  backend.calls >= 1)
      [] test = "claude_code" -> ClaudeCode(caps)
      [] OTHER -> FiveAtOnce

\* _skip_reason.
NotApplicable(test, caps) ==
    \/ test \in RequiresTools /\ ~caps.tools
    \/ test \in RequiresVision /\ ~caps.vision

-----------------------------------------------------------------------------
(* The driver.                                                               *)

NoRun == [phase |-> "none", left |-> {}, caps |-> Unread, results |-> <<>>, posted |-> 0]
NoRow == [status |-> "none", total |-> 0, completed |-> 0, results |-> <<>>]

Strikes(fault) == fault \in Faults /\ events < MaxEvents /\ events' = events + 1

Init ==
    /\ declared \in Declared /\ backend \in Backends
    /\ runs = [r \in Runs |-> NoRun]
    /\ rows = [r \in Runs |-> NoRow]
    /\ verdicts = <<>> /\ cleanly = {} /\ events = 0

\* start_model_test, or the command in a terminal.
Start(r) ==
    /\ runs[r].phase = "none"
    /\ \E only \in Selections[r] :
         /\ runs' = [runs EXCEPT ![r] = [NoRun EXCEPT !.phase = "testing", !.left = Plan(only)]]
         /\ rows' = IF r \in Terminals THEN rows
                    ELSE [rows EXCEPT ![r] = [NoRow EXCEPT !.status = "running",
                            !.total = Cardinality(IF only = {} THEN ToSet(ALL_TESTS) ELSE only)]]
    /\ UNCHANGED <<declared, backend, verdicts, cleanly, events>>

\* Which tests look at the declared capabilities, that are then kept for the run.
Reads(test) == test \notin {"streaming", "concurrent"}

Result(test, caps) ==
    [feature |-> test, caps |-> caps, of |-> declared, by |-> backend,
     status |-> IF Reads(test) /\ caps = Unread THEN "fail"
                ELSE IF NotApplicable(test, caps) THEN "not_tested"
                ELSE Verdict(test, caps)]

Shown(results) == [i \in DOMAIN results |-> [feature |-> results[i].feature,
                                             status |-> results[i].status]]

Progress(r, results) ==
    [rows EXCEPT ![r].completed = Len(results), ![r].results = Shown(results)]

\* The row of a run whose bookkeeping has raised: "error", if that can be written.
Failed(r) == {rows, [rows EXCEPT ![r].status = "error"]}

\* One test of run(), and on_result.
Test(r) ==
    /\ runs[r].phase = "testing" /\ runs[r].left # {}
    /\ LET at == CHOOSE i \in runs[r].left : \A j \in runs[r].left : i <= j
           test == ALL_TESTS[at]
           caps == IF runs[r].caps = Unread /\ Reads(test) /\ declared.listed
                   THEN declared ELSE runs[r].caps
           results == Append(runs[r].results, Result(test, caps))
       IN  \/ /\ runs' = [runs EXCEPT ![r].left = @ \ {at}, ![r].caps = caps,
                                      ![r].results = results]
              /\ rows' = IF r \in Terminals THEN rows ELSE Progress(r, results)
              /\ UNCHANGED events
           \/ /\ Strikes("row lost") /\ r \notin Terminals
              /\ runs' = [runs EXCEPT ![r].phase = "over"]
              /\ rows' \in Failed(r)
    /\ UNCHANGED <<declared, backend, verdicts, cleanly>>

\* One result of publish(), and record_compatibility; what does not arrive is not missed.
Post(r) ==
    /\ runs[r].phase = "testing" /\ runs[r].left = {} /\ runs[r].posted < Len(runs[r].results)
    /\ LET result == runs[r].results[runs[r].posted + 1]
       IN  \/ /\ verdicts' = [f \in DOMAIN verdicts \cup {result.feature} |->
                                IF f = result.feature THEN result.status ELSE verdicts[f]]
              /\ cleanly' = IF runs[r].posted = 0 THEN {r} ELSE cleanly \cap {r}
              /\ UNCHANGED events
           \/ /\ Strikes("post lost")
              /\ verdicts' = verdicts /\ cleanly' = cleanly \ {r}
    /\ runs' = [runs EXCEPT ![r].posted = @ + 1]
    /\ UNCHANGED <<declared, backend, rows>>

\* The end of _execute_test_run.
Finish(r) ==
    /\ runs[r].phase = "testing" /\ runs[r].left = {} /\ runs[r].posted = Len(runs[r].results)
    /\ runs' = [runs EXCEPT ![r].phase = "over"]
    /\ \/ /\ rows' = IF r \in Terminals THEN rows
                     ELSE [Progress(r, runs[r].results) EXCEPT ![r].status = "done"]
          /\ UNCHANGED events
       \/ Strikes("row lost") /\ r \notin Terminals /\ rows' \in Failed(r)
    /\ UNCHANGED <<declared, backend, verdicts, cleanly>>

\* The worker, or the terminal, goes away.
Crash(r) ==
    /\ "crash" \in Faults /\ runs[r].phase = "testing"
    /\ runs' = [runs EXCEPT ![r].phase = "over"]
    /\ UNCHANGED <<declared, backend, rows, verdicts, cleanly, events>>

\* The model is edited, or its server is started otherwise.
Change ==
    /\ events < MaxEvents /\ events' = events + 1
    /\ \/ declared' \in Declared \ {declared} /\ UNCHANGED backend
       \/ backend' \in Backends \ {backend} /\ UNCHANGED declared
    /\ UNCHANGED <<runs, rows, verdicts, cleanly>>

Next ==
    \/ \E r \in Runs : Start(r) \/ Test(r) \/ Post(r) \/ Finish(r) \/ Crash(r)
    \/ Change

Spec == Init /\ [][Next]_bench

\* get_compatibility.
Badge ==
    LET said == {verdicts[f] : f \in DOMAIN verdicts}
        passed == {f \in DOMAIN verdicts : verdicts[f] = "pass"}
    IN  IF "fail" \in said THEN "DEGRADED"
        ELSE IF {"chat", "streaming"} \subseteq passed THEN "READY" ELSE "NOT READY"

-----------------------------------------------------------------------------
(* Properties.                                                             *)

Statuses == {"pass", "fail", "degraded", "not_tested"}

BenchTypeOK ==
    /\ declared \in Declared /\ backend \in Backends /\ cleanly \subseteq Runs
    /\ \A f \in DOMAIN verdicts : f \in ToSet(ALL_TESTS) /\ verdicts[f] \in Statuses
    /\ \A r \in Runs :
         /\ runs[r].posted <= Len(runs[r].results)
         /\ rows[r].status \in {"none", "running", "done", "error"}

\* A row that is polled shows, in order, what the tests have found so far; "done" says that
\* every selected test has been run and offered to the table of verdicts.
RowTellsProgress ==
    \A r \in Runs \ Terminals :
        LET row == rows[r]
        IN  /\ row.completed = Len(row.results)
            /\ IsPrefix(row.results, Shown(runs[r].results))
            /\ row.status = "done" =>
                 /\ runs[r].left = {} /\ runs[r].posted = Len(runs[r].results)
                 /\ row.results = Shown(runs[r].results)

\* What a client of the model would find, whatever budget the test had.
Able(feature, server, model, caps) ==
    /\ server.up
    /\ feature \in {"chat", "claude_code"} => server.thinks < model.output
    /\ feature = "long_context" => 2 * server.window > caps.window
    /\ feature \in {"tools", "agent_loop"} => server.calls >= 1
    /\ feature = "agent_loop" => server.takesResults
    /\ feature = "multi_tool" => server.calls >= 2
    /\ feature = "vision_text" => server.image = "seen"

\* A pass is earned by the server that answered: no green label for a model that never says
\* a word, nor for a window declared twice as wide as the server's.
PassIsEarned ==
    \A r \in Runs : \A i \in DOMAIN runs[r].results :
        LET result == runs[r].results[i]
        IN  result.status = "pass" => Able(result.feature, result.by, result.of, result.caps)

\* The server does all that is declared of it, and tokens are about what they are taken for.
Matches(server, model) ==
    /\ server.up /\ ~server.slow /\ server.usage /\ server.five = "served"
    /\ server.window >= model.window /\ server.perSentence \in 9..11 /\ server.chunks >= 2
    /\ server.thinks > 0 =>
         model.reasoning /\ server.thinks < AtMost(REASONING_BUDGET, RoomToAnswer(model))
    /\ model.tools => server.calls >= 2 /\ server.takesResults
    /\ model.vision => server.image = "seen"

\* The long prompt is never shorter than 512 tokens, however small the window: 51 sentences,
\* of eleven tokens at most, and room for an answer.
SMALLEST_TESTED == 51 * 11 + 32

Green(test, status) ==
    \/ status \in {"pass", "not_tested"}
    \/ test = "claude_code" /\ ~declared.tools /\ status = "degraded"
    \/ test = "long_context" /\ declared.window < SMALLEST_TESTED

\* A model that is declared as it is served is green: what it does not declare is not
\* tested, and never a failure.
AsDeclaredIsGreen ==
    events = 0 /\ declared.listed /\ Matches(backend, declared) =>
        \A f \in DOMAIN verdicts : Green(f, verdicts[f])

\* When all that a run has found has arrived and nobody has posted since, the table says
\* what the run says, and no failure of an earlier run is left on one of its tests.
BadgeIsTheLatest ==
    \A r \in cleanly :
        /\ \A i \in 1..runs[r].posted :
             LET result == runs[r].results[i]
             IN  result.feature \in DOMAIN verdicts /\ verdicts[result.feature] = result.status
        /\ runs[r].phase = "over" /\ runs[r].posted = Len(ALL_TESTS) =>
             (Badge = "DEGRADED" <=> \E i \in DOMAIN runs[r].results : runs[r].results[i].status = "fail")

\* A badge is earned: rows tell true progress, a pass stands on a server that can do it, a
\* server that does as declared fails nothing, and a whole publication leaves no old verdict.
BadgesAreEarned ==
    /\ BenchTypeOK /\ RowTellsProgress
    /\ PassIsEarned /\ AsDeclaredIsGreen /\ BadgeIsTheLatest

=============================================================================
