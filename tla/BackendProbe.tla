----------------------------- MODULE BackendProbe ------------------------------
(***************************************************************************)
(* What the gateway asks of a model server before a person declares what   *)
(* it can do, and when it advises about one that is declared:              *)
(* probe_backend, measure_wide_rate and build_advice of core/modeltest.py, *)
(* and the comparison with the registry in api/admin.py (model_advice).    *)
(*                                                                         *)
(* The questions come one after the other, the server may die at any of    *)
(* them, and the one about tools is known to have killed it.  Nothing is   *)
(* written: the probe ends with what it has found and what it advises.     *)
(***************************************************************************)
EXTENDS Integers, Sequences

CONSTANTS
    Servers,       \* what may be probed
    Claims,        \* what the registry may say of it
    NoNumber       \* None

VARIABLES
    server,        \* the one that is probed
    claim,
    alive,         \* it has not died yet
    asked,         \* questions asked so far
    found,         \* ProbeResult
    killedBy       \* ghost: the question at which it died

\* How a server counts tokens for others, and whether it talks.
ServersKnown ==
    \A s \in Servers :
        /\ s.tokenize \in {"prompt", "content", "none"}
        /\ s.chat \in BOOLEAN /\ s.stream \in BOOLEAN

probe == <<server, claim, alive, asked, found, killedBy>>

\* A plausible bug, and what it was once: the rate is measured last.
QuestionsRateLast == <<"models", "props", "chat", "stream", "tools", "vision", "messages", "rate">>

Questions == <<"models", "props", "rate", "chat", "stream", "tools", "vision", "messages">>

Nothing ==
    [reachable |-> FALSE, context |-> NoNumber, slots |-> NoNumber, rate |-> NoNumber,
     can |-> [c \in {} |-> FALSE], separated |-> FALSE, narrates |-> FALSE,
     anthropic |-> FALSE, notes |-> {}]

Init ==
    /\ server \in Servers /\ claim \in Claims
    /\ alive \in BOOLEAN /\ asked = 0 /\ found = Nothing
    /\ killedBy = IF alive THEN "nothing" ELSE "models"

Known(n) == n # NoNumber /\ n > 0

\* The window of one request: /props goes before what /v1/models has said.
Context(f) == IF Known(server.perSlot) THEN server.perSlot ELSE f.context

\* measure_wide_rate: both dialects of /tokenize, and only a number one can believe.
Believable(rate) == 20 <= rate /\ rate <= 2000    \* in hundredths of a character
Rate ==
    IF server.tokenize \in {"prompt", "content"} /\ Believable(server.rate)
    THEN server.rate ELSE NoNumber

With(f, capability, yes) ==
    [f EXCEPT !.can = [c \in DOMAIN @ \cup {capability} |-> IF c = capability THEN yes ELSE @[c]]]
Note(f, notes) == [f EXCEPT !.notes = @ \cup notes]

\* What a rejected request for tools, or with an image, says of itself.
ToolNotes ==
    CASE server.tools = "no flag" -> {"tool choice requires"}
      [] server.tools = "leaks" -> {"expected parser"}
      [] OTHER -> {}
ImageNotes == IF server.image = "no projector" THEN {"mmproj"} ELSE {}

\* 200 alone is not enough.
ToolsCalled == server.tools = "calls"

\* What one question adds, when it is answered.
Answered(question, f) ==
    CASE question = "models" -> [f EXCEPT !.reachable = TRUE, !.context = server.listed]
      [] question = "props" -> [f EXCEPT !.context = Context(f),
                                         !.slots = IF Known(server.slots) THEN server.slots ELSE @]
      [] question = "rate" -> [f EXCEPT !.rate = Rate]
      [] question = "chat" ->
           [With(f, "chat", server.chat) EXCEPT
              !.separated = server.chat /\ server.thinking = "separated",
              !.narrates = server.chat /\ server.thinking = "inside"]
      [] question = "stream" -> With(f, "streaming", server.stream)
      [] question = "tools" -> Note(With(f, "tools", ToolsCalled), ToolNotes)
      [] question = "vision" ->
           Note(With(f, "vision", server.image = "taken"), ImageNotes)
      [] OTHER -> [f EXCEPT !.anthropic = server.messages = "native"]

\* And when it is not.
Unanswered(question, f) ==
    CASE question = "chat" -> With(f, "chat", FALSE)
      [] question = "stream" -> With(f, "streaming", FALSE)
      [] question = "tools" -> With(f, "tools", FALSE)
      [] question = "vision" -> With(f, "vision", FALSE)
      [] OTHER -> f

\* The first question decides whether there are others.
Finished == asked = Len(Questions) \/ (asked >= 1 /\ ~found.reachable)

\* One question; the server may die of it, or just before it.
AskNext ==
    /\ ~Finished
    /\ LET question == Questions[asked + 1]
       IN  \E answers \in BOOLEAN, dies \in BOOLEAN :
             /\ answers \/ dies => alive
             /\ ~answers /\ alive => dies
             /\ question = "tools" /\ server.fragile => ~answers
             /\ found' = IF answers THEN Answered(question, found) ELSE Unanswered(question, found)
             /\ alive' = (alive /\ ~dies)
             /\ killedBy' = IF dies THEN question ELSE killedBy
    /\ asked' = asked + 1
    /\ UNCHANGED <<server, claim>>

Next == AskNext

Spec == Init /\ [][Next]_probe

-----------------------------------------------------------------------------
(* What is said of it.                                                       *)

\* _normalize_kind, or _detect_server_kind.
ServerKind ==
    IF claim.kind # "" THEN claim.kind
    ELSE IF "tool choice requires" \in found.notes THEN "vllm"
    ELSE IF "mmproj" \in found.notes THEN "llamacpp" ELSE "unknown"

Can(capability) == capability \in DOMAIN found.can /\ found.can[capability]

ToolAdvice ==
    IF Can("tools") THEN {}
    ELSE IF ServerKind = "llamacpp" THEN {"jinja_missing"}
    ELSE IF "tool choice requires" \in found.notes THEN {"tools_flag_missing"}
    ELSE IF "expected parser" \in found.notes THEN {"tool_parser_mismatch"}
    ELSE {"tools_unavailable"}

\* build_advice: the issues it names.
BuildAdvice ==
    IF ~found.reachable THEN {"unreachable"}
    ELSE ToolAdvice
         \cup {i \in {"projector_missing"} : "mmproj" \in found.notes}
         \cup {i \in {"reasoning_not_separated"} : found.narrates /\ ~found.separated}
         \cup {i \in {"context_unknown"} : found.context = NoNumber}
         \cup {i \in {"anthropic_via_translation"} : Can("tools") /\ ~found.anthropic}
         \cup {i \in {"anthropic_native"} : found.anthropic}

\* A server that does not answer the first question ends the probe before that.
Advice == IF found.reachable THEN BuildAdvice ELSE {}

\* model_advice: what does not apply to what the model is for is left out.
Relevant ==
    Advice \ ({i \in {"projector_missing"} : "vision" \notin claim.can}
              \cup {i \in {"anthropic_via_translation"} : claim.anthropic})

\* What the registry claims and the server does not do, or the reverse.
Drift ==
    {c \in DOMAIN found.can : (c \in claim.can) # found.can[c]}
    \cup {c \in {"context"} : Known(found.context) /\ claim.context > found.context}
    \cup {c \in {"slots"} : Known(found.slots) /\ claim.slots > found.slots}

Verdict == IF "unreachable" \in Relevant THEN "blocked" ELSE IF Drift # {} THEN "drift" ELSE "consistent"

-----------------------------------------------------------------------------
(* Properties.                                                             *)

ProbeTypeOK ==
    /\ server \in Servers /\ claim \in Claims
    /\ asked \in 0..Len(Questions) /\ killedBy \in {"nothing"} \cup {Questions[i] : i \in 1..Len(Questions)}
    /\ DOMAIN found.can \subseteq {"chat", "streaming", "tools", "vision"}

Done == Finished /\ found.reachable
\* It lived to be asked of its windows.
Told == Done /\ killedBy \notin {"models", "props"}

\* What may be declared from a probe has been seen: no capability that the server does not
\* have, and a window that one request can have, not the one that all slots share.
NeverInvented ==
    /\ Can("tools") => server.tools = "calls"
    /\ Can("vision") => server.image = "taken"
    /\ found.anthropic => server.messages = "native"
    /\ Told /\ Known(server.perSlot) => found.context = server.perSlot

\* A server that dies of the question about tools has told the rate of its tokenizer before.
RateOutlivesTheServer ==
    Done /\ killedBy = "tools" /\ server.tokenize # "none" /\ Believable(server.rate) =>
        found.rate = server.rate

\* A server whose kind is registered gets no advice that is for another engine.
AdviceFitsEngine ==
    Done /\ claim.kind # "" =>
        IF claim.kind = "llamacpp"
        THEN {"tools_flag_missing", "tool_parser_mismatch", "tools_unavailable"} \cap Advice = {}
        ELSE "jinja_missing" \notin Advice

\* A window declared wider than what one request gets is reported, and no other.
OverdeclaredIsReported ==
    Told => LET real == IF Known(server.perSlot) THEN server.perSlot ELSE server.listed
            IN  "context" \in Drift <=> Known(real) /\ claim.context > real

\* A server that does not answer is a blocker, as build_advice has it ("The backend did not
\* answer /v1/models."), and nothing to call consistent with the registry.
DeadIsBlocked == Finished /\ ~found.reachable => Verdict = "blocked"

\* What is advised was measured: nothing is invented, the rate survives the server, the
\* advice is for this engine, and what is declared too high is reported.
AdviceIsMeasured ==
    /\ ProbeTypeOK /\ NeverInvented /\ RateOutlivesTheServer
    /\ AdviceFitsEngine /\ OverdeclaredIsReported

=============================================================================
