------------------------------ MODULE MCConsole -------------------------------
(* What the console tells its administrators: which limits bind whom, what    *)
(* the compatibility suite has found, and what a probe of a server advises,   *)
(* side by side: in a behaviour one of the three moves and the others stand   *)
(* still.                                                                     *)
EXTENDS TestBench

CONSTANTS
    Parts,
    Rows, Books, Callers, Models, BundleModels, Default, TermStarts, Calendars, FirstMinute,
    Slots, MaxMinutes, MaxRequests, MaxEdits, MaxResets,
    Servers, Claims, NoNumber

VARIABLES
    part,
    inForce, open, live, now, counters, flight, bound, used, reset, requests, edits, resets,
    server, claim, alive, asked, found, killedBy

Q == INSTANCE QuotaPolicies
P == INSTANCE BackendProbe

\* A policy is one that its schema lets in, and a key is of one person and one workspace.
ASSUME PoliciesAssumption == Q!PoliciesKnown

\* A server answers /tokenize in one of two dialects or not at all.
ASSUME ServersAssumption == P!ServersKnown

policies ==
    <<inForce, open, live, now, counters, flight, bound, used, reset, requests, edits, resets>>
questions == <<server, claim, alive, asked, found, killedBy>>
all == <<part, bench, policies, questions>>

-----------------------------------------------------------------------------
(* Policies.  Ann holds a key of the school, with two ceilings, and one of     *)
(* her own; ben uses the console.  It begins a minute before a term does.      *)

Policy(user, space, key, model, bundle, window, max, minute) ==
    [user |-> user, space |-> space, key |-> key, model |-> model, bundle |-> bundle,
     window |-> window, max |-> max, minute |-> minute]

null == "null"
MCRows == <<
    Policy(null, null, null, null, null, "day", 2, 0),
    Policy(null, null, null, "large", null, "hour", 1, 0),
    Policy(null, "school", null, null, null, "month", 2, 1),
    Policy("ann", null, null, null, "both", "hour", 2, 2),
    Policy(null, "school", null, null, null, "hour", 1, 0),
    Policy(null, null, "k1", null, null, "hour", 2, 2),
    Policy(null, null, "k1", null, null, "term", 1, 0)>>

MCBooks == {1..7, {2, 3, 6, 7}}

MCCallers == {[who |-> "ann", key |-> "k1", space |-> "school"],
              [who |-> "ann", key |-> "k2", space |-> null],
              [who |-> "ben", key |-> null, space |-> null]}
MCBundles == [both |-> {"small", "large"}]
MCDefault == [window |-> "day", max |-> 3]
MCTermStarts == {1, 6, 8}
MCCalendars == {{}, {13}, {1}, {12}, {3, 9}, {2, 5, 11}}
MCModels == {"small", "large"}
MCFirst == (12 * 8) + (5 * 8) - 1

-----------------------------------------------------------------------------
(* The suite.                                                                *)

\* Of the registry: a model that does everything; one that thinks, without tools and eyes
\* and with a small window; one that the credential of the run cannot see.
Capable ==
    [listed |-> TRUE, tools |-> TRUE, vision |-> TRUE, reasoning |-> FALSE, anthropic |-> TRUE,
     window |-> 8000, output |-> 2000]
MCDeclared ==
    {Capable,
     [Capable EXCEPT !.tools = FALSE, !.vision = FALSE, !.reasoning = TRUE, !.window = 1000],
     [Capable EXCEPT !.listed = FALSE, !.anthropic = FALSE]}

\* Servers: one that does everything; half the window, an endless thinker, blind; one that
\* thinks for a while and has neither tools nor projector; none at all.
Server ==
    [up |-> TRUE, slow |-> FALSE, usage |-> TRUE, window |-> 8000, perSentence |-> 10,
     thinks |-> 0, chunks |-> 2, calls |-> 2, takesResults |-> TRUE, image |-> "seen",
     five |-> "served"]
MCBackends ==
    {Server,
     [Server EXCEPT !.window = 4000, !.thinks = 3000, !.calls = 1, !.image = "ignored",
                    !.five = "throttled"],
     [Server EXCEPT !.thinks = 500, !.perSentence = 9, !.calls = 0, !.image = "refused"],
     [Server EXCEPT !.up = FALSE]}

\* The console runs the whole suite; a terminal one test.
MCSelections == [r \in Runs |-> IF r \in Terminals THEN {{"chat"}} ELSE {{}}]

-----------------------------------------------------------------------------
(* The probe: servers of two engines, sound and not, and what is claimed of them. *)

Vllm ==
    [listed |-> 8000, perSlot |-> NoNumber, slots |-> NoNumber, tokenize |-> "prompt",
     rate |-> 250, chat |-> TRUE, stream |-> TRUE, thinking |-> "separated",
     tools |-> "calls", image |-> "taken", messages |-> "none", fragile |-> FALSE]
Llama ==
    [Vllm EXCEPT !.perSlot = 4000, !.slots = 2, !.tokenize = "content", !.rate = 180,
                 !.image = "no projector", !.tools = "silent"]

MCServers ==
    {Vllm,
     [Vllm EXCEPT !.tools = "no flag", !.fragile = TRUE, !.messages = "native"],
     [Vllm EXCEPT !.tools = "leaks", !.thinking = "inside", !.rate = 50800,
                  !.messages = "openai-shaped"],
     Llama,
     [Llama EXCEPT !.tools = "calls", !.fragile = TRUE],
     [Llama EXCEPT !.listed = NoNumber, !.perSlot = 0, !.slots = 0, !.tokenize = "none",
                   !.tools = "no flag"]}

Claim ==
    [can |-> {"chat", "streaming", "tools", "vision"}, context |-> 8000, slots |-> 8,
     anthropic |-> FALSE, kind |-> ""]
MCClaims ==
    {Claim,
     [Claim EXCEPT !.kind = "llamacpp", !.can = {"chat", "streaming"}, !.anthropic = TRUE],
     [Claim EXCEPT !.kind = "vllm", !.context = 4000, !.slots = 2]}

-----------------------------------------------------------------------------
\* What stands still stands in one place.
InitAll ==
    /\ part \in Parts
    /\ Init /\ Q!Init /\ P!Init
    /\ part # "suite" => declared = Capable /\ backend = Server
    /\ part # "policies" => inForce = 1..7
    /\ part # "probe" => server = Vllm /\ claim = Claim /\ alive

NextAll ==
    \/ part = "suite" /\ Next /\ UNCHANGED <<part, policies, questions>>
    \/ part = "policies" /\ Q!Next /\ UNCHANGED <<part, bench, questions>>
    \/ part = "probe" /\ P!Next /\ UNCHANGED <<part, bench, policies>>

SpecAll == InitAll /\ [][NextAll]_all

-----------------------------------------------------------------------------
\* The properties of QuotaPolicies and BackendProbe under their names.
LimitsAreClear == part = "policies" => Q!LimitsAreClear
EachLimitHolds == Q!EachLimitHolds
AdviceIsMeasured == P!AdviceIsMeasured
DeadIsBlocked == P!DeadIsBlocked
=============================================================================
