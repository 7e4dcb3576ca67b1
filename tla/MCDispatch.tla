------------------------------ MODULE MCDispatch ------------------------------
(* The health of two endpoints, and the requests that meet the rules and gates *)
(* of five models in four configurations, side by side: in a behaviour one of *)
(* the two moves and the other stands still. *)
EXTENDS EndpointHealth

CONSTANTS Parts, Registries, Calls, Sick, Busy, MaxCalls, MaxLocal

VARIABLES
    part,
    registry, sick, call, phase, alias, model, endpoint, tried, exhausted, past,
    reached, why, key, answer, row, cache, count

D == INSTANCE Dispatch

\* What the registry lets in, and calls that ask for a model that is there: for "auto"
\* only where text is wanted.
ASSUME RegistriesAssumption ==
    /\ \A r \in Registries :
          /\ D!ValidRouting(r.models)
          /\ \A a \in DOMAIN r.models : a \in STRING /\ D!ValidModel(r.models[a])
    /\ \A q \in Calls :
          /\ D!ValidCall(q)
          /\ q.asked = "auto" => ~D!Retrieval(q)
          /\ q.asked # "auto" => \A r \in Registries : q.asked \in DOMAIN r.models
    /\ MaxCalls \in Nat /\ MaxLocal \in Nat \ {0}

request == <<registry, sick, call, phase, alias, model, endpoint, tried, exhausted, past,
             reached, why, key, answer, row, cache, count>>
all == <<part, vars, request>>

MCEndpoint(name, speaks, priority, weights) ==
    [name |-> name, enabled |-> TRUE, speaks |-> speaks, media |-> {},
     priority |-> priority, weights |-> weights]

NoSmall == [target |-> "", under |-> 0, max |-> 0]

MCModel(context, output, rate, fallback, endpoints) ==
    [enabled |-> TRUE, surfaces |-> {"openai", "responses"}, chat |-> TRUE,
     media |-> {}, tools |-> TRUE, streaming |-> TRUE,
     context |-> context, output |-> output, rate |-> rate, speed |-> 0, quality |-> 0,
     small |-> NoSmall, overflow |-> "", fallback |-> fallback, endpoints |-> endpoints]

\* coding has two machines, one of which speaks Responses, and a spare of other weights
\* on the second; mini is fast, says little, has no tools, does not stream and
\* counts twice as many tokens; long is wide; vision alone sees pictures and hears, on one
\* machine; embed is for retrieval.
Coding ==
    [MCModel(8000, 4000, 1, <<"mini", "long">>,
        <<MCEndpoint("e1", {"openai", "responses"}, 2, "w"),
          MCEndpoint("e2", {"openai"}, 1, "w-q4")>>) EXCEPT !.overflow = "long", !.quality = 80]
Mini ==
    [MCModel(3000, 100, 2, <<"coding">>, <<MCEndpoint("e1", {"openai"}, 1, "mini")>>)
        EXCEPT !.tools = FALSE, !.streaming = FALSE, !.speed = 90, !.quality = 20]
Long ==
    [MCModel(20000, 2000, 1, <<"coding", "mini">>,
        <<MCEndpoint("e1", {"openai"}, 1, "long"), MCEndpoint("e2", {"openai"}, 1, "long")>>)
        EXCEPT !.speed = 30]
Vision ==
    [MCModel(6000, 2000, 1, <<"coding">>,
        <<[MCEndpoint("e1", {"openai"}, 2, "vision") EXCEPT !.media = {"image", "audio"}],
          MCEndpoint("e2", {"openai"}, 1, "vision")>>)
        EXCEPT !.media = {"image", "audio"}, !.speed = 60, !.quality = 50]
Embed ==
    [MCModel(3000, 1, 1, <<"coding">>,
        <<MCEndpoint("e1", {"embeddings"}, 1, "bge"), MCEndpoint("e2", {"embeddings"}, 1, "bge")>>)
        EXCEPT !.surfaces = {"embeddings"}, !.chat = FALSE]

Fleet == [a \in {"coding", "mini", "long", "vision", "embed"} |->
             CASE a = "coding" -> Coding [] a = "mini" -> Mini [] a = "long" -> Long
               [] a = "vision" -> Vision [] OTHER -> Embed]

\* As it is; small prompts go to mini, and long embeds too, auto by both; auto by quality
\* with coding closed to chat and mini falling over to long; auto by room.
MCRegistries ==
    {[models |-> Fleet, strategy |-> "fastest"],
     [models |-> [Fleet EXCEPT !["coding"].small =
                     [target |-> "mini", under |-> 2500, max |-> 500],
                               !["long"].small =
                     [target |-> "coding", under |-> 1500, max |-> 0],
                               !["long"].surfaces = @ \cup {"embeddings"},
                               !["long"].endpoints[2].speaks = @ \cup {"embeddings"},
                               !["embed"].fallback = <<"long">>],
      strategy |-> "balanced"],
     [models |-> [Fleet EXCEPT !["coding"].surfaces = {"responses"},
                               !["mini"].overflow = "long", !["vision"].enabled = FALSE],
      strategy |-> "quality"],
     [models |-> Fleet, strategy |-> "roomiest"]}

Ask == [surface |-> "openai", asked |-> "coding", media |-> {}, tools |-> FALSE,
        native |-> FALSE, size |-> 1000, wants |-> 0, n |-> 1, stream |-> FALSE, same |-> TRUE,
        content |-> "c1", tenant |-> "t1"]

MCCalls ==
    {Ask,
     [Ask EXCEPT !.tenant = "t2"],
     [Ask EXCEPT !.content = "c2", !.wants = 400],
     [Ask EXCEPT !.asked = "long"],
     [Ask EXCEPT !.size = 2000, !.stream = TRUE],
     [Ask EXCEPT !.size = 8500, !.stream = TRUE],
     [Ask EXCEPT !.size = 12000, !.wants = 3000],
     [Ask EXCEPT !.n = 120],
     [Ask EXCEPT !.n = 3, !.asked = "auto"],
     [Ask EXCEPT !.asked = "auto", !.tools = TRUE],
     [Ask EXCEPT !.asked = "auto", !.size = 2800],
     [Ask EXCEPT !.asked = "auto", !.media = {"image"}, !.stream = TRUE],
     [Ask EXCEPT !.asked = "vision", !.media = {"image", "audio"}],
     [Ask EXCEPT !.surface = "responses", !.tools = TRUE],
     [Ask EXCEPT !.surface = "responses", !.native = TRUE],
     [Ask EXCEPT !.asked = "vision", !.media = {"video"}],
     [Ask EXCEPT !.surface = "embeddings", !.asked = "embed"],
     [Ask EXCEPT !.surface = "embeddings", !.asked = "embed", !.size = 4000]}

MCSick == {{}, {<<"coding", "e1">>, <<"long", "e2">>}, {<<"coding", "e1">>, <<"coding", "e2">>}}
MCBusy == {{}, {<<"coding", "e1">>, <<"coding", "e2">>}, {<<"mini", "e1">>, <<"long", "e1">>}}

MCThresholds == {[bad |-> 3, good |-> 2], [bad |-> 1, good |-> 1]}

\* What stands still stands in one place.
InitBoth ==
    /\ part \in Parts
    /\ Init /\ D!Init
    /\ part # "health" => gateway = [bad |-> 1, good |-> 1]
    /\ part # "dispatch" => sick = {} /\ call = Ask /\ registry.strategy = "fastest"

HealthMoves == part = "health" /\ Next /\ UNCHANGED <<part, request>>
DispatchMoves == part = "dispatch" /\ D!Next /\ UNCHANGED <<part, vars>>

NextBoth == HealthMoves \/ DispatchMoves

\* The fairness of FairSpec, where health moves.
SpecBoth ==
    /\ InitBoth /\ [][NextBoth]_all
    /\ WF_all(part = "health" /\ ProbeAll /\ UNCHANGED <<part, request>>)
    /\ \A e \in Endpoints :
          WF_all(part = "health" /\ ProbeAnswers(e) /\ UNCHANGED <<part, request>>)

-----------------------------------------------------------------------------
\* The properties of Dispatch under their names.
ServedAsAllowed == D!ServedAsAllowed
CacheIsFaithful == D!CacheIsFaithful
=============================================================================
