------------------------------- MODULE Dispatch -------------------------------
(***************************************************************************)
(* Which model and which endpoint get a request, and what is remembered of *)
(* the answer: model="auto" (core/auto.py), the routing rules              *)
(* (core/rules.py), the gates (core/capability.py), the choice of an       *)
(* endpoint (core/routing.py), the failover of a request                   *)
(* (_RequestContext, lifecycle.complete, retrieval._forward) and the       *)
(* response cache (core/responsecache.py).                                 *)
(*                                                                         *)
(* A registry is a function from aliases to models.  Requests come one     *)
(* after the other: what they share is the cache and the backends.  What   *)
(* other traffic does to the backends is a choice: `sick` are the          *)
(* endpoints marked unhealthy, and a full one is met at any choice.        *)
(***************************************************************************)
EXTENDS Integers, FiniteSets, SequencesExt

CONSTANTS
    Registries,    \* the configurations
    Calls,         \* the requests that may come
    Sick,          \* sets of <<alias, name>> that health checks have marked
    Busy,          \* sets of <<alias, name>> without a free slot, as a worker sees it
    MaxCalls,      \* bound on the requests of a behaviour
    MaxLocal       \* entries of the cache of a worker

VARIABLES
    registry, sick,
    call,          \* the request at work
    phase,         \* "idle" | "chosen" | "asking" | "answered" | "failed" | "refused"
    alias,         \* requested_alias
    model,         \* alias of the model that serves: ctx.model
    endpoint,      \* its name: ctx.endpoint
    tried, exhausted,
    past,          \* the choices so far: <<alias, name, cap>>, the current one last
    reached,       \* a backend has been asked
    why,           \* reason of the route, or of the refusal
    key,           \* cache key of the request, NoKey when it has none
    answer,        \* what the caller got
    row,           \* a usage row was written
    cache,         \* entries by expiry, the first to expire first
    count          \* requests so far

vars == <<registry, sick, call, phase, alias, model, endpoint, tried, exhausted, past,
          reached, why, key, answer, row, cache, count>>

MIN_OUTPUT_IN_DOUBT == 256
HEADROOM_TOKENS == 512
NoKey == <<>>
NoAnswer == [by |-> "", weights |-> "", content |-> "", tenant |-> "",
             whole |-> FALSE, hit |-> FALSE]

AtMost(a, b) == IF a < b THEN a ELSE b
AtLeast(a, b) == IF a < b THEN b ELSE a

Retrieval(q) == q.surface = "embeddings"
Translated(q) == q.surface \in {"responses", "anthropic"}

-----------------------------------------------------------------------------
(* The gates of core/capability.py.                                        *)

\* Each model counts the prompt with its own tokenizer's rate.
PromptTokens(m, q) == q.size * m.rate

\* CONTEXT_TOLERANCE is 1.15.
Fits(m, q) == PromptTokens(m, q) * 100 <= m.context * 115

SpeaksNatively(m, q) == \E e \in ToSet(m.endpoints) : e.enabled /\ q.surface \in e.speaks

\* validate_model_capabilities, with _validate_translatable: `media` is what is not text.
\* ModelSpec makes modalities.input agree with the capabilities; no model takes video.
Capable(m, q) ==
    /\ m.chat
    /\ q.media \subseteq m.media /\ "video" \notin q.media
    /\ q.tools => m.tools
    /\ q.stream => m.streaming
    /\ q.native => SpeaksNatively(m, q)

CanServe(m, q) == m.enabled /\ q.surface \in m.surfaces /\ Capable(m, q)

EndpointSupports(e, q, protocol) ==
    /\ e.enabled
    /\ protocol \in e.speaks
    /\ q.native => protocol = q.surface
    /\ q.media \subseteq e.media

\* validate_context_budget: what to ask of the model that serves, -1 for a refusal.
\* The cap of a model is for all `n` choices together.
OutputCap(m, q) ==
    LET expected == IF q.wants = 0 THEN m.output ELSE q.wants
        ceiling == m.output \div AtLeast(q.n, 1)
        headroom == AtLeast(m.context - PromptTokens(m, q), MIN_OUTPUT_IN_DOUBT)
    IN  IF ceiling < 1 \/ ~Fits(m, q) THEN -1
        ELSE AtMost(headroom, AtMost(ceiling, AtMost(expected, m.output)))

-----------------------------------------------------------------------------
(* core/rules.py.                                                          *)

SmallPrompt(m, q) ==
    /\ m.small.target # ""
    /\ PromptTokens(m, q) < m.small.under
    /\ m.small.max = 0 \/ q.wants = 0 \/ q.wants <= m.small.max

\* small_prompt counts from the alias that was asked alone.
BySmallPrompt(models, q, hops) == Len(hops) = 1 /\ SmallPrompt(models[hops[1]], q)

\* Where the rules of the last model send the request, "" when they leave it there.
Target(models, q, hops) ==
    LET m == models[Last(hops)]
    IN  IF BySmallPrompt(models, q, hops) THEN m.small.target
        ELSE IF Fits(m, q) THEN "" ELSE m.overflow

\* One hop of resolve_route.  What leads nowhere leads nowhere the next time: the break
\* of the loop.
Hop(models, q, route) ==
    LET small == BySmallPrompt(models, q, route.hops)
        target == Target(models, q, route.hops)
    IN  IF \/ target = "" \/ target \in ToSet(route.hops)
           \/ ~CanServe(models[target], q)
           \/ ~small /\ ~Fits(models[target], q)
        THEN route
        ELSE [hops |-> Append(route.hops, target),
              why |-> IF small THEN "small-prompt" ELSE "overflow"]

\* MAX_HOPS is 4.
ResolveRoute(models, first, q) ==
    LET Hopped(route) == Hop(models, q, route)
    IN  Hopped(Hopped(Hopped(Hopped([hops |-> <<first>>, why |-> ""]))))

\* A plausible bug: a fallback was never looked at.
FallbackModelsUnchecked(models, m, q) ==
    {i \in DOMAIN models[m].fallback : models[m].fallback[i] # m}

\* The places in the list of fallbacks of those that can take the request.
FallbackModels(models, m, q) ==
    {i \in DOMAIN models[m].fallback :
        LET a == models[m].fallback[i] IN a # m /\ CanServe(models[a], q) /\ Fits(models[a], q)}

\* What the schema lets in: limits of one token and more, and one endpoint to a name.
ValidModel(m) ==
    /\ {m.context, m.output} \subseteq Nat \ {0}
    /\ {m.rate, m.small.under, m.small.max} \subseteq Nat
    /\ m.fallback \in Seq(STRING)
    /\ \A e \in ToSet(m.endpoints) : {e.name, e.weights} \subseteq STRING
    /\ \A e, f \in ToSet(m.endpoints) : e.name = f.name => e = f

\* What validate_chat_params lets in: 0 where nothing is asked for, and MAX_CHOICES.
ValidCall(q) ==
    /\ {q.size, q.wants} \subseteq Nat /\ q.n \in 1..128
    /\ {q.surface, q.tenant, q.content} \subseteq STRING

\* validate_routing: what the registry refuses to load.
ValidRouting(models) ==
    \A a \in DOMAIN models :
        LET m == models[a]
            targets == {t \in {m.overflow, m.small.target} : t # ""} \cup ToSet(m.fallback)
        IN  /\ targets \subseteq DOMAIN models \ {a}
            /\ m.overflow # "" => models[m.overflow].context > m.context

-----------------------------------------------------------------------------
(* core/auto.py: among the models the member may use.                      *)

Serves(m, q) ==
    \E e \in ToSet(m.endpoints), p \in {q.surface} \cup (IF Translated(q) THEN {"openai"} ELSE {}) :
        EndpointSupports(e, q, p)

Candidates(models, q) ==
    {a \in DOMAIN models : /\ CanServe(models[a], q)
                           /\ Serves(models[a], q)
                           /\ PromptTokens(models[a], q) + HEADROOM_TOKENS <= models[a].context}

\* _speed_key, _quality_key: without a figure to the end of the line.
Faster(m, k) == m.speed > k.speed
Better(m, k) == m.quality > k.quality \/ (m.quality = k.quality /\ Faster(m, k))

\* _weigh, in tenths: two parts of quality and one of speed, which is a share of the
\* fastest's; who has not been measured counts as the fastest.
Combined(pool, m) ==
    LET fastest == Max({k.speed : k \in pool})
        share == IF m.speed = 0 THEN 1000 ELSE (2000 * m.speed + fastest) \div (2 * fastest)
    IN  IF m.quality = 0 THEN 0 ELSE (20 * m.quality + share + 1) \div 3

Before(pool, strategy, m, k) ==
    CASE strategy = "roomiest" -> m.context > k.context
      [] strategy = "quality" -> Better(m, k)
      [] strategy = "balanced" ->
            \/ Combined(pool, m) > Combined(pool, k)
            \/ Combined(pool, m) = Combined(pool, k) /\ Faster(m, k)
      [] OTHER -> Faster(m, k)

\* Ties go by the time to the first token and the place in the registry, which are not
\* modelled: any of them may win.
Chosen(r, q) ==
    LET pool == Candidates(r.models, q)
        models == {r.models[a] : a \in pool}
    IN  {a \in pool : \A b \in pool : ~Before(models, r.strategy, r.models[b], r.models[a])}

-----------------------------------------------------------------------------
(* Router.select and the _select of the surfaces: the names one of which   *)
(* is picked, none when there is no room or no endpoint for the request.   *)

SelectOver(a, q, protocol, exclude, busy) ==
    LET compatible == {e \in ToSet(registry.models[a].endpoints) :
                          e.name \notin exclude /\ EndpointSupports(e, q, protocol)}
        healthy == {e \in compatible : <<a, e.name>> \notin sick}
        candidates == IF healthy = {} THEN compatible ELSE healthy
        room == {e \in candidates : <<a, e.name>> \notin busy}
    IN  {e.name : e \in {f \in room : \A g \in room : g.priority <= f.priority}}

Select(a, q, exclude, busy) ==
    LET native == Translated(q) /\ SpeaksNatively(registry.models[a], q)
        first == SelectOver(a, q, IF Translated(q) /\ ~native THEN "openai" ELSE q.surface,
                            exclude, busy)
    IN  IF first = {} /\ native THEN SelectOver(a, q, "openai", exclude, busy) ELSE first

Fallback(a, i) == registry.models[a].fallback[i]

\* The places of the fallbacks that have an endpoint; the first of them is asked.
Standing(a, q, exhausting, busy) ==
    {i \in FallbackModels(registry.models, a, q) :
        Fallback(a, i) \notin exhausting /\ Select(Fallback(a, i), q, {}, busy) # {}}

FirstOf(places) == {i \in places : \A j \in places : i <= j}

Endpoint(a, name) == CHOOSE e \in ToSet(registry.models[a].endpoints) : e.name = name

-----------------------------------------------------------------------------
Init ==
    /\ registry \in Registries /\ sick \in Sick
    /\ call \in Calls
    /\ phase = "idle" /\ alias = "" /\ model = "" /\ endpoint = ""
    /\ tried = {} /\ exhausted = {} /\ past = <<>> /\ reached = FALSE
    /\ why = "" /\ key = NoKey /\ answer = NoAnswer /\ row = FALSE
    /\ cache = <<>> /\ count = 0

Refuse(q, a, code) ==
    /\ call' = q /\ alias' = a /\ phase' = "refused" /\ why' = code
    /\ model' = a /\ endpoint' = "" /\ past' = <<>>

\* The request has a model and an endpoint: _RequestContext is made.
Begin(q, a, m, e, reason) ==
    /\ call' = q /\ alias' = a /\ phase' = "chosen" /\ why' = reason
    /\ model' = m /\ endpoint' = e
    /\ past' = << <<m, e, OutputCap(registry.models[m], q)>> >>

\* select_or_fall_back.
SelectOrFallBack(q, a, m, reason, busy) ==
    LET standing == Standing(m, q, {}, busy)
    IN  \/ \E e \in Select(m, q, {}, busy) : Begin(q, a, m, e, reason)
        \/ /\ Select(m, q, {}, busy) = {}
           /\ \E i \in FirstOf(standing) : \E e \in Select(Fallback(m, i), q, {}, busy) :
                Begin(q, a, Fallback(m, i), e, "fallback")
        \/ /\ Select(m, q, {}, busy) = {} /\ standing = {}
           /\ Refuse(q, a, "no endpoint")

\* The gates in their order: what was asked for must be open, who serves must be able to.
Verdict(asked, m, q) ==
    IF ~asked.enabled THEN "disabled"
    ELSE IF q.surface \notin asked.surfaces THEN "protocol"
    ELSE IF ~Retrieval(q) /\ ~Capable(m, q) THEN "capability"
    ELSE IF ~Fits(m, q) \/ (~Retrieval(q) /\ OutputCap(m, q) = -1) THEN "context"
    ELSE ""

\* run_chat and its siblings, from the model that was asked on.
Admit(q, a, busy) ==
    LET route == ResolveRoute(registry.models, a, q)
        m == Last(route.hops)
        verdict == Verdict(registry.models[a], registry.models[m], q)
    IN  \/ verdict # "" /\ Refuse(q, a, verdict)
        \/ verdict = "" /\ SelectOrFallBack(q, a, m, route.why, busy)

\* retrieval._serve: no route, no fallback, no answer to be capped.
AdmitRetrieval(q, a, busy) ==
    LET verdict == Verdict(registry.models[a], registry.models[a], q)
    IN  \/ verdict # "" /\ Refuse(q, a, verdict)
        \/ verdict = "" /\ \E e \in Select(a, q, {}, busy) : Begin(q, a, a, e, "")
        \/ verdict = "" /\ Select(a, q, {}, busy) = {} /\ Refuse(q, a, "no endpoint")

Ended == {"idle", "answered", "failed", "refused"}

Arrive ==
    /\ phase \in Ended /\ count < MaxCalls
    /\ \E q \in Calls, busy \in Busy :
         \/ /\ q.asked # "auto" /\ ~Retrieval(q)
            /\ Admit(q, q.asked, busy)
         \/ /\ Retrieval(q)
            /\ AdmitRetrieval(q, q.asked, busy)
         \/ /\ q.asked = "auto"
            /\ \/ \E a \in Chosen(registry, q) : Admit(q, a, busy)
               \/ Chosen(registry, q) = {} /\ Refuse(q, "", "nothing for auto")
    /\ tried' = {} /\ exhausted' = {} /\ reached' = FALSE /\ key' = NoKey
    /\ answer' = NoAnswer /\ row' = FALSE /\ count' = count + 1
    /\ UNCHANGED <<registry, sick, cache>>

-----------------------------------------------------------------------------
(* The response cache.                                                     *)

Weights == Endpoint(model, endpoint).weights

\* build_key, with the payload that goes to the backend: NoKey when the request is not
\* the same twice (temperature, tools, n).
BuildKey(cap) ==
    IF call.tools \/ call.n # 1 \/ ~call.same THEN NoKey
    ELSE <<call.tenant, alias, model, call.surface, Weights, cap, call.content>>

Cap == Last(past)[3]
Held(k) == {i \in DOMAIN cache : cache[i].key = k}
\* The cache is a dictionary: an entry takes the place of that of the same key.
Unheld(entries, k) ==
    IF \E i \in DOMAIN entries : entries[i].key = k
    THEN RemoveAt(entries, CHOOSE i \in DOMAIN entries : entries[i].key = k)
    ELSE entries

\* _complete_chat looks before it asks; a hit is charged like an answer.
LookUp ==
    /\ phase = "chosen"
    /\ key' = IF call.surface = "openai" /\ ~call.stream THEN BuildKey(Cap) ELSE NoKey
    /\ IF key' # NoKey /\ Held(key') # {}
       THEN /\ \E i \in Held(key') : answer' = [cache[i].value EXCEPT !.hit = TRUE]
            /\ phase' = "answered" /\ row' = TRUE
       ELSE phase' = "asking" /\ UNCHANGED <<answer, row>>
    /\ UNCHANGED <<registry, sick, call, alias, model, endpoint, tried, exhausted, past,
                   reached, why, cache, count>>

\* A plausible bug: the answer goes under the key of the request, whoever gave it.
StoreAnyway(a) ==
    IF key = NoKey \/ ~a.whole THEN cache
    ELSE Append(Unheld(IF Len(cache) >= MaxLocal THEN Tail(cache) ELSE cache, key),
                [key |-> key, value |-> a])

\* The key is built again from the payload that was sent; put makes room first.
Store(a) ==
    IF key = NoKey \/ BuildKey(Cap) # key \/ ~a.whole THEN cache
    ELSE Append(Unheld(IF Len(cache) >= MaxLocal THEN Tail(cache) ELSE cache, key),
                [key |-> key, value |-> a])

\* TTL_SECONDS have passed for the oldest entry.
Expire ==
    /\ cache # <<>>
    /\ cache' = Tail(cache)
    /\ UNCHANGED <<registry, sick, call, phase, alias, model, endpoint, tried, exhausted,
                   past, reached, why, key, answer, row, count>>

-----------------------------------------------------------------------------
(* The attempts.                                                           *)

\* What the comment at `tried` warns of: it goes on into the next model.
SwitchKeepingTried(b, e, passed) ==
    /\ model' = b /\ endpoint' = e /\ exhausted' = exhausted \cup {model} \cup passed
    /\ tried' = tried \cup {endpoint}

\* Neither this model nor those that were passed over on the way is asked again.
Switch(b, e, passed) ==
    /\ model' = b /\ endpoint' = e /\ exhausted' = exhausted \cup {model} \cup passed
    /\ tried' = {}

\* What the comment at allow_model_fallback warns of: any model will do.
MayAlwaysFallBack == TRUE

MayFallBack == ~Retrieval(call)

\* another_endpoint and retarget; `Otherwise` is what the caller does with None.
Elsewhere(busy, Otherwise) ==
    LET burned == tried \cup {endpoint}
        names == Select(model, call, burned, busy)
        all == FallbackModels(registry.models, model, call)
        standing == Standing(model, call, exhausted, busy)
    IN  \/ /\ \E e \in names : endpoint' = e
           /\ tried' = burned
           /\ UNCHANGED <<model, exhausted, phase, row>>
        \/ /\ names = {} /\ MayFallBack
           /\ \E i \in FirstOf(standing) : \E e \in Select(Fallback(model, i), call, {}, busy) :
                Switch(Fallback(model, i), e, {Fallback(model, j) : j \in {k \in all : k < i}})
           /\ UNCHANGED <<phase, row>>
        \/ /\ names = {} /\ (MayFallBack => standing = {})
           /\ tried' = burned
           /\ exhausted' = IF MayFallBack THEN exhausted \cup {Fallback(model, i) : i \in all}
                            ELSE exhausted
           /\ Otherwise
           /\ UNCHANGED <<model, endpoint>>

\* output_cap is worked out again for whoever serves now.
CapOf(m) == OutputCap(registry.models[m], call)

Retargeted == past' = IF <<model', endpoint'>> = <<model, endpoint>> THEN past
                      ELSE Append(past, <<model', endpoint', CapOf(model')>>)

Planned == Retrieval(call) \/ Cap # -1

Fail == phase' = "failed" /\ row' = TRUE

\* take_slot is refused: another worker has the last slot.
Full ==
    /\ phase = "asking" /\ Planned
    /\ \E busy \in Busy : Elsewhere(busy, Fail)
    /\ Retargeted
    /\ UNCHANGED <<registry, sick, call, alias, reached, why, key, answer, cache, count>>

\* No connection, a timeout, 408, 429 or 5xx: another machine may do better.
FailsAndMoves ==
    /\ phase = "asking" /\ Planned
    /\ reached' = TRUE
    /\ \E busy \in Busy : Elsewhere(busy, Fail)
    /\ Retargeted
    /\ UNCHANGED <<registry, sick, call, alias, why, key, answer, cache, count>>

\* A 4xx is a verdict on the request: every other backend would reach the same one.
FailsForGood ==
    /\ phase = "asking" /\ Planned
    /\ reached' = TRUE /\ Fail
    /\ UNCHANGED <<registry, sick, call, alias, model, endpoint, tried, exhausted, past, why,
                   key, answer, cache, count>>

\* plan() raises, outside the try of complete: `n` does not fit the model that serves now.
PlanRaises ==
    /\ phase = "asking" /\ ~Planned
    /\ phase' = "failed"
    /\ UNCHANGED <<registry, sick, call, alias, model, endpoint, tried, exhausted, past,
                   reached, why, key, answer, row, cache, count>>

\* retrieval._serve reads the body after the loop, and raises without a record.
Malformed ==
    /\ phase = "asking" /\ Retrieval(call)
    /\ reached' = TRUE /\ phase' = "failed"
    /\ UNCHANGED <<registry, sick, call, alias, model, endpoint, tried, exhausted, past, why,
                   key, answer, row, cache, count>>

Answers ==
    /\ phase = "asking" /\ Planned
    /\ \E whole \in BOOLEAN :
         LET a == [by |-> model, weights |-> Weights, content |-> call.content,
                   tenant |-> call.tenant, whole |-> whole, hit |-> FALSE]
         IN  answer' = a /\ cache' = Store(a)
    /\ phase' = "answered" /\ row' = TRUE /\ reached' = TRUE
    /\ UNCHANGED <<registry, sick, call, alias, model, endpoint, tried, exhausted, past, why,
                   key, count>>

Next ==
    \/ Arrive \/ LookUp \/ Expire
    \/ Full \/ FailsAndMoves \/ FailsForGood \/ PlanRaises \/ Malformed \/ Answers

Spec == Init /\ [][Next]_vars

-----------------------------------------------------------------------------
(* Properties.                                                             *)

TypeOK ==
    /\ phase \in Ended \cup {"chosen", "asking"}
    /\ phase \in {"chosen", "asking", "answered", "failed"} =>
          /\ model \in DOMAIN registry.models
          /\ endpoint \in {e.name : e \in ToSet(registry.models[model].endpoints)}
          /\ tried \subseteq {e.name : e \in ToSet(registry.models[model].endpoints)}
    /\ Len(cache) <= MaxLocal

\* Whoever ends up with a request - by its name, by auto, by a rule, by failover, by a
\* fallback of a fallback - passes every gate the model that was asked had to pass, and
\* what cannot be translated reaches only an endpoint that speaks the caller's API.
GatesHold ==
    phase = "asking" =>
        LET m == registry.models[model]
            e == Endpoint(model, endpoint)
        IN  /\ m.enabled /\ e.enabled
            /\ call.surface \in m.surfaces
            /\ ~Retrieval(call) => Capable(m, call)
            /\ Fits(m, call)
            /\ call.media \subseteq e.media
            /\ call.native => call.surface \in e.speaks

\* The answer that is asked for never exceeds what the model that serves now may write
\* for all choices together, nor what was wanted, nor its window - up to the 256 tokens
\* that are asked for where the estimate says the window is full.
CapIsTheServers ==
    phase = "asking" /\ Planned /\ ~Retrieval(call) =>
        LET m == registry.models[model]
        IN  /\ Cap >= 1
            /\ Cap * call.n <= m.output
            /\ call.wants > 0 => Cap <= call.wants
            /\ Cap <= MIN_OUTPUT_IN_DOUBT \/ Cap + PromptTokens(m, call) <= m.context

\* An answer out of the cache is the answer the chosen endpoint would have been asked
\* for: of the same weights, the same model, the same tenant and the same question, and
\* it is a whole one.
CacheIsFaithful ==
    answer.hit => /\ answer.by = model /\ answer.weights = Weights
                  /\ answer.tenant = call.tenant /\ answer.content = call.content
                  /\ answer.whole

\* Vectors of two models cannot be compared: retrieval never leaves the model it was
\* asked for, however many machines fail.
VectorsOfOneModel ==
    Retrieval(call) => \A i \in DOMAIN past : past[i][1] = call.asked

\* What x-litegate-failed-over says is true of the model that served: exactly its
\* machines that had the request before this one.
HeaderIsOfTheServer ==
    phase = "answered" /\ ~answer.hit =>
        tried = {past[i][2] : i \in {j \in 1..(Len(past) - 1) : past[j][1] = model}}

\* A model that auto chose is not one the next gate refuses, unless a small-prompt rule
\* sends the request on or its choices are too many.
AutoIsServed ==
    phase = "refused" /\ call.asked = "auto" =>
        \/ why \in {"nothing for auto", "no endpoint"}
        \/ why = "context" /\ (\E a \in DOMAIN registry.models :
              SmallPrompt(registry.models[a], call) \/ registry.models[a].output < call.n)

\* rules.py: "a model that passes here cannot then be refused by them".
RoutedIsServed ==
    phase = "refused" /\ why = "context" /\ ~Retrieval(call) =>
        OutputCap(registry.models[alias], call) = -1

\* docs/API.md: only "a request refused before it reached a model ... has no usage row".
ReachedIsRecorded ==
    phase \in {"answered", "failed"} /\ reached => row

\* Who serves was allowed to: every gate of the model that serves, its output cap, the one
\* model of a retrieval, a header that names its own machines, and auto's choice among
\* those that can.
ServedAsAllowed ==
    /\ TypeOK /\ GatesHold /\ CapIsTheServers
    /\ VectorsOfOneModel /\ HeaderIsOfTheServer /\ AutoIsServed

=============================================================================
