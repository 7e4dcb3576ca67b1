---------------------------- MODULE QuotaPolicies -----------------------------
(***************************************************************************)
(* Which limits bind a request, which counters it is charged to, and what  *)
(* the console says and does about them: the resolution half of            *)
(* core/quota.py (QuotaService), its calendar, and the reset of a person's *)
(* quota in api/admin.py.                                                  *)
(*                                                                         *)
(* A policy names any of a person, a workspace, a key, a model and a       *)
(* bundle.  The stores behind the counters, with their faults, are         *)
(* MinuteQuota and QuotaLedgers; here a counter is a number, and what is   *)
(* counted is requests.  A minute is the unit of time, and windows are as  *)
(* short as they can be while each still holds two of the next smaller.    *)
(***************************************************************************)
EXTENDS Integers, FiniteSets, Sequences

CONSTANTS
    Rows,          \* every policy of the installation, oldest first
    Books,         \* sets of positions in Rows: those in force when a behaviour begins
    Callers,       \* [who, key, space]: the keys, and console sessions without one
    Models,
    BundleModels,  \* bundle -> the models in it
    Default,       \* quota_defaults: [window, max]
    TermStarts,    \* DEFAULT_TERM_START_MONTHS
    Calendars,     \* other sets of months, for TermsTile
    FirstMinute,   \* when the behaviour begins
    Slots,         \* requests in flight at once
    MaxMinutes, MaxRequests, MaxEdits, MaxResets     \* bounds

VARIABLES
    inForce,       \* positions in Rows that are enabled and not expired
    open,          \* bundles that are enabled
    live,          \* callers whose key has been neither revoked nor expired
    now,           \* the minute
    counters,      \* name of the row, which holds the start of its window -> requests
    flight,        \* requests between admit and record
    bound,         \* ghost: the limits that bound each of them when it was let in
    used,          \* ghost: <<subject, window>> -> requests since it began or was reset
    reset,         \* ghost: the last command, if it was a reset
    requests, edits, resets

vars == <<inForce, open, live, now, counters, flight, bound, used, reset, requests, edits, resets>>

\* A column that names nothing, and the key and the workspace of a console session.
Null == "null"
Names(x) == x # Null

At(f, k) == IF k \in DOMAIN f THEN f[k] ELSE 0
OneMore(f, K) == [k \in DOMAIN f \cup K |-> At(f, k) + (IF k \in K THEN 1 ELSE 0)]
Without(f, K) == [k \in DOMAIN f \ K |-> f[k]]
LeastOf(S) == CHOOSE x \in S : \A y \in S : x <= y
MostOf(S) == CHOOSE x \in S : \A y \in S : x >= y

-----------------------------------------------------------------------------
(* The calendar.                                                           *)

WINDOW_KINDS == <<"minute", "hour", "day", "month", "term">>
PerMonth == 8
Length == [minute |-> 1, hour |-> 2, day |-> 4, month |-> PerMonth]

\* _term_bounds, in months since year 0: the term that month `mo` is in.
TermBounds(starts, mo) ==
    LET given == starts \cap 1..12
        months == IF given = {} THEN {1} ELSE given
        year == mo \div 12
        month == (mo % 12) + 1
        begins == {m \in months : m <= month}
        first == IF begins = {} THEN MostOf(months) ELSE MostOf(begins)
        firstYear == IF begins = {} THEN year - 1 ELSE year
        later == {m \in months : m > first}
        last == IF later = {} THEN LeastOf(months) ELSE LeastOf(later)
        lastYear == IF later = {} THEN firstYear + 1 ELSE firstYear
    IN  <<12 * firstYear + first - 1, 12 * lastYear + last - 1>>

TermOf == [mo \in 0..(FirstMinute + MaxMinutes) \div PerMonth |-> TermBounds(TermStarts, mo)[1]]

\* window_bounds: where the window of a minute begins.
StartOf(window, t) ==
    IF window = "term" THEN PerMonth * TermOf[t \div PerMonth]
    ELSE t - (t % Length[window])

\* A plausible bug, and what it was once: the kind of the window is not in the name.
CounterKeyKindless(subject, window, start) == <<subject, "plain", start>>

\* A longer window begins in the same minute.
LongerBegins ==
    [i \in DOMAIN WINDOW_KINDS |-> [start \in 0..FirstMinute + MaxMinutes |->
        \E j \in DOMAIN WINDOW_KINDS : j > i /\ StartOf(WINDOW_KINDS[j], start) = start]]
Place == [minute |-> 1, hour |-> 2, day |-> 3, month |-> 4, term |-> 5]

\* The longest window that begins in a minute has the plain name.
CounterKey(subject, window, start) ==
    IF LongerBegins[Place[window]][start] THEN <<subject, window, start>>
    ELSE <<subject, "plain", start>>

Name(lane, t) == CounterKey(lane[1], lane[2], StartOf(lane[2], t))
Count(subject, window) == At(counters, Name(<<subject, window>>, now))

\* One request more in the row of each of these lanes, and two where two of them share one.
Charged(lanes) ==
    [k \in DOMAIN counters \cup {Name(l, now) : l \in lanes} |->
        At(counters, k) + Cardinality({l \in lanes : Name(l, now) = k})]

-----------------------------------------------------------------------------
(* Which policy binds a request.                                           *)

Bundle(b) == IF b \in open THEN BundleModels[b] ELSE {}

Applies(p, who, space, model) ==
    /\ ~Names(p.key)
    /\ Names(p.user) => p.user = who
    /\ Names(p.space) => p.space = space
    /\ Names(p.model) => p.model = model
    /\ Names(p.bundle) => model \in Bundle(p.bundle)

Score(p) ==
    (IF Names(p.user) THEN 8 ELSE 0) + (IF Names(p.space) THEN 4 ELSE 0)
    + (IF Names(p.model) THEN 2 ELSE IF Names(p.bundle) THEN 1 ELSE 0)

\* _winner: the first of the highest score in the order of their creation, 0 for none.
Winner(who, space, model) ==
    LET applying == {i \in inForce : Applies(Rows[i], who, space, model)}
        best == {i \in applying : \A j \in applying : Score(Rows[j]) <= Score(Rows[i])}
    IN  IF best = {} THEN 0 ELSE LeastOf(best)

TargetOf(p) == <<p.user, p.space, p.key, p.model, p.bundle>>

\* What the list of policies calls not effective.
Shadowed ==
    {i \in inForce : ~Names(Rows[i].key) /\
        \E j \in inForce : j < i /\ TargetOf(Rows[j]) = TargetOf(Rows[i])}

\* subject_key and key_subject.
SubjectKey(who, p) ==
    <<who, p.space, p.model, IF Names(p.model) THEN Null ELSE p.bundle>>
KeySubject(key) == <<"key", key>>

Unnamed == [space |-> Null, model |-> Null, bundle |-> Null]

LimitsOf(i, who) ==
    IF i = 0
    THEN [subject |-> SubjectKey(who, Unnamed), window |-> Default.window,
          max |-> Default.max, minute |-> 0, policy |-> 0, key |-> Null]
    ELSE [subject |-> SubjectKey(who, Rows[i]), window |-> Rows[i].window,
          max |-> Rows[i].max, minute |-> Rows[i].minute, policy |-> i, key |-> Null]

CeilingOf(i) ==
    [subject |-> KeySubject(Rows[i].key), window |-> Rows[i].window, max |-> Rows[i].max,
     minute |-> Rows[i].minute, policy |-> i, key |-> Rows[i].key]

\* resolve_key_limits: a ceiling is there to limit, and each is enforced.
Ceilings(key) == {CeilingOf(i) : i \in {j \in inForce : Names(key) /\ Rows[j].key = key}}

ResolveLimits(c, model) == LimitsOf(Winner(c.who, c.space, model), c.who)
Binding(c, model) == {ResolveLimits(c, model)} \cup Ceilings(c.key)

-----------------------------------------------------------------------------
(* The screens: every set of limits that requests of a person can be under. *)

KeysOf(who) == {c \in live : c.who = who /\ Names(c.key)}
Aliases ==
    {Null} \cup UNION {IF Names(Rows[i].model) THEN {Rows[i].model}
                     ELSE IF Names(Rows[i].bundle) THEN Bundle(Rows[i].bundle) ELSE {} :
                     i \in {j \in inForce : ~Names(Rows[j].key)}}

\* binding() without only_key, as the console asks it.
Lanes(who) ==
    {LimitsOf(Winner(who, s, a), who) : s \in {Null} \cup {c.space : c \in KeysOf(who)},
                                        a \in Aliases}
    \cup UNION {Ceilings(c.key) : c \in KeysOf(who)}

\* binding() with only_key, as /v1/me asks it.
LanesOfKey(c) ==
    {LimitsOf(Winner(c.who, c.space, a), c.who) : a \in Aliases}
    \cup UNION {Ceilings(k.key) : k \in {k \in KeysOf(c.who) : k.key = c.key}}

-----------------------------------------------------------------------------
\* What _policy_target and the schema let through, and that the clock starts in the second
\* year or later.
Periods == {"hour", "day", "month", "term"}
PoliciesKnown ==
    /\ FirstMinute \in Nat /\ FirstMinute >= 12 * PerMonth /\ MaxMinutes \in Nat
    /\ DOMAIN Rows \subseteq Nat \ {0}
    /\ \A i \in DOMAIN Rows :
         /\ Rows[i].window \in Periods /\ Rows[i].max \in Nat /\ Rows[i].minute \in Nat
         /\ ~Names(Rows[i].model) \/ ~Names(Rows[i].bundle)
    /\ Default.window \in Periods /\ Default.max \in Nat
    /\ Books \subseteq SUBSET DOMAIN Rows
    /\ \A b \in DOMAIN BundleModels : Null \notin BundleModels[b]
    /\ \A c, d \in Callers : c.key = d.key /\ Names(c.key) => c = d
    /\ \A c \in Callers : Names(c.key) \/ ~Names(c.space)

Idle == [caller |-> Null, model |-> Null, windows |-> {}]
NoReset == [who |-> Null, kept |-> {}]

Init ==
    /\ inForce \in Books
    /\ open = DOMAIN BundleModels
    /\ live = Callers
    /\ now = FirstMinute
    /\ counters = <<>> /\ used = <<>>
    /\ flight = [s \in Slots |-> Idle] /\ bound = [s \in Slots |-> {}]
    /\ reset = NoReset
    /\ requests = 0 /\ edits = 0 /\ resets = 0

\* _check_subject.
Within(limits) ==
    /\ limits.minute = 0 \/ Count(limits.subject, "minute") < limits.minute
    /\ limits.max = 0 \/ Count(limits.subject, limits.window) < limits.max

\* Who is counted by the minute: a subject, and the least of its limits.
Gates(c, model) ==
    {[subject |-> s, least |-> LeastOf({l.minute : l \in {k \in Binding(c, model) :
                                            k.subject = s /\ k.minute > 0}})] :
     s \in {l.subject : l \in {k \in Binding(c, model) : k.minute > 0}}}

\* A plausible bug: the charge names the windows of the first ceiling alone.
ChargeOfOne(c, model) ==
    LET limits == ResolveLimits(c, model)
        first == {l \in Ceilings(c.key) : \A k \in Ceilings(c.key) : l.policy <= k.policy}
    IN  {<<l.subject, l.window>> : l \in {limits} \cup first}

Charge(c, model) == {<<l.subject, l.window>> : l \in Binding(c, model)}

\* resolve_limits, check, resolve_key_limits, check_key and admit: the request is counted
\* in the minute it comes, and carries the names of the windows it will be counted in.
Ask(s) ==
    /\ flight[s] = Idle /\ requests < MaxRequests
    /\ \E c \in live, model \in Models :
         LET gates == Gates(c, model)
             minutes == {<<g.subject, "minute">> : g \in gates}
         IN  /\ \A l \in Binding(c, model) : Within(l)
             /\ \A g \in gates : Count(g.subject, "minute") < g.least
             /\ counters' = Charged(minutes)
             /\ used' = OneMore(used, minutes)
             /\ flight' = [flight EXCEPT ![s] =
                            [caller |-> c, model |-> model, windows |-> Charge(c, model)]]
             /\ bound' = [bound EXCEPT ![s] =
                            {<<l.subject, l.window>> : l \in Binding(c, model)}]
    /\ requests' = requests + 1 /\ reset' = NoReset
    /\ UNCHANGED <<inForce, open, live, now, edits, resets>>

\* record: into the windows of the charge, whatever the policies say by now.
Record(s) ==
    /\ flight[s] # Idle
    /\ counters' = Charged(flight[s].windows)
    /\ used' = OneMore(used, bound[s])
    /\ flight' = [flight EXCEPT ![s] = Idle] /\ bound' = [bound EXCEPT ![s] = {}]
    /\ reset' = NoReset
    /\ UNCHANGED <<inForce, open, live, now, requests, edits, resets>>

LanesToClear(who, withKeys) == {l \in Lanes(who) : ~Names(l.key) \/ withKeys}

\* reset_person; what is not cleared is reported, with whether it is exhausted.
ResetPerson ==
    /\ resets < MaxResets
    /\ \E who \in {c.who : c \in Callers}, withKeys \in BOOLEAN :
         LET clear == LanesToClear(who, withKeys)
             gone == {<<l.subject, l.window>> : l \in clear}
                     \cup {<<l.subject, "minute">> : l \in {k \in clear : k.minute > 0}}
         IN  /\ counters' = Without(counters, {Name(l, now) : l \in gone})
             /\ used' = Without(used, gone)
             /\ reset' = [who |-> who, kept |-> Lanes(who) \ clear]
    /\ resets' = resets + 1
    /\ UNCHANGED <<inForce, open, live, now, flight, bound, requests, edits>>

\* Policies are added, switched off, or expire; so are bundles and keys.
Edit ==
    /\ edits < MaxEdits /\ edits' = edits + 1
    /\ \/ \E i \in DOMAIN Rows :
            inForce' = (inForce \ {i}) \cup ({i} \ inForce) /\ UNCHANGED <<open, live>>
       \/ \E b \in DOMAIN BundleModels :
            open' = (open \ {b}) \cup ({b} \ open) /\ UNCHANGED <<inForce, live>>
       \/ \E c \in live :
            Names(c.key) /\ live' = live \ {c} /\ UNCHANGED <<inForce, open>>
    /\ reset' = NoReset
    /\ UNCHANGED <<now, counters, flight, bound, used, requests, resets>>

\* A row whose window is over is never read again, and is left out here.
Tick ==
    /\ now < FirstMinute + MaxMinutes
    /\ now' = now + 1
    /\ counters' = Without(counters, {k \in DOMAIN counters :
          ~\E i \in DOMAIN WINDOW_KINDS : StartOf(WINDOW_KINDS[i], now + 1) = k[3]})
    /\ used' = Without(used, {l \in DOMAIN used : StartOf(l[2], now + 1) = now + 1})
    /\ reset' = NoReset
    /\ UNCHANGED <<inForce, open, live, flight, bound, requests, edits, resets>>

Next ==
    \/ \E s \in Slots : Ask(s) \/ Record(s)
    \/ ResetPerson \/ Edit \/ Tick

Spec == Init /\ [][Next]_vars

-----------------------------------------------------------------------------
(* Properties.  What follows from the policies alone is asked once for each set of them. *)

Fresh == requests = 0 /\ resets = 0 /\ now = FirstMinute

TypeOK ==
    /\ inForce \subseteq DOMAIN Rows /\ open \subseteq DOMAIN BundleModels
    /\ live \subseteq Callers
    /\ \A k \in DOMAIN counters : counters[k] \in Nat \ {0}
    /\ \A l \in DOMAIN used : used[l] \in Nat \ {0}

\* Two windows never share a row, at whatever minute they begin together: a counter holds
\* what was charged to its subject and its kind of window, no more and no less.
CountersApart ==
    \A l \in DOMAIN used \cup
             {<<k[1], WINDOW_KINDS[i]>> : k \in DOMAIN counters, i \in DOMAIN WINDOW_KINDS} :
        Count(l[1], l[2]) = At(used, l)

\* A request is let in only below every limit that binds it: that of the policy which
\* wins, and each ceiling of the key in its own window.
EachLimitHolds ==
    [][\A s \in Slots : flight[s] = Idle /\ flight'[s] # Idle =>
         LET c == flight'[s].caller
             ceilings == {CeilingOf(i) : i \in {j \in inForce : Names(c.key) /\ Rows[j].key = c.key}}
         IN  \A l \in ceilings \cup {ResolveLimits(c, flight'[s].model)} :
               l.max = 0 \/ At(used, <<l.subject, l.window>>) < l.max]_vars

\* A more specific policy goes before a broader one - person, then workspace, then model,
\* then bundle, as resolve_limits lists them - and of two for the same target the older.
MoreSpecific(p, q) ==
    LET A == <<Names(p.user), Names(p.space), Names(p.model), Names(p.bundle)>>
        B == <<Names(q.user), Names(q.space), Names(q.model), Names(q.bundle)>>
    IN  \E i \in 1..4 : A[i] /\ ~B[i] /\ \A j \in 1..(i - 1) : A[j] = B[j]

MostSpecificWins ==
    Fresh => \A c \in Callers, m \in Models :
        LET w == Winner(c.who, c.space, m)
        IN  \A i \in inForce : Applies(Rows[i], c.who, c.space, m) =>
              /\ w # 0 /\ ~MoreSpecific(Rows[i], Rows[w])
              /\ TargetOf(Rows[i]) = TargetOf(Rows[w]) => w <= i

\* A policy that the console calls shadowed binds no request of anybody.
ShadowedNeverBinds ==
    Fresh => \A c \in Callers, m \in Models \cup {Null} : Winner(c.who, c.space, m) \notin Shadowed

\* The console and /v1/me, which work from a book read once, show every set of limits that
\* the requests of a person can meet.
ScreensAreComplete ==
    Fresh => \A who \in {c.who : c \in live} :
        LET console == Lanes(who)
        IN  \A c \in {d \in live : d.who = who} :
              LET me == LanesOfKey(c)
              IN  \A m \in Models : Binding(c, m) \subseteq console \cap me

\* After a reset the person is let in again, by any key and for any model; who is not has
\* been told which ceiling of which key is still full.
ResetReopens ==
    Names(reset.who) =>
        \A c \in {d \in live : d.who = reset.who}, m \in Models :
            \A l \in Binding(c, m) : Within(l) \/ (l \in reset.kept /\ l.key = c.key)

TilesEverywhere ==
    \A starts \in Calendars \cup {TermStarts}, mo \in 12..35 :
        LET term == TermBounds(starts, mo)
        IN  /\ term[1] <= mo /\ mo < term[2]
            /\ TermBounds(starts, term[2])[1] = term[2]
            /\ TermBounds(starts, term[2] - 1)[1] = term[1]

\* Terms tile the calendar, whatever months they begin on, also across the new year: each
\* month is inside its term, and the next term begins where that one ends.
TermsTile == Fresh => TilesEverywhere

\* Policies, counters and screens, together: windows share no row and tile the calendar,
\* the most specific policy binds and a shadowed one never, the screens show every limit a
\* request can meet, and a reset opens what it does not name.
LimitsAreClear ==
    /\ TypeOK /\ CountersApart /\ TermsTile
    /\ MostSpecificWins /\ ShadowedNeverBinds
    /\ ScreensAreComplete /\ ResetReopens

=============================================================================
