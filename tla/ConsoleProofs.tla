---------------------------- MODULE ConsoleProofs ----------------------------
(***************************************************************************)
(* Proofs about what the console says.                                     *)
(***************************************************************************)
EXTENDS MCConsole, FiniteSetTheorems, WellFoundedInduction, TLAPS

-----------------------------------------------------------------------------
(* The probe of a server.                                                  *)

Abilities == {"chat", "streaming", "tools", "vision"}

\* The record of what was found, over the values of its fields.
FoundOver(C, S, R, K, N) ==
    [reachable : BOOLEAN, context : C, slots : S, rate : R, can : K,
     separated : BOOLEAN, narrates : BOOLEAN, anthropic : BOOLEAN, notes : N]

Texts == {"tool choice requires", "expected parser", "mmproj"}
TextSets == SUBSET Texts
Tables == UNION {[D -> BOOLEAN] : D \in SUBSET Abilities}

\* What a probe can have found at this server.
Windows == {NoNumber, server.listed, server.perSlot}
SlotCounts == {NoNumber, server.slots}
Rates == {NoNumber, server.rate}
Findings == FoundOver(Windows, SlotCounts, Rates, Tables, TextSets)

\* The window of one request.
RealWindow == IF P!Known(server.perSlot) THEN server.perSlot ELSE server.listed

\* A capability that was found is one that the server has.
ToolsSeen(can) == "tools" \in DOMAIN can /\ can["tools"] = TRUE => server.tools = "calls"
VisionSeen(can) == "vision" \in DOMAIN can /\ can["vision"] = TRUE => server.image = "taken"
NativeSeen(anthropic) == anthropic = TRUE => server.messages = "native"
SeenAtServer(f) == ToolsSeen(f.can) /\ VisionSeen(f.can) /\ NativeSeen(f.anthropic)

\* When the server died says what it has told before; the tokenizer is asked third.
ToldBefore ==
    /\ alive <=> killedBy = "nothing"
    /\ asked = 0 => found.reachable = FALSE
    /\ asked <= 1 => killedBy \in {"nothing", "models"}
    /\ asked <= 2 => killedBy \in {"nothing", "models", "props"}
    /\ asked = 1 /\ found.reachable = TRUE => found.context = server.listed
    /\ asked >= 2 /\ found.reachable = TRUE /\ killedBy \notin {"models", "props"} =>
         found.context = RealWindow
    /\ asked >= 3 /\ found.reachable = TRUE /\ killedBy \notin {"models", "props", "rate"} =>
         found.rate = P!Rate

ProbeInv ==
    /\ server \in Servers /\ claim \in Claims
    /\ alive \in BOOLEAN /\ asked \in 0..8
    /\ killedBy \in {"nothing", "models", "props", "rate", "chat", "stream", "tools", "vision", "messages"}
    /\ found \in Findings
    /\ SeenAtServer(found) /\ ToldBefore

\* The eight questions, by number.
LEMMA QuestionsAre ==
    /\ Len(P!Questions) = 8
    /\ P!Questions[1] = "models" /\ P!Questions[2] = "props" /\ P!Questions[3] = "rate"
    /\ P!Questions[4] = "chat" /\ P!Questions[5] = "stream" /\ P!Questions[6] = "tools"
    /\ P!Questions[7] = "vision" /\ P!Questions[8] = "messages"
BY DEF P!Questions

\* Of the record, what is asked for below.
LEMMA FoundTyped ==
    ASSUME NEW f \in Findings
    PROVE  f.reachable \in BOOLEAN /\ f.anthropic \in BOOLEAN /\ DOMAIN f.can \subseteq Abilities
<1>1. f.reachable \in BOOLEAN /\ f.anthropic \in BOOLEAN /\ f.can \in Tables
  BY DEF Findings, FoundOver
<1>. QED
  BY <1>1 DEF Tables

\* One field of the record changes and the others stay.
LEMMA FieldChanges ==
    ASSUME NEW C, NEW S, NEW R, NEW K, NEW N, NEW f \in FoundOver(C, S, R, K, N), NEW g
    PROVE  /\ \A v \in K : g = [f EXCEPT !.can = v] =>
                /\ g \in FoundOver(C, S, R, K, N) /\ g.can = v
                /\ g.reachable = f.reachable /\ g.context = f.context /\ g.rate = f.rate
                /\ g.anthropic = f.anthropic
           /\ \A v \in N : g = [f EXCEPT !.notes = v] =>
                /\ g \in FoundOver(C, S, R, K, N) /\ g.can = f.can
                /\ g.reachable = f.reachable /\ g.context = f.context /\ g.rate = f.rate
                /\ g.anthropic = f.anthropic
           /\ \A v \in R : g = [f EXCEPT !.rate = v] =>
                /\ g \in FoundOver(C, S, R, K, N) /\ g.can = f.can
                /\ g.reachable = f.reachable /\ g.context = f.context /\ g.rate = v
                /\ g.anthropic = f.anthropic
           /\ \A v \in BOOLEAN : g = [f EXCEPT !.anthropic = v] =>
                /\ g \in FoundOver(C, S, R, K, N) /\ g.can = f.can
                /\ g.reachable = f.reachable /\ g.context = f.context /\ g.rate = f.rate
                /\ g.anthropic = v
<1>1. ASSUME NEW v \in K, g = [f EXCEPT !.can = v]
      PROVE  /\ g \in FoundOver(C, S, R, K, N) /\ g.can = v
             /\ g.reachable = f.reachable /\ g.context = f.context /\ g.rate = f.rate
             /\ g.anthropic = f.anthropic
  BY <1>1 DEF FoundOver
<1>2. ASSUME NEW v \in N, g = [f EXCEPT !.notes = v]
      PROVE  /\ g \in FoundOver(C, S, R, K, N) /\ g.can = f.can
             /\ g.reachable = f.reachable /\ g.context = f.context /\ g.rate = f.rate
             /\ g.anthropic = f.anthropic
  BY <1>2 DEF FoundOver
<1>3. ASSUME NEW v \in R, g = [f EXCEPT !.rate = v]
      PROVE  /\ g \in FoundOver(C, S, R, K, N) /\ g.can = f.can
             /\ g.reachable = f.reachable /\ g.context = f.context /\ g.rate = v
             /\ g.anthropic = f.anthropic
  BY <1>3 DEF FoundOver
<1>4. ASSUME NEW v \in BOOLEAN, g = [f EXCEPT !.anthropic = v]
      PROVE  /\ g \in FoundOver(C, S, R, K, N) /\ g.can = f.can
             /\ g.reachable = f.reachable /\ g.context = f.context /\ g.rate = f.rate
             /\ g.anthropic = v
  BY <1>4 DEF FoundOver
<1>. QED
  BY <1>1, <1>2, <1>3, <1>4

\* Two fields change.
Listed(f, v) == [f EXCEPT !.reachable = TRUE, !.context = v]
Propped(f, v, n) == [f EXCEPT !.context = v, !.slots = n]
Heard(f, v, n) == [f EXCEPT !.separated = v, !.narrates = n]

\* What has not changed with them.
LEMMA TwoFieldsChange ==
    ASSUME NEW C, NEW S, NEW R, NEW K, NEW N, NEW f \in FoundOver(C, S, R, K, N), NEW g
    PROVE  /\ \A v \in C : g = Listed(f, v) =>
                /\ g \in FoundOver(C, S, R, K, N) /\ g.can = f.can
                /\ g.context = v /\ g.rate = f.rate /\ g.anthropic = f.anthropic
           /\ \A v \in C, n \in S : g = Propped(f, v, n) =>
                /\ g \in FoundOver(C, S, R, K, N) /\ g.can = f.can
                /\ g.reachable = f.reachable /\ g.context = v /\ g.rate = f.rate
                /\ g.anthropic = f.anthropic
           /\ \A v, n \in BOOLEAN : g = Heard(f, v, n) =>
                /\ g \in FoundOver(C, S, R, K, N) /\ g.can = f.can
                /\ g.reachable = f.reachable /\ g.context = f.context /\ g.rate = f.rate
                /\ g.anthropic = f.anthropic
<1>1. ASSUME NEW v \in C, g = Listed(f, v)
      PROVE  /\ g \in FoundOver(C, S, R, K, N) /\ g.can = f.can
             /\ g.context = v /\ g.rate = f.rate /\ g.anthropic = f.anthropic
  BY <1>1 DEF FoundOver, Listed, Propped, Heard
<1>2. ASSUME NEW v \in C, NEW n \in S, g = Propped(f, v, n)
      PROVE  /\ g \in FoundOver(C, S, R, K, N) /\ g.can = f.can
             /\ g.reachable = f.reachable /\ g.context = v /\ g.rate = f.rate
             /\ g.anthropic = f.anthropic
  BY <1>2 DEF FoundOver, Listed, Propped, Heard
<1>3. ASSUME NEW v \in BOOLEAN, NEW n \in BOOLEAN, g = Heard(f, v, n)
      PROVE  /\ g \in FoundOver(C, S, R, K, N) /\ g.can = f.can
             /\ g.reachable = f.reachable /\ g.context = f.context /\ g.rate = f.rate
             /\ g.anthropic = f.anthropic
  BY <1>3 DEF FoundOver, Listed, Propped, Heard
<1>. QED
  BY <1>1, <1>2, <1>3

\* With sets one capability and leaves the rest of what was found.
LEMMA WithOne ==
    ASSUME NEW f \in Findings, NEW a \in Abilities, NEW yes \in BOOLEAN,
           NEW g, g = P!With(f, a, yes)
    PROVE  /\ g \in Findings
           /\ DOMAIN g.can = DOMAIN f.can \cup {a}
           /\ g.can[a] = yes
           /\ \A c \in DOMAIN f.can : c # a => g.can[c] = f.can[c]
           /\ g.reachable = f.reachable /\ g.context = f.context /\ g.rate = f.rate
           /\ g.anthropic = f.anthropic
<1>. DEFINE more == [c \in DOMAIN f.can \cup {a} |-> IF c = a THEN yes ELSE f.can[c]]
<1>1. PICK D \in SUBSET Abilities : f.can \in [D -> BOOLEAN]
  <2>1. f.can \in Tables
    BY DEF Findings, FoundOver
  <2>. QED
    BY <2>1 DEF Tables
<1>2. more \in [D \cup {a} -> BOOLEAN] /\ D \cup {a} \in SUBSET Abilities
  BY <1>1
<1>3. g = [f EXCEPT !.can = more]
  BY Zenon DEF P!With
<1>4. more \in Tables
  BY <1>2 DEF Tables
<1>5. DOMAIN more = DOMAIN f.can \cup {a} /\ more[a] = yes
      /\ \A c \in DOMAIN f.can : c # a => more[c] = f.can[c]
  OBVIOUS
<1>. HIDE DEF more
<1>6. /\ g \in Findings /\ g.can = more
      /\ g.reachable = f.reachable /\ g.context = f.context /\ g.rate = f.rate
      /\ g.anthropic = f.anthropic
  BY <1>3, <1>4, FieldChanges DEF Findings
<1>. QED
  BY <1>5, <1>6

\* With a capability that the server has, if it is one of the two that are checked, what
\* was found is still there at the server.
LEMMA WithSeen ==
    ASSUME NEW f \in Findings, SeenAtServer(f), NEW a \in Abilities, NEW yes \in BOOLEAN,
           yes /\ a = "tools" => server.tools = "calls",
           yes /\ a = "vision" => server.image = "taken",
           NEW g, g = P!With(f, a, yes)
    PROVE  /\ g \in Findings /\ SeenAtServer(g)
           /\ g.reachable = f.reachable /\ g.context = f.context /\ g.rate = f.rate
<1>1. /\ g \in Findings
      /\ DOMAIN g.can = DOMAIN f.can \cup {a}
      /\ g.can[a] = yes
      /\ \A c \in DOMAIN f.can : c # a => g.can[c] = f.can[c]
      /\ g.reachable = f.reachable /\ g.context = f.context /\ g.rate = f.rate
      /\ g.anthropic = f.anthropic
  BY WithOne
<1>2. ToolsSeen(g.can)
  BY <1>1 DEF SeenAtServer, ToolsSeen
<1>3. VisionSeen(g.can)
  BY <1>1 DEF SeenAtServer, VisionSeen
<1>. QED
  BY <1>1, <1>2, <1>3 DEF SeenAtServer

\* And so with a note of what the server has said.
LEMMA NoteSeen ==
    ASSUME NEW f \in Findings, SeenAtServer(f), NEW T \in SUBSET Texts, NEW g, g = P!Note(f, T)
    PROVE  /\ g \in Findings /\ SeenAtServer(g)
           /\ g.reachable = f.reachable /\ g.context = f.context /\ g.rate = f.rate
<1>. DEFINE n == f.notes \cup T
<1>1. g = [f EXCEPT !.notes = n]
  BY Zenon DEF P!Note
<1>2. n \in TextSets
  BY DEF Findings, FoundOver, TextSets
<1>. HIDE DEF n
<1>3. /\ g \in Findings /\ g.can = f.can /\ g.anthropic = f.anthropic
      /\ g.reachable = f.reachable /\ g.context = f.context /\ g.rate = f.rate
  BY <1>1, <1>2, FieldChanges DEF Findings
<1>. QED
  BY <1>3 DEF SeenAtServer

\* What each question adds, one by one.
LEMMA AnswersAre ==
    ASSUME NEW f
    PROVE  /\ P!Answered("models", f) = Listed(f, server.listed)
           /\ P!Answered("props", f) =
                Propped(f, P!Context(f), IF P!Known(server.slots) THEN server.slots ELSE f.slots)
           /\ P!Answered("rate", f) = [f EXCEPT !.rate = P!Rate]
           /\ P!Answered("chat", f) =
                Heard(P!With(f, "chat", server.chat),
                      server.chat /\ server.thinking = "separated",
                      server.chat /\ server.thinking = "inside")
           /\ P!Answered("stream", f) = P!With(f, "streaming", server.stream)
           /\ P!Answered("tools", f) = P!Note(P!With(f, "tools", P!ToolsCalled), P!ToolNotes)
           /\ P!Answered("vision", f) =
                P!Note(P!With(f, "vision", server.image = "taken"), P!ImageNotes)
           /\ P!Answered("messages", f) = [f EXCEPT !.anthropic = server.messages = "native"]
<1>1. P!Answered("models", f) = Listed(f, server.listed)
  BY Zenon DEF P!Answered, Listed, Propped, Heard
<1>2. P!Answered("props", f) =
        Propped(f, P!Context(f), IF P!Known(server.slots) THEN server.slots ELSE f.slots)
  BY Zenon DEF P!Answered, Listed, Propped, Heard
<1>3. P!Answered("rate", f) = [f EXCEPT !.rate = P!Rate]
  BY Zenon DEF P!Answered, Listed, Propped, Heard
<1>4. P!Answered("chat", f) =
        Heard(P!With(f, "chat", server.chat),
              server.chat /\ server.thinking = "separated",
              server.chat /\ server.thinking = "inside")
  BY Zenon DEF P!Answered, Listed, Propped, Heard
<1>5. P!Answered("stream", f) = P!With(f, "streaming", server.stream)
  BY Zenon DEF P!Answered, Listed, Propped, Heard
<1>6. P!Answered("tools", f) = P!Note(P!With(f, "tools", P!ToolsCalled), P!ToolNotes)
  BY Zenon DEF P!Answered, Listed, Propped, Heard
<1>7. P!Answered("vision", f) = P!Note(P!With(f, "vision", server.image = "taken"), P!ImageNotes)
  BY Zenon DEF P!Answered, Listed, Propped, Heard
<1>8. P!Answered("messages", f) = [f EXCEPT !.anthropic = server.messages = "native"]
  BY Zenon DEF P!Answered, Listed, Propped, Heard
<1>. QED
  BY <1>1, <1>2, <1>3, <1>4, <1>5, <1>6, <1>7, <1>8

\* A question that is not answered says that the capability is not there, or nothing.
LEMMA SilenceIs ==
    ASSUME NEW f
    PROVE  /\ P!Unanswered("models", f) = f
           /\ P!Unanswered("props", f) = f
           /\ P!Unanswered("rate", f) = f
           /\ P!Unanswered("chat", f) = P!With(f, "chat", FALSE)
           /\ P!Unanswered("stream", f) = P!With(f, "streaming", FALSE)
           /\ P!Unanswered("tools", f) = P!With(f, "tools", FALSE)
           /\ P!Unanswered("vision", f) = P!With(f, "vision", FALSE)
           /\ P!Unanswered("messages", f) = f
BY DEF P!Unanswered

\* What one question leaves as it was, and what it may add.
LEMMA OneQuestion ==
    ASSUME server \in Servers,
           NEW f \in Findings, SeenAtServer(f),
           NEW q \in {"models", "props", "rate", "chat", "stream", "tools", "vision", "messages"},
           q = "props" => f.context = server.listed,
           NEW g, g = P!Answered(q, f) \/ g = P!Unanswered(q, f)
    PROVE  /\ g \in Findings /\ SeenAtServer(g)
           /\ q # "models" => g.reachable = f.reachable
           /\ q \notin {"models", "props"} => g.context = f.context
           /\ q # "rate" => g.rate = f.rate
<1>1. server.chat \in BOOLEAN /\ server.stream \in BOOLEAN
  BY ServersAssumption DEF P!ServersKnown
<1>0. f \in FoundOver(Windows, SlotCounts, Rates, Tables, TextSets)
  BY DEF Findings
<1>2. CASE q = "models"
  <2>0. server.listed \in Windows
    BY DEF Windows
  <2>1. g = f \/ g = Listed(f, server.listed)
    BY <1>2, AnswersAre, SilenceIs
  <2>2. ASSUME g = Listed(f, server.listed)
        PROVE  g \in Findings /\ g.can = f.can /\ g.rate = f.rate /\ g.anthropic = f.anthropic
    BY <1>0, <2>0, <2>2, TwoFieldsChange DEF Findings
  <2>3. g \in Findings /\ g.can = f.can /\ g.rate = f.rate /\ g.anthropic = f.anthropic
    BY <2>1, <2>2
  <2>. QED
    BY <1>2, <2>3 DEF SeenAtServer
<1>3. CASE q = "props"
  <2>. DEFINE v == P!Context(f)
              n == IF P!Known(server.slots) THEN server.slots ELSE f.slots
  <2>0. v \in Windows /\ n \in SlotCounts
    BY <1>3, <1>0 DEF P!Context, FoundOver, Windows, SlotCounts
  <2>1. g = f \/ g = Propped(f, v, n)
    BY <1>3, AnswersAre, SilenceIs
  <2>. HIDE DEF v, n
  <2>2. ASSUME g = Propped(f, v, n)
        PROVE  /\ g \in Findings /\ g.can = f.can /\ g.reachable = f.reachable
               /\ g.rate = f.rate /\ g.anthropic = f.anthropic
    BY <1>0, <2>0, <2>2, TwoFieldsChange DEF Findings
  <2>3. /\ g \in Findings /\ g.can = f.can /\ g.reachable = f.reachable
        /\ g.rate = f.rate /\ g.anthropic = f.anthropic
    BY <2>1, <2>2
  <2>. QED
    BY <1>3, <2>3 DEF SeenAtServer
<1>4. CASE q = "rate"
  <2>0. P!Rate \in Rates
    BY DEF P!Rate, Rates
  <2>1. g = f \/ g = [f EXCEPT !.rate = P!Rate]
    BY <1>4, AnswersAre, SilenceIs
  <2>2. ASSUME g = [f EXCEPT !.rate = P!Rate]
        PROVE  /\ g \in Findings /\ g.can = f.can /\ g.reachable = f.reachable
               /\ g.context = f.context /\ g.anthropic = f.anthropic
    BY <1>0, <2>0, <2>2, FieldChanges DEF Findings
  <2>3. /\ g \in Findings /\ g.can = f.can /\ g.reachable = f.reachable
        /\ g.context = f.context /\ g.anthropic = f.anthropic
    BY <2>1, <2>2
  <2>. QED
    BY <1>4, <2>3 DEF SeenAtServer
<1>5. CASE q = "chat"
  <2>. DEFINE v == server.chat /\ server.thinking = "separated"
              n == server.chat /\ server.thinking = "inside"
  <2>1. \E y \in BOOLEAN : g = P!With(f, "chat", y)
                           \/ g = Heard(P!With(f, "chat", y), v, n)
    BY <1>1, <1>5, AnswersAre, SilenceIs
  <2>2. PICK y \in BOOLEAN : g = P!With(f, "chat", y)
                             \/ g = Heard(P!With(f, "chat", y), v, n)
    BY <2>1
  <2>. DEFINE w == P!With(f, "chat", y)
  <2>3. /\ w \in Findings /\ SeenAtServer(w)
        /\ w.reachable = f.reachable /\ w.context = f.context /\ w.rate = f.rate
    <3>1. "chat" \in Abilities
      BY DEF Abilities
    <3>. QED
      BY <3>1, WithSeen
  <2>4. v \in BOOLEAN /\ n \in BOOLEAN
    OBVIOUS
  <2>. HIDE DEF w, v, n
  <2>5. g = w \/ g = Heard(w, v, n)
    BY <2>2 DEF w
  <2>7. ASSUME g = Heard(w, v, n)
        PROVE  /\ g \in Findings /\ g.can = w.can /\ g.reachable = w.reachable
               /\ g.context = w.context /\ g.rate = w.rate /\ g.anthropic = w.anthropic
    BY <2>3, <2>4, <2>7, TwoFieldsChange DEF Findings
  <2>6. /\ g \in Findings /\ g.can = w.can /\ g.reachable = w.reachable
        /\ g.context = w.context /\ g.rate = w.rate /\ g.anthropic = w.anthropic
    BY <2>3, <2>5, <2>7
  <2>. QED
    BY <1>5, <2>3, <2>6 DEF SeenAtServer
<1>6. CASE q = "stream"
  <2>1. \E y \in BOOLEAN : g = P!With(f, "streaming", y)
    BY <1>1, <1>6, AnswersAre, SilenceIs
  <2>2. "streaming" \in Abilities
    BY DEF Abilities
  <2>. QED
    BY <1>6, <2>1, <2>2, WithSeen
<1>7. CASE q = "tools"
  <2>1. \E y \in BOOLEAN : /\ y => server.tools = "calls"
                           /\ \/ g = P!With(f, "tools", y)
                              \/ g = P!Note(P!With(f, "tools", y), P!ToolNotes)
    BY <1>7, AnswersAre, SilenceIs DEF P!ToolsCalled
  <2>2. P!ToolNotes \in SUBSET Texts /\ "tools" \in Abilities
    BY DEF P!ToolNotes, Texts, Abilities
  <2>3. PICK y \in BOOLEAN : /\ y => server.tools = "calls"
                             /\ \/ g = P!With(f, "tools", y)
                                \/ g = P!Note(P!With(f, "tools", y), P!ToolNotes)
    BY <2>1
  <2>. DEFINE w == P!With(f, "tools", y)
  <2>4. /\ w \in Findings /\ SeenAtServer(w)
        /\ w.reachable = f.reachable /\ w.context = f.context /\ w.rate = f.rate
    BY <2>2, <2>3, WithSeen
  <2>5. g = w \/ g = P!Note(w, P!ToolNotes)
    BY <2>3
  <2>. HIDE DEF w
  <2>. QED
    BY <1>7, <2>2, <2>4, <2>5, NoteSeen
<1>8. CASE q = "vision"
  <2>1. \E y \in BOOLEAN : /\ y => server.image = "taken"
                           /\ \/ g = P!With(f, "vision", y)
                              \/ g = P!Note(P!With(f, "vision", y), P!ImageNotes)
    BY <1>8, AnswersAre, SilenceIs
  <2>2. P!ImageNotes \in SUBSET Texts /\ "vision" \in Abilities
    BY DEF P!ImageNotes, Texts, Abilities
  <2>3. PICK y \in BOOLEAN : /\ y => server.image = "taken"
                             /\ \/ g = P!With(f, "vision", y)
                                \/ g = P!Note(P!With(f, "vision", y), P!ImageNotes)
    BY <2>1
  <2>. DEFINE w == P!With(f, "vision", y)
  <2>4. /\ w \in Findings /\ SeenAtServer(w)
        /\ w.reachable = f.reachable /\ w.context = f.context /\ w.rate = f.rate
    BY <2>2, <2>3, WithSeen
  <2>5. g = w \/ g = P!Note(w, P!ImageNotes)
    BY <2>3
  <2>. HIDE DEF w
  <2>. QED
    BY <1>8, <2>2, <2>4, <2>5, NoteSeen
<1>9. CASE q = "messages"
  <2>. DEFINE v == server.messages = "native"
  <2>0. v \in BOOLEAN
    OBVIOUS
  <2>1. g = f \/ g = [f EXCEPT !.anthropic = v]
    BY <1>9, AnswersAre, SilenceIs
  <2>4. NativeSeen(v)
    BY DEF NativeSeen
  <2>. HIDE DEF v
  <2>2. ASSUME g = [f EXCEPT !.anthropic = v]
        PROVE  /\ g \in Findings /\ g.can = f.can /\ g.reachable = f.reachable
               /\ g.context = f.context /\ g.rate = f.rate /\ g.anthropic = v
    BY <1>0, <2>0, <2>2, FieldChanges DEF Findings
  <2>3. /\ g \in Findings /\ g.can = f.can /\ g.reachable = f.reachable
        /\ g.context = f.context /\ g.rate = f.rate /\ NativeSeen(g.anthropic)
    <3>1. CASE g = f
      BY <3>1 DEF SeenAtServer
    <3>2. CASE g = [f EXCEPT !.anthropic = v]
      BY <3>2, <2>2, <2>4
    <3>. QED
      BY <2>1, <3>1, <3>2
  <2>. QED
    BY <1>9, <2>3 DEF SeenAtServer
<1>. QED
  BY <1>2, <1>3, <1>4, <1>5, <1>6, <1>7, <1>8, <1>9

\* The invariant holds of a probe that has not begun.
LEMMA ProbeBegins == ASSUME P!Init PROVE ProbeInv
<1>1. /\ server \in Servers /\ claim \in Claims
      /\ alive \in BOOLEAN /\ asked = 0 /\ found = P!Nothing
      /\ killedBy = IF alive THEN "nothing" ELSE "models"
  BY DEF P!Init
<1>2. [c \in {} |-> FALSE] \in Tables
  <2>1. [c \in {} |-> FALSE] \in [{} -> BOOLEAN] /\ {} \in SUBSET Abilities
    OBVIOUS
  <2>. QED
    BY <2>1 DEF Tables
<1>. DEFINE none == [c \in {} |-> FALSE]
<1>5. found = [reachable |-> FALSE, context |-> NoNumber, slots |-> NoNumber, rate |-> NoNumber,
               can |-> none, separated |-> FALSE, narrates |-> FALSE,
               anthropic |-> FALSE, notes |-> {}]
  BY <1>1 DEF P!Nothing
<1>6. ToolsSeen(none) /\ VisionSeen(none) /\ NativeSeen(FALSE)
  BY DEF ToolsSeen, VisionSeen, NativeSeen
<1>. HIDE DEF none
<1>7. NoNumber \in Windows /\ NoNumber \in SlotCounts /\ NoNumber \in Rates /\ {} \in TextSets
  BY DEF Windows, SlotCounts, Rates, TextSets
<1>3. found \in Findings
  BY <1>2, <1>5, <1>7 DEF Findings, FoundOver, none
<1>4. SeenAtServer(found) /\ found.reachable = FALSE
  BY <1>5, <1>6 DEF SeenAtServer
<1>. QED
  BY <1>1, <1>3, <1>4 DEF ProbeInv, ToldBefore

\* Every question keeps it.
LEMMA ProbeGoesOn == ASSUME ProbeInv, P!AskNext PROVE ProbeInv'
<1>. DEFINE q == P!Questions[asked + 1]
<1>1. PICK answers \in BOOLEAN, dies \in BOOLEAN :
        /\ answers \/ dies => alive
        /\ ~answers /\ alive => dies
        /\ found' = IF answers THEN P!Answered(q, found) ELSE P!Unanswered(q, found)
        /\ alive' = (alive /\ ~dies)
        /\ killedBy' = IF dies THEN q ELSE killedBy
  BY DEF P!AskNext
<1>2. /\ asked' = asked + 1 /\ server' = server /\ claim' = claim
      /\ asked \in 0..7 /\ (asked >= 1 => found.reachable = TRUE)
  BY QuestionsAre, FoundTyped DEF P!AskNext, P!Finished, ProbeInv
<1>3. /\ q \in {"models", "props", "rate", "chat", "stream", "tools", "vision", "messages"}
      /\ q = "models" <=> asked = 0
      /\ q = "props" <=> asked = 1
      /\ q = "rate" <=> asked = 2
  BY <1>2, QuestionsAre
<1>. HIDE DEF q
<1>4. q = "props" => found.context = server.listed
  BY <1>2, <1>3 DEF ProbeInv, ToldBefore
<1>5. /\ found' \in Findings /\ SeenAtServer(found')
      /\ q # "models" => found'.reachable = found.reachable
      /\ q \notin {"models", "props"} => found'.context = found.context
      /\ q # "rate" => found'.rate = found.rate
  <2>1. found' = P!Answered(q, found) \/ found' = P!Unanswered(q, found)
    BY <1>1
  <2>2. server \in Servers /\ found \in Findings /\ SeenAtServer(found)
    BY DEF ProbeInv
  <2>. QED
    BY <1>3, <1>4, <2>1, <2>2, OneQuestion
<1>6. /\ server' \in Servers /\ claim' \in Claims /\ alive' \in BOOLEAN /\ asked' \in 0..8
      /\ killedBy' \in {"nothing", "models", "props", "rate", "chat", "stream", "tools", "vision", "messages"}
      /\ (found \in Findings)' /\ SeenAtServer(found)'
  <2>1. (found \in Findings)' /\ SeenAtServer(found)'
    BY <1>2, <1>5 DEF Findings, Windows, SlotCounts, Rates, SeenAtServer, ToolsSeen, VisionSeen, NativeSeen
  <2>. QED
    BY <1>1, <1>2, <1>3, <2>1 DEF ProbeInv
<1>7. (alive <=> killedBy = "nothing")'
  BY <1>1, <1>3 DEF ProbeInv, ToldBefore
<1>8. /\ asked' # 0
      /\ asked' <= 1 => killedBy' \in {"nothing", "models"}
      /\ asked' <= 2 => killedBy' \in {"nothing", "models", "props"}
  BY <1>1, <1>2, <1>3 DEF ProbeInv, ToldBefore
<1>9. asked' = 1 /\ found'.reachable = TRUE => found'.context = server.listed
  <2>. SUFFICES ASSUME asked' = 1, found'.reachable PROVE found'.context = server.listed
    OBVIOUS
  <2>1. q = "models" /\ found.reachable = FALSE
    BY <1>2, <1>3 DEF ProbeInv, ToldBefore
  <2>2. answers
    BY <1>1, <2>1 DEF P!Unanswered
  <2>3. found' = Listed(found, server.listed)
    BY <1>1, <2>1, <2>2, AnswersAre
  <2>4. server.listed \in Windows /\ found \in FoundOver(Windows, SlotCounts, Rates, Tables, TextSets)
    BY DEF Windows, ProbeInv, Findings
  <2>. QED
    BY <2>3, <2>4, TwoFieldsChange
<1>10. asked' >= 2 /\ found'.reachable = TRUE /\ killedBy' \notin {"models", "props"} =>
         found'.context = RealWindow
  <2>. SUFFICES ASSUME asked' >= 2, found'.reachable = TRUE, killedBy' \notin {"models", "props"}
                PROVE  found'.context = RealWindow
    OBVIOUS
  <2>0. killedBy \notin {"models", "props"}
    BY <1>1 DEF ProbeInv, ToldBefore
  <2>1. CASE asked = 1
    <3>1. q = "props" /\ ~dies /\ alive
      BY <1>1, <1>3, <2>0, <2>1 DEF ProbeInv, ToldBefore
    <3>2. found' = [found EXCEPT !.context = P!Context(found),
                                 !.slots = IF P!Known(server.slots) THEN server.slots ELSE @]
      BY <1>1, <3>1 DEF P!Answered
    <3>. QED
      BY <3>1, <3>2, <1>4 DEF P!Context, RealWindow, ProbeInv, Findings
  <2>2. CASE asked >= 2
    BY <1>2, <1>3, <1>5, <2>0, <2>2 DEF ProbeInv, ToldBefore
  <2>. QED
    BY <1>2, <2>1, <2>2
<1>11. asked' >= 3 /\ found'.reachable = TRUE /\ killedBy' \notin {"models", "props", "rate"} =>
         found'.rate = P!Rate
  <2>. SUFFICES ASSUME asked' >= 3, found'.reachable = TRUE, killedBy' \notin {"models", "props", "rate"}
                PROVE  found'.rate = P!Rate
    OBVIOUS
  <2>0. killedBy \notin {"models", "props", "rate"}
    BY <1>1 DEF ProbeInv, ToldBefore
  <2>1. CASE asked = 2
    <3>1. q = "rate" /\ ~dies /\ alive
      BY <1>1, <1>3, <2>0, <2>1 DEF ProbeInv, ToldBefore
    <3>2. found' = [found EXCEPT !.rate = P!Rate]
      BY <1>1, <3>1 DEF P!Answered
    <3>. QED
      BY <3>2 DEF ProbeInv, Findings
  <2>2. CASE asked >= 3
    BY <1>2, <1>3, <1>5, <2>0, <2>2 DEF ProbeInv, ToldBefore
  <2>. QED
    BY <1>2, <2>1, <2>2
<1>12. RealWindow' = RealWindow /\ P!Rate' = P!Rate
  BY <1>2 DEF RealWindow, P!Rate, P!Known, P!Believable
<1>13. ToldBefore'
  BY <1>2, <1>7, <1>8, <1>9, <1>10, <1>11, <1>12 DEF ToldBefore
<1>. QED
  BY <1>6, <1>13 DEF ProbeInv

\* What the invariant says of a finished probe.
LEMMA AdviceFollows == ASSUME ProbeInv PROVE AdviceIsMeasured
<1>1. P!ProbeTypeOK
  <2>1. killedBy \in {"nothing"} \cup {P!Questions[i] : i \in 1..Len(P!Questions)}
    <3>. DEFINE asks == {P!Questions[i] : i \in 1..8}
    <3>1. /\ P!Questions[1] \in asks /\ P!Questions[2] \in asks /\ P!Questions[3] \in asks
          /\ P!Questions[4] \in asks /\ P!Questions[5] \in asks /\ P!Questions[6] \in asks
          /\ P!Questions[7] \in asks /\ P!Questions[8] \in asks
      OBVIOUS
    <3>. HIDE DEF asks
    <3>2. killedBy \in {"nothing"} \cup asks
      BY <3>1, QuestionsAre DEF ProbeInv
    <3>. QED
      BY <3>2, QuestionsAre DEF asks
  <2>2. DOMAIN found.can \subseteq Abilities
    BY FoundTyped DEF ProbeInv
  <2>. QED
    BY <2>1, <2>2, QuestionsAre DEF ProbeInv, P!ProbeTypeOK, Abilities
<1>2. P!Told => asked >= 2 /\ found.reachable = TRUE /\ found.context = RealWindow
  <2>1. P!Told => asked >= 1 /\ found.reachable = TRUE /\ asked = 8
    BY QuestionsAre DEF P!Told, P!Done, P!Finished, ProbeInv
  <2>. QED
    BY <2>1 DEF P!Told, ProbeInv, ToldBefore
<1>3. P!NeverInvented
  <2>1. found.anthropic \in BOOLEAN /\ SeenAtServer(found)
    BY FoundTyped DEF ProbeInv
  <2>2. P!Can("tools") => server.tools = "calls"
    BY <2>1 DEF P!Can, SeenAtServer, ToolsSeen
  <2>3. P!Can("vision") => server.image = "taken"
    BY <2>1 DEF P!Can, SeenAtServer, VisionSeen
  <2>4. found.anthropic => server.messages = "native"
    BY <2>1 DEF SeenAtServer, NativeSeen
  <2>5. P!Told /\ P!Known(server.perSlot) => found.context = server.perSlot
    BY <1>2 DEF RealWindow
  <2>. QED
    BY <2>2, <2>3, <2>4, <2>5 DEF P!NeverInvented
<1>4. P!RateOutlivesTheServer
  <2>. SUFFICES ASSUME P!Done, killedBy = "tools", server.tokenize # "none",
                       P!Believable(server.rate)
                PROVE  found.rate = server.rate
    BY DEF P!RateOutlivesTheServer
  <2>1. asked = 8 /\ found.reachable = TRUE
    BY QuestionsAre DEF P!Done, P!Finished, ProbeInv
  <2>2. found.rate = P!Rate
    BY <2>1 DEF ProbeInv, ToldBefore
  <2>3. server.tokenize \in {"prompt", "content"}
    BY ServersAssumption DEF P!ServersKnown, ProbeInv
  <2>. QED
    BY <2>2, <2>3 DEF P!Rate
<1>5. P!AdviceFitsEngine
  BY DEF P!AdviceFitsEngine, P!Advice, P!BuildAdvice, P!ToolAdvice, P!ServerKind
<1>6. P!OverdeclaredIsReported
  <2>1. DOMAIN found.can \subseteq Abilities
    BY FoundTyped DEF ProbeInv
  <2>2. "context" \in P!Drift <=> P!Known(found.context) /\ claim.context > found.context
    BY <2>1 DEF P!Drift, Abilities
  <2>. QED
    BY <1>2, <2>2 DEF P!OverdeclaredIsReported, RealWindow
<1>. QED
  BY <1>1, <1>3, <1>4, <1>5, <1>6 DEF AdviceIsMeasured, P!AdviceIsMeasured

\* What is advised was measured.
THEOREM AdviceHolds == SpecAll => []AdviceIsMeasured
<1>1. InitAll => ProbeInv
  BY ProbeBegins DEF InitAll
<1>2. ProbeInv /\ [NextAll]_all => ProbeInv'
  <2>. SUFFICES ASSUME ProbeInv, [NextAll]_all PROVE ProbeInv'
    OBVIOUS
  <2>1. CASE P!Next
    BY <2>1, ProbeGoesOn DEF P!Next
  <2>2. CASE UNCHANGED questions
    BY <2>2 DEF questions, ProbeInv, Findings, Windows, SlotCounts, Rates, SeenAtServer, ToolsSeen, VisionSeen, NativeSeen, ToldBefore, RealWindow, P!Rate,
                P!Known, P!Believable
  <2>. QED
    BY <2>1, <2>2 DEF NextAll, all
<1>3. ProbeInv => AdviceIsMeasured
  BY AdviceFollows
<1>. QED
  BY <1>1, <1>2, <1>3, PTL DEF SpecAll

-----------------------------------------------------------------------------
(* The suite.  The tests of a run come in the order of the suite, so that no *)
(* two of its results are of one test, and a run with ten has all of them.   *)

Tests == {"chat", "streaming", "long_context", "tools", "multi_tool", "vision",
          "vision_text", "agent_loop", "claude_code", "concurrent"}

\* Where a test stands in the suite.
PlaceOf == [chat |-> 1, streaming |-> 2, long_context |-> 3, tools |-> 4, multi_tool |-> 5,
            vision |-> 6, vision_text |-> 7, agent_loop |-> 8, claude_code |-> 9,
            concurrent |-> 10]

Results == [feature : Tests, caps : Declared \cup {Unread}, of : Declared, by : Backends,
            status : Statuses]
ResultLists == Seq(Results)
CapsRead == Declared \cup {Unread}
Phases == {"none", "testing", "over"}
Plans == SUBSET (1..10)
RunsOver(A, L, C, S) ==
    [Runs -> [phase : A, left : L, caps : C, results : S, posted : Nat]]

ShownLists == Seq([feature : Tests, status : Statuses])
RowStatuses == {"none", "running", "done", "error"}
Totals == {0} \cup {Cardinality(S) : S \in {ToSet(ALL_TESTS)} \cup UNION {Selections[r] : r \in Runs}}
RowsOver(A, T, S) == [Runs -> [status : A, total : T, completed : Nat, results : S]]

Earned(result) ==
    result.status = "pass" => Able(result.feature, result.by, result.of, result.caps)

InOrder(results, left) ==
    /\ \A i \in 1..Len(results) : PlaceOf[results[i].feature] \in i..10
    /\ \A i, j \in 1..Len(results) :
         i < j => PlaceOf[results[i].feature] < PlaceOf[results[j].feature]
    /\ \A i \in 1..Len(results), l \in left : PlaceOf[results[i].feature] < l

RunSound(run) ==
    /\ run.posted <= Len(run.results)
    /\ run.left # {} => run.posted = 0
    /\ run.phase = "none" => run.left = {} /\ run.results = <<>> /\ run.posted = 0
    /\ InOrder(run.results, run.left)
    /\ \A i \in 1..Len(run.results) : Earned(run.results[i])

RowSound(row, run) ==
    /\ row.completed = Len(row.results)
    /\ row.results = Shown(run.results)
    /\ row.status = "done" =>
         run.phase = "over" /\ run.left = {} /\ run.posted = Len(run.results)

VerdictsTyped(table) == \A f \in DOMAIN table : f \in Tests /\ table[f] \in Statuses

\* What has been posted of a run is what the table says.
SaysSame(table, run) ==
    \A i \in 1..run.posted :
        /\ run.results[i].feature \in DOMAIN table
        /\ table[run.results[i].feature] = run.results[i].status

\* Nothing has happened, and the server does as declared.
Quiet == events = 0 /\ declared.listed = TRUE /\ Matches(backend, declared)
RunGreen(run) ==
    /\ run.caps \in {Unread, declared}
    /\ \A i \in 1..Len(run.results) : Green(run.results[i].feature, run.results[i].status)
TableGreen(table) == \A f \in DOMAIN table : Green(f, table[f])

BenchTyped ==
    /\ declared \in Declared /\ backend \in Backends /\ cleanly \subseteq Runs
    /\ events \in Nat
    /\ runs \in RunsOver(Phases, Plans, CapsRead, ResultLists)
    /\ rows \in RowsOver(RowStatuses, Totals, ShownLists)
    /\ VerdictsTyped(verdicts)

BenchInv ==
    /\ BenchTyped
    /\ \A r \in Runs : RunSound(runs[r])
    /\ \A r \in Runs \ Terminals : RowSound(rows[r], runs[r])
    /\ \A r \in cleanly : SaysSame(verdicts, runs[r])
    /\ Quiet => (\A r \in Runs : RunGreen(runs[r])) /\ TableGreen(verdicts)

\* The ten tests, by number.
LEMMA TestsAre ==
    /\ Len(ALL_TESTS) = 10 /\ DOMAIN ALL_TESTS = 1..10
    /\ \A p \in 1..10 : ALL_TESTS[p] \in Tests /\ PlaceOf[ALL_TESTS[p]] = p
    /\ ToSet(ALL_TESTS) = Tests
<1>1. Len(ALL_TESTS) = 10 /\ DOMAIN ALL_TESTS = 1..10
  BY DEF ALL_TESTS
<1>2. /\ ALL_TESTS[1] = "chat" /\ ALL_TESTS[2] = "streaming" /\ ALL_TESTS[3] = "long_context"
      /\ ALL_TESTS[4] = "tools" /\ ALL_TESTS[5] = "multi_tool" /\ ALL_TESTS[6] = "vision"
      /\ ALL_TESTS[7] = "vision_text" /\ ALL_TESTS[8] = "agent_loop"
      /\ ALL_TESTS[9] = "claude_code" /\ ALL_TESTS[10] = "concurrent"
  BY DEF ALL_TESTS
<1>3. /\ PlaceOf["chat"] = 1 /\ PlaceOf["streaming"] = 2 /\ PlaceOf["long_context"] = 3
      /\ PlaceOf["tools"] = 4 /\ PlaceOf["multi_tool"] = 5 /\ PlaceOf["vision"] = 6
      /\ PlaceOf["vision_text"] = 7 /\ PlaceOf["agent_loop"] = 8
      /\ PlaceOf["claude_code"] = 9 /\ PlaceOf["concurrent"] = 10
  BY DEF PlaceOf
<1>4. \A p \in 1..10 : ALL_TESTS[p] \in Tests /\ PlaceOf[ALL_TESTS[p]] = p
  <2>. TAKE p \in 1..10
  <2>1. \/ p = 1 \/ p = 2 \/ p = 3 \/ p = 4 \/ p = 5
        \/ p = 6 \/ p = 7 \/ p = 8 \/ p = 9 \/ p = 10
    OBVIOUS
  <2>2. ALL_TESTS[p] \in Tests
    BY <1>2, <2>1 DEF Tests
  <2>3. PlaceOf[ALL_TESTS[p]] = p
    BY <1>2, <1>3, <2>1
  <2>. QED
    BY <2>2, <2>3
<1>5. ASSUME NEW f \in Tests PROVE \E p \in 1..10 : ALL_TESTS[p] = f
  <2>1. /\ 1 \in 1..10 /\ 2 \in 1..10 /\ 3 \in 1..10 /\ 4 \in 1..10 /\ 5 \in 1..10
        /\ 6 \in 1..10 /\ 7 \in 1..10 /\ 8 \in 1..10 /\ 9 \in 1..10 /\ 10 \in 1..10
    OBVIOUS
  <2>. QED
    BY <1>2, <2>1 DEF Tests
<1>6. ToSet(ALL_TESTS) = {ALL_TESTS[p] : p \in 1..10}
  BY <1>1 DEF ToSet
<1>7. ToSet(ALL_TESTS) = Tests
  BY <1>4, <1>5, <1>6
<1>. QED
  BY <1>1, <1>4, <1>7

\* And by place.
LEMMA TestsAreByPlace ==
    \A f \in Tests : PlaceOf[f] \in 1..10 /\ ALL_TESTS[PlaceOf[f]] = f
<1>. SUFFICES ASSUME NEW f \in Tests
              PROVE  PlaceOf[f] \in 1..10 /\ ALL_TESTS[PlaceOf[f]] = f
  OBVIOUS
<1>1. PICK p \in 1..10 : ALL_TESTS[p] = f
  <2>1. f \in {ALL_TESTS[p] : p \in DOMAIN ALL_TESTS}
    BY TestsAre DEF ToSet
  <2>. QED
    BY <2>1, TestsAre
<1>. QED
  BY <1>1, TestsAre

\* The numbers of the registry and of the servers.
LEMMA BenchNumbers ==
    /\ \A m \in Declared :
         /\ m.listed \in BOOLEAN /\ m.tools \in BOOLEAN /\ m.vision \in BOOLEAN
         /\ m.reasoning \in BOOLEAN /\ m.anthropic \in BOOLEAN
         /\ m.window \in Nat \ {0} /\ m.output \in Nat \ {0}
    /\ \A b \in Backends :
         /\ b.up \in BOOLEAN /\ b.slow \in BOOLEAN /\ b.usage \in BOOLEAN
         /\ b.takesResults \in BOOLEAN
         /\ b.window \in Nat /\ b.perSentence \in Nat /\ b.thinks \in Nat
         /\ b.chunks \in Nat /\ b.calls \in Nat
BY BenchAssumption

\* The verdict on each test.
LEMMA VerdictsAre ==
    ASSUME NEW caps
    PROVE  /\ Verdict("chat", caps) = Graded(Answers(Budget(16, caps)), TRUE)
           /\ Verdict("streaming", caps) = Graded(backend.up, backend.chunks >= 2)
           /\ Verdict("long_context", caps) = IF backend.up THEN LongContext(caps) ELSE "fail"
           /\ Verdict("tools", caps) = Graded(backend.up /\ declared.tools, backend.calls >= 1)
           /\ Verdict("multi_tool", caps) = Graded(backend.up /\ declared.tools, backend.calls >= 2)
           /\ Verdict("vision", caps) =
                Graded(backend.up /\ declared.vision /\ backend.image # "refused", TRUE)
           /\ Verdict("vision_text", caps) =
                Graded(backend.up /\ declared.vision /\ backend.image # "refused",
                       backend.image = "seen")
           /\ Verdict("agent_loop", caps) =
                Graded(backend.up /\ declared.tools /\ (backend.calls >= 1 => backend.takesResults),
                       backend.calls >= 1)
           /\ Verdict("claude_code", caps) = ClaudeCode(caps)
           /\ Verdict("concurrent", caps) = FiveAtOnce
<1>1. Verdict("chat", caps) = Graded(Answers(Budget(16, caps)), TRUE)
  BY DEF Verdict
<1>2. Verdict("streaming", caps) = Graded(backend.up, backend.chunks >= 2)
  BY DEF Verdict
<1>3. Verdict("long_context", caps) = IF backend.up THEN LongContext(caps) ELSE "fail"
  BY DEF Verdict
<1>4. Verdict("tools", caps) = Graded(backend.up /\ declared.tools, backend.calls >= 1)
  BY DEF Verdict
<1>5. Verdict("multi_tool", caps) = Graded(backend.up /\ declared.tools, backend.calls >= 2)
  BY DEF Verdict
<1>6. Verdict("vision", caps) =
        Graded(backend.up /\ declared.vision /\ backend.image # "refused", TRUE)
  BY DEF Verdict
<1>7. Verdict("vision_text", caps) =
        Graded(backend.up /\ declared.vision /\ backend.image # "refused", backend.image = "seen")
  BY DEF Verdict
<1>8. Verdict("agent_loop", caps) =
        Graded(backend.up /\ declared.tools /\ (backend.calls >= 1 => backend.takesResults),
               backend.calls >= 1)
  BY DEF Verdict
<1>9. Verdict("claude_code", caps) = ClaudeCode(caps)
  BY DEF Verdict
<1>10. Verdict("concurrent", caps) = FiveAtOnce
  BY DEF Verdict
<1>. QED
  BY <1>1, <1>2, <1>3, <1>4, <1>5, <1>6, <1>7, <1>8, <1>9, <1>10

\* A grade is one of three, and a pass is good and better.
LEMMA GradesAre ==
    ASSUME NEW good, NEW better
    PROVE  /\ Graded(good, better) \in {"pass", "fail", "degraded"}
           /\ Graded(good, better) = "pass" <=> good /\ better
BY DEF Graded

\* The room for an answer is a number, and no more than the model writes.
LEMMA Room ==
    ASSUME NEW m \in Declared
    PROVE  /\ RoomToAnswer(m) \in Nat \ {0}
           /\ RoomToAnswer(m) <= m.output
<1>1. m.window \in Nat \ {0} /\ m.output \in Nat \ {0}
  BY BenchNumbers
<1>. QED
  BY <1>1 DEF RoomToAnswer, AtMost, AtLeast, ShortPrompt, MIN_OUTPUT_IN_DOUBT

\* Every verdict is one of the four.
LEMMA VerdictTyped ==
    ASSUME NEW test \in Tests, NEW caps
    PROVE  Verdict(test, caps) \in Statuses
<1>1. LongContext(caps) \in Statuses
  BY DEF LongContext, Statuses
<1>2. ClaudeCode(caps) \in Statuses
  BY GradesAre DEF ClaudeCode, Statuses
<1>3. FiveAtOnce \in Statuses
  BY DEF FiveAtOnce, Statuses
<1>4. \A good, better : Graded(good, better) \in Statuses
  BY DEF Graded, Statuses
<1>5. "fail" \in Statuses
  BY DEF Statuses
<1>6. test = "chat" \/ test = "streaming" \/ test = "long_context" \/ test = "tools"
      \/ test = "multi_tool" \/ test = "vision" \/ test = "vision_text" \/ test = "agent_loop"
      \/ test = "claude_code" \/ test = "concurrent"
  BY DEF Tests
<1>7. CASE test = "chat"
  BY <1>1, <1>2, <1>3, <1>4, <1>5, <1>7, VerdictsAre
<1>8. CASE test = "streaming"
  BY <1>1, <1>2, <1>3, <1>4, <1>5, <1>8, VerdictsAre
<1>9. CASE test = "long_context"
  BY <1>1, <1>2, <1>3, <1>4, <1>5, <1>9, VerdictsAre
<1>10. CASE test = "tools"
  BY <1>1, <1>2, <1>3, <1>4, <1>5, <1>10, VerdictsAre
<1>11. CASE test = "multi_tool"
  BY <1>1, <1>2, <1>3, <1>4, <1>5, <1>11, VerdictsAre
<1>12. CASE test = "vision"
  BY <1>1, <1>2, <1>3, <1>4, <1>5, <1>12, VerdictsAre
<1>13. CASE test = "vision_text"
  BY <1>13, VerdictsAre DEF Graded, Statuses
<1>14. CASE test = "agent_loop"
  BY <1>1, <1>2, <1>3, <1>4, <1>5, <1>14, VerdictsAre
<1>15. CASE test = "claude_code"
  BY <1>1, <1>2, <1>3, <1>4, <1>5, <1>15, VerdictsAre
<1>16. CASE test = "concurrent"
  BY <1>1, <1>2, <1>3, <1>4, <1>5, <1>16, VerdictsAre
<1>. QED
  BY <1>6, <1>7, <1>8, <1>9, <1>10, <1>11, <1>12, <1>13, <1>14, <1>15, <1>16

\* What a result says of a test: the last field of Result.
StatusOf(test, caps) ==
    IF Reads(test) /\ caps = Unread THEN "fail"
    ELSE IF NotApplicable(test, caps) THEN "not_tested"
    ELSE Verdict(test, caps)

\* A result names its test, what the run has read, and who has answered.
LEMMA ResultIs ==
    ASSUME NEW test \in Tests, NEW caps \in CapsRead, declared \in Declared, backend \in Backends
    PROVE  /\ Result(test, caps) \in Results
           /\ Result(test, caps).feature = test /\ Result(test, caps).caps = caps
           /\ Result(test, caps).of = declared /\ Result(test, caps).by = backend
           /\ Result(test, caps).status = StatusOf(test, caps)
<1>1. Result(test, caps) = [feature |-> test, caps |-> caps, of |-> declared, by |-> backend,
                            status |-> StatusOf(test, caps)]
  BY Zenon DEF Result, StatusOf
<1>2. StatusOf(test, caps) \in Statuses
  BY VerdictTyped DEF StatusOf, Statuses
<1>. HIDE DEF Result
<1>. QED
  BY <1>1, <1>2 DEF Results, CapsRead

\* The budget of a test is a number.
LEMMA BudgetTyped ==
    ASSUME NEW caps \in Declared, NEW tokens \in Nat
    PROVE  Budget(tokens, caps) \in Nat
<1>1. caps.output \in Nat /\ caps.reasoning \in BOOLEAN
  BY BenchNumbers
<1>. QED
  BY <1>1 DEF Budget, AtMost, AtLeast, REASONING_BUDGET

\* Who answers within what the gateway grants thinks less than the model may write.
LEMMA AnswerFits ==
    ASSUME declared \in Declared, backend \in Backends, NEW budget \in Nat, Answers(budget)
    PROVE  backend.up /\ backend.thinks < declared.output
<1>1. backend.thinks \in Nat /\ declared.output \in Nat
  BY BenchNumbers
<1>2. RoomToAnswer(declared) \in Nat /\ RoomToAnswer(declared) <= declared.output
  BY Room
<1>3. Granted(budget) <= RoomToAnswer(declared) /\ Granted(budget) \in Nat
  BY <1>2 DEF Granted, AtMost
<1>4. backend.up /\ backend.thinks < Granted(budget)
  BY DEF Answers
<1>. QED
  BY <1>1, <1>2, <1>3, <1>4

\* A pass of the long prompt shows a window of more than half of what is declared.
LEMMA LongPassIsWide ==
    ASSUME declared \in Declared, backend \in Backends, NEW caps \in Declared,
           LongContext(caps) = "pass"
    PROVE  2 * backend.window > caps.window
<1>. DEFINE n == SentencesOf(LongPrompt(caps.window))
<1>1. caps.window \in Nat /\ backend.window \in Nat
  BY BenchNumbers
<1>2. Accepted(n) /\ 2 * Counted(n) > caps.window
  BY DEF LongContext
<1>3. Counted(n) \in Nat
  <2>1. LongPrompt(caps.window) \in Nat
    BY <1>1 DEF LongPrompt, AtLeast
  <2>2. n \in Nat
    BY <2>1 DEF SentencesOf
  <2>3. backend.perSentence \in Nat
    BY BenchNumbers
  <2>. HIDE DEF n
  <2>. QED
    BY <2>2, <2>3 DEF Counted
<1>. HIDE DEF n
<1>4. Granted(32) \in Nat
  <2>1. RoomToAnswer(declared) \in Nat
    BY Room
  <2>. QED
    BY <2>1 DEF Granted, AtMost
<1>5. Counted(n) + Granted(32) <= backend.window
  BY <1>2 DEF Accepted
<1>. HIDE DEF Counted
<1>. QED
  BY <1>1, <1>2, <1>3, <1>4, <1>5

\* A pass is earned, whatever the test.
LEMMA ResultEarned ==
    ASSUME NEW test \in Tests, NEW caps \in CapsRead, declared \in Declared, backend \in Backends,
           StatusOf(test, caps) = "pass"
    PROVE  Able(test, backend, declared, caps)
<1>1. Verdict(test, caps) = "pass"
  BY DEF StatusOf
<1>2. Reads(test) => caps \in Declared
  BY DEF StatusOf, CapsRead
<1>3. /\ backend.up \in BOOLEAN /\ backend.takesResults \in BOOLEAN
      /\ backend.calls \in Nat
  BY BenchNumbers
<1>4. test = "chat" \/ test = "streaming" \/ test = "long_context" \/ test = "tools"
      \/ test = "multi_tool" \/ test = "vision" \/ test = "vision_text" \/ test = "agent_loop"
      \/ test = "claude_code" \/ test = "concurrent"
  BY DEF Tests
<1>5. CASE test = "chat"
  <2>1. caps \in Declared
    BY <1>2, <1>5 DEF Reads
  <2>2. Answers(Budget(16, caps))
    BY <1>1, <1>5, VerdictsAre DEF Graded
  <2>3. backend.up /\ backend.thinks < declared.output
    BY <2>1, <2>2, BudgetTyped, AnswerFits
  <2>. QED
    BY <2>3, <1>5 DEF Able
<1>6. CASE test = "streaming"
  <2>1. backend.up
    BY <1>1, <1>6, VerdictsAre DEF Graded
  <2>. QED
    BY <2>1, <1>6 DEF Able
<1>7. CASE test = "long_context"
  <2>1. caps \in Declared
    BY <1>2, <1>7 DEF Reads
  <2>2. backend.up /\ LongContext(caps) = "pass"
    BY <1>1, <1>7, VerdictsAre
  <2>3. 2 * backend.window > caps.window
    BY <2>1, <2>2, LongPassIsWide
  <2>. QED
    BY <2>2, <2>3, <1>7 DEF Able
<1>8. CASE test = "tools"
  <2>1. backend.up /\ backend.calls >= 1
    BY <1>1, <1>8, VerdictsAre DEF Graded
  <2>. QED
    BY <2>1, <1>8 DEF Able
<1>9. CASE test = "multi_tool"
  <2>1. backend.up /\ backend.calls >= 2
    BY <1>1, <1>9, VerdictsAre DEF Graded
  <2>. QED
    BY <2>1, <1>9 DEF Able
<1>10. CASE test = "vision"
  <2>1. backend.up
    BY <1>1, <1>10, VerdictsAre DEF Graded
  <2>. QED
    BY <2>1, <1>10 DEF Able
<1>11. CASE test = "vision_text"
  <2>1. backend.up /\ backend.image = "seen"
    BY <1>1, <1>11, VerdictsAre DEF Graded
  <2>. QED
    BY <2>1, <1>11 DEF Able
<1>12. CASE test = "agent_loop"
  <2>1. backend.up /\ backend.calls >= 1 /\ backend.takesResults
    BY <1>1, <1>12, VerdictsAre DEF Graded
  <2>. QED
    BY <2>1, <1>12 DEF Able
<1>13. CASE test = "claude_code"
  <2>1. caps \in Declared
    BY <1>2, <1>13 DEF Reads
  <2>2. Answers(Budget(128, caps))
    BY <1>1, <1>13, VerdictsAre DEF Graded, ClaudeCode
  <2>3. backend.up /\ backend.thinks < declared.output
    BY <2>1, <2>2, BudgetTyped, AnswerFits
  <2>. QED
    BY <2>3, <1>13 DEF Able
<1>14. CASE test = "concurrent"
  <2>1. backend.up
    BY <1>1, <1>14, VerdictsAre DEF FiveAtOnce
  <2>. QED
    BY <2>1, <1>14 DEF Able
<1>. QED
  BY <1>4, <1>5, <1>6, <1>7, <1>8, <1>9, <1>10, <1>11, <1>12, <1>13, <1>14

\* A server that does as declared, spelt out with the types of its fields.
LEMMA MatchIs ==
    ASSUME declared \in Declared, backend \in Backends, Quiet
    PROVE  /\ backend.up /\ ~backend.slow /\ backend.usage /\ backend.five = "served"
           /\ backend.window >= declared.window /\ backend.chunks >= 2
           /\ backend.perSentence \in 9..11
           /\ backend.thinks > 0 =>
                declared.reasoning /\ backend.thinks < AtMost(REASONING_BUDGET, RoomToAnswer(declared))
           /\ declared.tools => backend.calls >= 2 /\ backend.takesResults
           /\ declared.vision => backend.image = "seen"
           /\ declared.listed = TRUE
BY DEF Quiet, Matches

\* Such a server answers, whatever the test asks for.
LEMMA MatchAnswers ==
    ASSUME declared \in Declared, backend \in Backends, Quiet, NEW tokens \in Nat \ {0}
    PROVE  Answers(Budget(tokens, declared))
<1>1. /\ declared.output \in Nat \ {0} /\ backend.thinks \in Nat
      /\ declared.reasoning \in BOOLEAN
  BY BenchNumbers
<1>2. RoomToAnswer(declared) \in Nat \ {0} /\ RoomToAnswer(declared) <= declared.output
  BY Room
<1>3. /\ backend.up
      /\ backend.thinks > 0 =>
           declared.reasoning /\ backend.thinks < AtMost(REASONING_BUDGET, RoomToAnswer(declared))
  BY MatchIs
<1>4. CASE backend.thinks = 0
  <2>1. Budget(tokens, declared) \in Nat \ {0}
    BY <1>1 DEF Budget, AtMost, AtLeast, REASONING_BUDGET
  <2>2. Granted(Budget(tokens, declared)) > 0
    BY <1>2, <2>1 DEF Granted, AtMost
  <2>. QED
    BY <1>3, <1>4, <2>2 DEF Answers
<1>5. CASE backend.thinks > 0
  <2>1. declared.reasoning /\ backend.thinks < AtMost(1024, RoomToAnswer(declared))
    BY <1>3, <1>5 DEF REASONING_BUDGET
  <2>2. Budget(tokens, declared) = AtMost(AtLeast(tokens, 1024), declared.output)
    BY <2>1 DEF Budget, REASONING_BUDGET
  <2>3. backend.thinks < AtMost(Budget(tokens, declared), RoomToAnswer(declared))
    <3>. HIDE DEF Budget, RoomToAnswer
    <3>. QED
      BY <1>1, <1>2, <2>1, <2>2 DEF AtMost, AtLeast
  <2>. QED
    BY <1>3, <2>3 DEF Answers, Granted
<1>. QED
  BY <1>1, <1>4, <1>5

\* The arithmetic of the long prompt, for windows that hold the smallest one: the gateway
\* lets it through, the server takes it, and counts more than half of the window.
LEMMA LongPromptFits ==
    ASSUME NEW w \in Nat, w >= SMALLEST_TESTED, NEW p \in 9..11,
           NEW n, n = SentencesOf(LongPrompt(w))
    PROVE  /\ n \in Nat
           /\ 100 * Estimated(n) <= 115 * w
           /\ n * p + 32 <= w
           /\ 2 * (n * p) > w
<1>1. w >= 593
  BY DEF SMALLEST_TESTED
<1>. DEFINE t == (60 * w) \div 100
<1>2. t \in Nat /\ 100 * t <= 60 * w /\ 60 * w < 100 * t + 100
  OBVIOUS
<1>3. LongPrompt(w) = IF t >= 512 THEN t ELSE 512
  BY DEF LongPrompt, AtLeast
<1>. HIDE DEF t
<1>4. PICK target \in Nat : /\ target = LongPrompt(w) /\ target >= 512
                            /\ target = t \/ (target = 512 /\ t < 512)
  BY <1>2, <1>3
<1>5. n \in Nat /\ 10 * n <= target /\ target < 10 * n + 10
  BY <1>4 DEF SentencesOf
<1>6. n >= 51
  BY <1>4, <1>5
<1>. DEFINE e == (n * 45) \div 4
<1>7. e \in Nat /\ 4 * e <= 45 * n
  BY <1>5
<1>8. Estimated(n) = e
  BY DEF Estimated, CHARS_PER_SENTENCE, CHARS_PER_TOKEN
<1>. HIDE DEF e
<1>9. target = 512 => n = 51
  BY <1>5
<1>10. 100 * e <= 115 * w
  BY <1>1, <1>2, <1>4, <1>5, <1>7, <1>9
<1>11. n * 11 + 32 <= w /\ 2 * (n * 9) > w
  BY <1>1, <1>2, <1>4, <1>5, <1>9
<1>12. n * 9 <= n * p /\ n * p <= n * 11
  <2>1. p = 9 \/ p = 10 \/ p = 11
    OBVIOUS
  <2>. QED
    BY <1>5, <2>1
<1>13. n * p \in Nat /\ n * 9 \in Nat /\ n * 11 \in Nat
  <2>1. p = 9 \/ p = 10 \/ p = 11
    OBVIOUS
  <2>. QED
    BY <1>5, <2>1
<1>14. n * p + 32 <= w /\ 2 * (n * p) > w
  <2>. SUFFICES ASSUME NEW a \in Nat, NEW b \in Nat, NEW c \in Nat, b <= a, a <= c,
                       c + 32 <= w, 2 * b > w
                PROVE  a + 32 <= w /\ 2 * a > w
    BY <1>11, <1>12, <1>13
  <2>. QED
    OBVIOUS
<1>. QED
  BY <1>5, <1>8, <1>10, <1>14

\* So the long prompt of a run that has read what is declared passes.
LEMMA MatchHolds ==
    ASSUME declared \in Declared, backend \in Backends, Quiet,
           declared.window >= SMALLEST_TESTED
    PROVE  LongContext(declared) = "pass"
<1>. DEFINE n == SentencesOf(LongPrompt(declared.window))
<1>1. declared.window \in Nat /\ backend.window \in Nat
  BY BenchNumbers
<1>2. /\ ~backend.slow /\ backend.usage /\ backend.window >= declared.window
      /\ backend.perSentence \in 9..11
  BY MatchIs
<1>3. /\ n \in Nat
      /\ 100 * Estimated(n) <= 115 * declared.window
      /\ n * backend.perSentence + 32 <= declared.window
      /\ 2 * (n * backend.perSentence) > declared.window
  BY <1>1, <1>2, LongPromptFits
<1>4. Granted(32) \in Nat /\ Granted(32) <= 32
  <2>1. RoomToAnswer(declared) \in Nat
    BY Room
  <2>. QED
    BY <2>1 DEF Granted, AtMost
<1>. HIDE DEF n
<1>5. n * backend.perSentence \in Nat
  <2>1. backend.perSentence \in Nat
    BY <1>2
  <2>. QED
    BY <1>3, <2>1
<1>6. Accepted(n)
  <2>1. n * backend.perSentence + Granted(32) <= backend.window
    <3>. SUFFICES ASSUME NEW a \in Nat, a + 32 <= declared.window
                  PROVE  a + Granted(32) <= backend.window
      BY <1>3, <1>5
    <3>. QED
      BY <1>1, <1>2, <1>4
  <2>. QED
    BY <1>3, <2>1 DEF Accepted, Counted
<1>7. 2 * Counted(n) > declared.window
  BY <1>3 DEF Counted
<1>. QED
  BY <1>2, <1>6, <1>7 DEF LongContext, n

\* What a run that has read what is declared finds of such a server is green.
LEMMA ResultGreen ==
    ASSUME NEW test \in Tests, NEW caps \in {Unread, declared}, Reads(test) => caps = declared,
           declared \in Declared, backend \in Backends, Quiet
    PROVE  Green(test, StatusOf(test, caps))
<1>1. declared # Unread
  <2>1. declared.listed = TRUE
    BY MatchIs
  <2>2. Unread.listed = FALSE
    BY DEF Unread
  <2>. QED
    BY <2>1, <2>2
<1>2. test = "chat" \/ test = "streaming" \/ test = "long_context" \/ test = "tools"
      \/ test = "multi_tool" \/ test = "vision" \/ test = "vision_text" \/ test = "agent_loop"
      \/ test = "claude_code" \/ test = "concurrent"
  BY DEF Tests
<1>3. StatusOf(test, caps) = IF NotApplicable(test, caps) THEN "not_tested"
                             ELSE Verdict(test, caps)
  BY <1>1 DEF StatusOf
<1>4. /\ backend.up /\ backend.five = "served" /\ backend.chunks >= 2
      /\ declared.tools => backend.calls >= 2 /\ backend.takesResults
      /\ declared.vision => backend.image = "seen"
  BY MatchIs
<1>5. backend.calls \in Nat
  BY BenchNumbers
<1>6. SUFFICES ASSUME ~NotApplicable(test, caps)
               PROVE  Green(test, Verdict(test, caps))
  BY <1>3 DEF Green
<1>7. test # "streaming" /\ test # "concurrent" => caps = declared
  BY DEF Reads
<1>8. CASE test = "chat"
  BY <1>7, <1>8, VerdictsAre, MatchAnswers DEF Graded, Green
<1>9. CASE test = "streaming"
  BY <1>4, <1>9, VerdictsAre DEF Graded, Green
<1>10. CASE test = "long_context"
  <2>1. CASE declared.window < SMALLEST_TESTED
    BY <1>10, <2>1 DEF Green
  <2>2. CASE ~(declared.window < SMALLEST_TESTED)
    <3>1. declared.window \in Nat
      BY BenchNumbers
    <3>2. declared.window >= SMALLEST_TESTED
      BY <2>2, <3>1 DEF SMALLEST_TESTED
    <3>3. LongContext(declared) = "pass"
      BY <3>2, MatchHolds
    <3>. QED
      BY <1>4, <1>7, <1>10, <3>3, VerdictsAre DEF Green
  <2>. QED
    BY <2>1, <2>2
<1>11. CASE test = "tools"
  <2>1. declared.tools
    BY <1>6, <1>7, <1>11 DEF NotApplicable, RequiresTools
  <2>. QED
    BY <1>4, <1>5, <1>11, <2>1, VerdictsAre DEF Graded, Green
<1>12. CASE test = "multi_tool"
  <2>1. declared.tools
    BY <1>6, <1>7, <1>12 DEF NotApplicable, RequiresTools
  <2>. QED
    BY <1>4, <1>12, <2>1, VerdictsAre DEF Graded, Green
<1>13. CASE test = "vision"
  <2>1. declared.vision
    BY <1>6, <1>7, <1>13 DEF NotApplicable, RequiresVision
  <2>. QED
    BY <1>4, <1>13, <2>1, VerdictsAre DEF Graded, Green
<1>14. CASE test = "vision_text"
  <2>1. declared.vision
    BY <1>6, <1>7, <1>14 DEF NotApplicable, RequiresVision
  <2>. QED
    BY <1>4, <1>14, <2>1, VerdictsAre DEF Graded, Green
<1>15. CASE test = "agent_loop"
  <2>1. declared.tools
    BY <1>6, <1>7, <1>15 DEF NotApplicable, RequiresTools
  <2>. QED
    BY <1>4, <1>5, <1>15, <2>1, VerdictsAre DEF Graded, Green
<1>16. CASE test = "claude_code"
  <2>1. Answers(Budget(128, declared))
    BY MatchAnswers
  <2>. QED
    BY <1>7, <1>16, <2>1, VerdictsAre DEF ClaudeCode, Graded, Green
<1>17. CASE test = "concurrent"
  BY <1>4, <1>17, VerdictsAre DEF FiveAtOnce, Green
<1>. QED
  BY <1>2, <1>8, <1>9, <1>10, <1>11, <1>12, <1>13, <1>14, <1>15, <1>16, <1>17

-----------------------------------------------------------------------------
(* The driver, one run at a time.                                            *)

\* The ways in which the record of a run changes, and a row.
Tested(f, r, l, c, s) == [f EXCEPT ![r].left = l, ![r].caps = c, ![r].results = s]
Phased(f, r, a) == [f EXCEPT ![r].phase = a]
Posted(f, r) == [f EXCEPT ![r].posted = @ + 1]
Marked(f, r, a) == [f EXCEPT ![r].status = a]
Filled(f, r, n, s) == [f EXCEPT ![r].completed = n, ![r].results = s]

\* What stays as it was when the record of a run changes.
LEMMA RunChanges ==
    ASSUME NEW A, NEW L, NEW C, NEW S, NEW f \in RunsOver(A, L, C, S), NEW r \in Runs, NEW g
    PROVE  /\ \A l \in L, c \in C, s \in S :
                g = Tested(f, r, l, c, s) =>
                  /\ g \in RunsOver(A, L, C, S) /\ \A q \in Runs : q # r => g[q] = f[q]
                  /\ g[r].phase = f[r].phase /\ g[r].left = l /\ g[r].caps = c
                  /\ g[r].results = s /\ g[r].posted = f[r].posted
           /\ \A a \in A :
                g = Phased(f, r, a) =>
                  /\ g \in RunsOver(A, L, C, S) /\ \A q \in Runs : q # r => g[q] = f[q]
                  /\ g[r].phase = a /\ g[r].left = f[r].left /\ g[r].caps = f[r].caps
                  /\ g[r].results = f[r].results /\ g[r].posted = f[r].posted
           /\ g = Posted(f, r) =>
                  /\ g \in RunsOver(A, L, C, S) /\ \A q \in Runs : q # r => g[q] = f[q]
                  /\ g[r].phase = f[r].phase /\ g[r].left = f[r].left /\ g[r].caps = f[r].caps
                  /\ g[r].results = f[r].results /\ g[r].posted = f[r].posted + 1
<1>1. ASSUME NEW l \in L, NEW c \in C, NEW s \in S,
             g = Tested(f, r, l, c, s)
      PROVE  /\ g \in RunsOver(A, L, C, S) /\ \A q \in Runs : q # r => g[q] = f[q]
             /\ g[r].phase = f[r].phase /\ g[r].left = l /\ g[r].caps = c
             /\ g[r].results = s /\ g[r].posted = f[r].posted
  BY <1>1 DEF RunsOver, Tested, Phased, Posted
<1>2. ASSUME NEW a \in A, g = Phased(f, r, a)
      PROVE  /\ g \in RunsOver(A, L, C, S) /\ \A q \in Runs : q # r => g[q] = f[q]
             /\ g[r].phase = a /\ g[r].left = f[r].left /\ g[r].caps = f[r].caps
             /\ g[r].results = f[r].results /\ g[r].posted = f[r].posted
  BY <1>2 DEF RunsOver, Tested, Phased, Posted
<1>3. ASSUME g = Posted(f, r)
      PROVE  /\ g \in RunsOver(A, L, C, S) /\ \A q \in Runs : q # r => g[q] = f[q]
             /\ g[r].phase = f[r].phase /\ g[r].left = f[r].left /\ g[r].caps = f[r].caps
             /\ g[r].results = f[r].results /\ g[r].posted = f[r].posted + 1
  BY <1>3 DEF RunsOver, Tested, Phased, Posted
<1>. QED
  BY <1>1, <1>2, <1>3

\* And when a row does.
LEMMA RowChanges ==
    ASSUME NEW A, NEW T, NEW S, NEW f \in RowsOver(A, T, S), NEW r \in Runs, NEW g
    PROVE  /\ \A a \in A : g = Marked(f, r, a) =>
                /\ g \in RowsOver(A, T, S) /\ \A q \in Runs : q # r => g[q] = f[q]
                /\ g[r].status = a /\ g[r].completed = f[r].completed /\ g[r].results = f[r].results
           /\ \A n \in Nat, s \in S : g = Filled(f, r, n, s) =>
                /\ g \in RowsOver(A, T, S) /\ \A q \in Runs : q # r => g[q] = f[q]
                /\ g[r].status = f[r].status /\ g[r].completed = n /\ g[r].results = s
<1>1. ASSUME NEW a \in A, g = Marked(f, r, a)
      PROVE  /\ g \in RowsOver(A, T, S) /\ \A q \in Runs : q # r => g[q] = f[q]
             /\ g[r].status = a /\ g[r].completed = f[r].completed /\ g[r].results = f[r].results
  BY <1>1 DEF RowsOver, Marked, Filled
<1>2. ASSUME NEW n \in Nat, NEW s \in S, g = Filled(f, r, n, s)
      PROVE  /\ g \in RowsOver(A, T, S) /\ \A q \in Runs : q # r => g[q] = f[q]
             /\ g[r].status = f[r].status /\ g[r].completed = n /\ g[r].results = s
  BY <1>2 DEF RowsOver, Marked, Filled
<1>. QED
  BY <1>1, <1>2

\* A function on 1..n is a list of n.
LEMMA FunctionIsList ==
    ASSUME NEW S, NEW n \in Nat, NEW s \in [1..n -> S]
    PROVE  s \in Seq(S) /\ Len(s) = n
OBVIOUS

\* What a row shows of a list of results is a list as long.
LEMMA ShownIs ==
    ASSUME NEW results \in ResultLists
    PROVE  Shown(results) \in ShownLists /\ Len(Shown(results)) = Len(results)
<1>1. DOMAIN results = 1..Len(results) /\ Len(results) \in Nat
  BY DEF ResultLists
<1>2. \A i \in 1..Len(results) : results[i].feature \in Tests /\ results[i].status \in Statuses
  <2>. TAKE i \in 1..Len(results)
  <2>1. results[i] \in Results
    BY <1>1 DEF ResultLists
  <2>. QED
    BY <2>1 DEF Results
<1>3. Shown(results) = [i \in 1..Len(results) |->
                          [feature |-> results[i].feature, status |-> results[i].status]]
  BY <1>1 DEF Shown
<1>4. Shown(results) \in [1..Len(results) -> [feature : Tests, status : Statuses]]
  BY <1>2, <1>3
<1>. QED
  BY <1>1, <1>4, FunctionIsList DEF ShownLists

\* One run moves and the others stand still: what has to be shown of it.
LEMMA OneRunMoves ==
    ASSUME BenchInv, NEW r \in Runs, UNCHANGED <<declared, backend>>,
           events' = events \/ events' = events + 1,
           runs' \in RunsOver(Phases, Plans, CapsRead, ResultLists),
           \A q \in Runs : q # r => runs'[q] = runs[q],
           rows' \in RowsOver(RowStatuses, Totals, ShownLists),
           \A q \in Runs : q # r => rows'[q] = rows[q],
           RunSound(runs'[r]), r \notin Terminals => RowSound(rows'[r], runs'[r]),
           VerdictsTyped(verdicts'), cleanly' \subseteq Runs,
           \A q \in cleanly' : SaysSame(verdicts', runs'[q]),
           Quiet /\ events' = events => RunGreen(runs'[r]) /\ TableGreen(verdicts')
    PROVE  BenchInv'
<1>1. BenchTyped'
  BY DEF BenchInv, BenchTyped
<1>2. \A q \in Runs : RunSound(runs'[q])
  BY DEF BenchInv
<1>3. \A q \in Runs \ Terminals : RowSound(rows'[q], runs'[q])
  BY DEF BenchInv
<1>4. ASSUME Quiet'
      PROVE  (\A q \in Runs : RunGreen(runs[q])') /\ TableGreen(verdicts)'
  <2>1. events' = 0 /\ events \in Nat
    BY <1>4 DEF Quiet, BenchInv, BenchTyped
  <2>2. events' = events
    BY <2>1
  <2>3. Quiet
    BY <1>4, <2>2 DEF Quiet
  <2>4. RunGreen(runs'[r]) /\ TableGreen(verdicts') /\ \A q \in Runs : RunGreen(runs[q])
    BY <2>2, <2>3 DEF BenchInv
  <2>5. \A q \in Runs : RunGreen(runs'[q])
    BY <2>4
  <2>6. \A q \in Runs : RunGreen(runs[q])'
    BY <2>5 DEF RunGreen, Green
  <2>7. TableGreen(verdicts)'
    BY <2>4 DEF TableGreen, Green
  <2>. QED
    BY <2>6, <2>7
<1>. QED
  BY <1>1, <1>2, <1>3, <1>4 DEF BenchInv

\* The fields of a run and of its row.
LEMMA RunTyped ==
    ASSUME BenchTyped, NEW r \in Runs
    PROVE  /\ runs[r].phase \in Phases /\ runs[r].left \in Plans /\ runs[r].caps \in CapsRead
           /\ runs[r].results \in ResultLists /\ runs[r].posted \in Nat
           /\ rows[r].status \in RowStatuses /\ rows[r].completed \in Nat
           /\ rows[r].results \in ShownLists
<1>1. runs \in RunsOver(Phases, Plans, CapsRead, ResultLists)
      /\ rows \in RowsOver(RowStatuses, Totals, ShownLists)
  BY DEF BenchTyped
<1>2. ASSUME NEW A, NEW L, NEW C, NEW S, NEW f \in RunsOver(A, L, C, S)
      PROVE  f[r].phase \in A /\ f[r].left \in L /\ f[r].caps \in C /\ f[r].results \in S
             /\ f[r].posted \in Nat
  BY <1>2 DEF RunsOver
<1>3. ASSUME NEW A, NEW T, NEW S, NEW f \in RowsOver(A, T, S)
      PROVE  f[r].status \in A /\ f[r].completed \in Nat /\ f[r].results \in S
  BY <1>3 DEF RowsOver
<1>. QED
  BY <1>1, <1>2, <1>3

\* Two fields of a record change and the others stay: of a run, and of a row.
LEMMA RecordChanges ==
    ASSUME NEW A, NEW L, NEW C, NEW S, NEW N
    PROVE  /\ \A f \in [phase : A, left : L, caps : C, results : S, posted : N], a \in A, l \in L :
                LET g == [f EXCEPT !.phase = a, !.left = l]
                IN  /\ g \in [phase : A, left : L, caps : C, results : S, posted : N]
                    /\ g.phase = a /\ g.caps = f.caps /\ g.results = f.results
                    /\ g.posted = f.posted
           /\ \A f \in [status : A, total : L, completed : N, results : S], a \in A, l \in L :
                LET g == [f EXCEPT !.status = a, !.total = l]
                IN  /\ g \in [status : A, total : L, completed : N, results : S]
                    /\ g.status = a /\ g.completed = f.completed /\ g.results = f.results
<1>1. ASSUME NEW f \in [phase : A, left : L, caps : C, results : S, posted : N],
             NEW a \in A, NEW l \in L, NEW g, g = [f EXCEPT !.phase = a, !.left = l]
      PROVE  /\ g \in [phase : A, left : L, caps : C, results : S, posted : N]
             /\ g.phase = a /\ g.caps = f.caps /\ g.results = f.results /\ g.posted = f.posted
  BY <1>1
<1>2. ASSUME NEW f \in [status : A, total : L, completed : N, results : S],
             NEW a \in A, NEW l \in L, NEW g, g = [f EXCEPT !.status = a, !.total = l]
      PROVE  /\ g \in [status : A, total : L, completed : N, results : S]
             /\ g.status = a /\ g.completed = f.completed /\ g.results = f.results
  BY <1>2
<1>. QED
  BY <1>1, <1>2, Zenon

\* A run that begins.
LEMMA BegunIs ==
    ASSUME NEW run, run.phase = "testing", run.caps = Unread, run.results = <<>>, run.posted = 0
    PROVE  RunSound(run) /\ RunGreen(run) /\ \A table : SaysSame(table, run)
<1>1. Len(<<>>) = 0
  OBVIOUS
<1>2. InOrder(run.results, run.left)
  BY <1>1 DEF InOrder
<1>3. RunSound(run)
  BY <1>1, <1>2 DEF RunSound
<1>4. RunGreen(run)
  BY <1>1 DEF RunGreen
<1>5. \A table : SaysSame(table, run)
  BY DEF SaysSame
<1>. QED
  BY <1>3, <1>4, <1>5

\* Its row.
LEMMA RowBegunIs ==
    ASSUME NEW row, NEW run, run.results = <<>>, row.status = "running", row.completed = 0,
           row.results = <<>>
    PROVE  RowSound(row, run)
<1>1. <<>> \in ResultLists /\ Len(<<>>) = 0
  BY DEF ResultLists
<1>2. Shown(<<>>) \in ShownLists /\ Len(Shown(<<>>)) = 0
  BY <1>1, ShownIs
<1>3. Shown(<<>>) = <<>>
  <2>. HIDE DEF Shown
  <2>. QED
    BY <1>2 DEF ShownLists
<1>. QED
  BY <1>1, <1>3 DEF RowSound

\* What a run and a row are before.
LEMMA NothingYet ==
    /\ NoRun \in [phase : Phases, left : Plans, caps : CapsRead, results : ResultLists, posted : Nat]
    /\ NoRun.phase = "none" /\ NoRun.left = {} /\ NoRun.caps = Unread /\ NoRun.results = <<>>
    /\ NoRun.posted = 0
    /\ NoRow \in [status : RowStatuses, total : Totals, completed : Nat, results : ShownLists]
    /\ NoRow.status = "none" /\ NoRow.completed = 0 /\ NoRow.results = <<>>
<1>1. "none" \in Phases /\ {} \in Plans /\ Unread \in CapsRead /\ <<>> \in ResultLists
  BY DEF Phases, Plans, CapsRead, ResultLists
<1>2. "none" \in RowStatuses /\ 0 \in Totals /\ <<>> \in ShownLists
  BY DEF RowStatuses, Totals, ShownLists
<1>. HIDE DEF Phases, Plans, CapsRead, ResultLists, RowStatuses, Totals, ShownLists
<1>. QED
  BY <1>1, <1>2 DEF NoRun, NoRow

\* What is put in the place of one value of a function.
LEMMA Replaced ==
    ASSUME NEW S, NEW f \in [Runs -> S], NEW r \in Runs, NEW v \in S, NEW g,
           g = [f EXCEPT ![r] = v]
    PROVE  g \in [Runs -> S] /\ g[r] = v /\ \A q \in Runs : q # r => g[q] = f[q]
OBVIOUS

\* start_model_test keeps the invariant.
LEMMA StartKeeps ==
    ASSUME BenchInv, NEW r \in Runs, Start(r)
    PROVE  BenchInv'
<1>1. PICK only \in Selections[r] :
         /\ runs' = [runs EXCEPT ![r] = [NoRun EXCEPT !.phase = "testing", !.left = Plan(only)]]
         /\ rows' = IF r \in Terminals THEN rows
                    ELSE [rows EXCEPT ![r] = [NoRow EXCEPT !.status = "running",
                            !.total = Cardinality(IF only = {} THEN ToSet(ALL_TESTS) ELSE only)]]
  BY DEF Start
<1>2. UNCHANGED <<declared, backend, verdicts, cleanly, events>>
  BY DEF Start
<1>3. Plan(only) \in Plans
  BY TestsAre DEF Plan, Plans
<1>. DEFINE run == [NoRun EXCEPT !.phase = "testing", !.left = Plan(only)]
            total == Cardinality(IF only = {} THEN ToSet(ALL_TESTS) ELSE only)
            row == [NoRow EXCEPT !.status = "running", !.total = total]
<1>. DEFINE RunRecords == [phase : Phases, left : Plans, caps : CapsRead,
                           results : ResultLists, posted : Nat]
            RowRecords == [status : RowStatuses, total : Totals, completed : Nat,
                           results : ShownLists]
<1>4. /\ run \in RunRecords /\ run.results = <<>>
      /\ RunSound(run) /\ RunGreen(run) /\ \A table : SaysSame(table, run)
  <2>1. "testing" \in Phases
    BY DEF Phases
  <2>2. /\ run \in RunRecords /\ run.phase = "testing" /\ run.caps = Unread
        /\ run.results = <<>> /\ run.posted = 0
    BY <1>3, <2>1, RecordChanges, NothingYet, Zenon
  <2>. HIDE DEF run, RunRecords
  <2>. QED
    BY <2>2, BegunIs
<1>5. total \in Totals
  <2>1. (IF only = {} THEN ToSet(ALL_TESTS) ELSE only)
          \in {ToSet(ALL_TESTS)} \cup UNION {Selections[q] : q \in Runs}
    OBVIOUS
  <2>. QED
    BY <2>1 DEF Totals
<1>6. row \in RowRecords /\ RowSound(row, run)
  <2>1. "running" \in RowStatuses
    BY DEF RowStatuses
  <2>. HIDE DEF total
  <2>2. /\ row \in RowRecords /\ row.status = "running"
        /\ row.completed = 0 /\ row.results = <<>>
    BY <1>5, <2>1, RecordChanges, NothingYet, Zenon
  <2>. HIDE DEF run, row, RowRecords
  <2>. QED
    BY <1>4, <2>2, RowBegunIs
<1>7. runs' = [runs EXCEPT ![r] = run]
      /\ rows' = IF r \in Terminals THEN rows ELSE [rows EXCEPT ![r] = row]
  BY <1>1
<1>. HIDE DEF run, row, total
<1>8. BenchTyped
  BY DEF BenchInv
<1>9. /\ runs' \in RunsOver(Phases, Plans, CapsRead, ResultLists)
      /\ runs'[r] = run /\ \A q \in Runs : q # r => runs'[q] = runs[q]
  BY <1>4, <1>7, <1>8, Replaced, Zenon DEF RunsOver, BenchTyped
<1>10. /\ rows' \in RowsOver(RowStatuses, Totals, ShownLists)
       /\ r \notin Terminals => rows'[r] = row
       /\ \A q \in Runs : q # r => rows'[q] = rows[q]
  <2>1. CASE r \in Terminals
    BY <1>7, <1>8, <2>1 DEF BenchTyped
  <2>2. CASE r \notin Terminals
    BY <1>6, <1>7, <1>8, <2>2, Replaced, Zenon DEF RowsOver, BenchTyped
  <2>. QED
    BY <2>1, <2>2
<1>11. \A q \in cleanly' : SaysSame(verdicts', runs'[q])
  BY <1>2, <1>4, <1>8, <1>9 DEF BenchInv, BenchTyped
<1>12. VerdictsTyped(verdicts') /\ cleanly' \subseteq Runs
  BY <1>2, <1>8 DEF BenchTyped
<1>13. Quiet => TableGreen(verdicts')
  BY <1>2 DEF BenchInv
<1>. QED
  BY <1>2, <1>4, <1>6, <1>9, <1>10, <1>11, <1>12, <1>13, OneRunMoves

\* Of the tests that are left one is first.
LEMMA FirstLeft ==
    ASSUME NEW left \in Plans, left # {},
           NEW at, at = CHOOSE i \in left : \A j \in left : i <= j
    PROVE  at \in left /\ at \in 1..10 /\ \A j \in left : at <= j
<1>1. \E i \in left : \A j \in left : i <= j
  <2>1. left \subseteq 1..10
    BY DEF Plans
  <2>2. CASE 1 \in left \/ 2 \in left \/ 3 \in left
    BY <2>1, <2>2
  <2>3. CASE 1 \notin left /\ 2 \notin left /\ 3 \notin left
             /\ (4 \in left \/ 5 \in left \/ 6 \in left)
    BY <2>1, <2>3
  <2>4. CASE 1 \notin left /\ 2 \notin left /\ 3 \notin left
             /\ 4 \notin left /\ 5 \notin left /\ 6 \notin left
    <3>1. left \subseteq 7..10
      BY <2>1, <2>4
    <3>2. CASE 7 \in left \/ 8 \in left
      BY <3>1, <3>2
    <3>3. CASE 7 \notin left /\ 8 \notin left
      <4>1. left \subseteq 9..10
        BY <3>1, <3>3
      <4>2. CASE 9 \in left
        BY <4>1, <4>2
      <4>3. CASE 9 \notin left
        <5>1. \A i \in left : i = 10
          BY <4>1, <4>3
        <5>2. PICK i \in left : TRUE
          OBVIOUS
        <5>. QED
          BY <5>1, <5>2
      <4>. QED
        BY <4>2, <4>3
    <3>. QED
      BY <3>2, <3>3
  <2>. QED
    BY <2>2, <2>3, <2>4
<1>. QED
  BY <1>1 DEF Plans

\* The result of the first test that is left comes after all others in the suite.
LEMMA InOrderGrows ==
    ASSUME NEW results \in ResultLists, NEW left \in Plans, InOrder(results, left),
           NEW at \in left, \A j \in left : at <= j,
           NEW result \in Results, PlaceOf[result.feature] = at,
           NEW longer, longer = Append(results, result), NEW fewer, fewer = left \ {at}
    PROVE  /\ longer \in ResultLists /\ Len(longer) = Len(results) + 1
           /\ \A i \in 1..Len(results) : longer[i] = results[i]
           /\ longer[Len(results) + 1] = result
           /\ InOrder(longer, fewer)
<1>. DEFINE n == Len(results)
            Place(i) == PlaceOf[longer[i].feature]
<1>1. /\ longer \in ResultLists /\ Len(longer) = n + 1 /\ n \in Nat
      /\ \A i \in 1..n : longer[i] = results[i]
      /\ longer[n + 1] = result
  BY DEF ResultLists
<1>2. left \subseteq 1..10
  BY DEF Plans
<1>3. \A i \in 1..n : /\ Place(i) \in i..10 /\ Place(i) < at
                      /\ \A j \in 1..n : i < j => Place(i) < Place(j)
  BY <1>1 DEF InOrder
<1>4. Place(n + 1) = at /\ at \in 1..10
  BY <1>1, <1>2
<1>5. \A j \in fewer : at < j
  BY <1>2
<1>. HIDE DEF Place, n
<1>6. at >= n + 1
  <2>1. CASE n = 0
    BY <1>4, <2>1
  <2>2. CASE n # 0
    <3>1. n \in 1..n
      BY <1>1, <2>2
    <3>. QED
      BY <1>1, <1>3, <1>4, <3>1
  <2>. QED
    BY <2>1, <2>2
<1>7. ASSUME NEW i \in 1..(n + 1)
      PROVE  Place(i) \in i..10
  <2>1. i \in 1..n \/ i = n + 1
    BY <1>1
  <2>. QED
    BY <1>1, <1>3, <1>4, <1>6, <2>1
<1>8. ASSUME NEW i \in 1..(n + 1), NEW j \in 1..(n + 1), i < j
      PROVE  Place(i) < Place(j)
  <2>1. i \in 1..n /\ (j \in 1..n \/ j = n + 1)
    BY <1>1, <1>8
  <2>. QED
    BY <1>3, <1>4, <1>8, <2>1
<1>9. ASSUME NEW i \in 1..(n + 1), NEW l \in fewer
      PROVE  Place(i) < l
  <2>1. i \in 1..n \/ i = n + 1
    BY <1>1
  <2>2. at < l /\ l \in 1..10
    BY <1>2, <1>5
  <2>3. CASE i \in 1..n
    BY <1>2, <1>3, <2>3
  <2>. QED
    BY <1>4, <2>1, <2>2, <2>3
<1>. QED
  BY <1>1, <1>7, <1>8, <1>9 DEF InOrder, Place, n

\* A run is over and its row has not been written to the end.
LEMMA RowLostKeeps ==
    ASSUME BenchInv, NEW r \in Runs, runs[r].phase = "testing",
           runs' = Phased(runs, r, "over"),
           rows' \in Failed(r),
           UNCHANGED <<declared, backend, verdicts, cleanly>>,
           events' = events \/ events' = events + 1
    PROVE  BenchInv'
<1>1. BenchTyped /\ RunSound(runs[r]) /\ (r \notin Terminals => RowSound(rows[r], runs[r]))
  BY DEF BenchInv
<1>2. /\ runs \in RunsOver(Phases, Plans, CapsRead, ResultLists)
      /\ rows \in RowsOver(RowStatuses, Totals, ShownLists)
  BY <1>1 DEF BenchTyped
<1>3. "over" \in Phases /\ "error" \in RowStatuses
  BY DEF Phases, RowStatuses
<1>4. /\ runs' \in RunsOver(Phases, Plans, CapsRead, ResultLists)
      /\ \A q \in Runs : q # r => runs'[q] = runs[q]
      /\ runs'[r].phase = "over" /\ runs'[r].left = runs[r].left /\ runs'[r].caps = runs[r].caps
      /\ runs'[r].results = runs[r].results /\ runs'[r].posted = runs[r].posted
  BY <1>2, <1>3, RunChanges
<1>5. /\ rows' \in RowsOver(RowStatuses, Totals, ShownLists)
      /\ \A q \in Runs : q # r => rows'[q] = rows[q]
      /\ rows'[r].status \in {rows[r].status, "error"}
      /\ rows'[r].completed = rows[r].completed /\ rows'[r].results = rows[r].results
  <2>1. CASE rows' = rows
    BY <1>2, <2>1
  <2>2. CASE rows' = [rows EXCEPT ![r].status = "error"]
    <3>1. rows' = Marked(rows, r, "error")
      BY <2>2, Zenon DEF Marked
    <3>. QED
      BY <1>2, <1>3, <3>1, RowChanges
  <2>. QED
    BY <2>1, <2>2 DEF Failed
<1>6. RunSound(runs'[r])
  BY <1>1, <1>4 DEF RunSound
<1>7. r \notin Terminals => RowSound(rows'[r], runs'[r])
  BY <1>1, <1>4, <1>5 DEF RowSound
<1>8. VerdictsTyped(verdicts') /\ cleanly' \subseteq Runs
  BY <1>1 DEF BenchTyped
<1>9. \A q \in cleanly' : SaysSame(verdicts', runs'[q])
  <2>1. \A q \in cleanly : q \in Runs /\ SaysSame(verdicts, runs[q])
    BY <1>1 DEF BenchInv, BenchTyped
  <2>2. ASSUME NEW q \in cleanly PROVE SaysSame(verdicts, runs'[q])
    <3>1. CASE q = r
      BY <1>4, <2>1, <3>1 DEF SaysSame
    <3>2. CASE q # r
      BY <1>4, <2>1, <3>2
    <3>. QED
      BY <3>1, <3>2
  <2>. QED
    BY <2>2
<1>10. Quiet => RunGreen(runs'[r]) /\ TableGreen(verdicts')
  BY <1>4 DEF BenchInv, RunGreen
<1>. QED
  BY <1>4, <1>5, <1>6, <1>7, <1>8, <1>9, <1>10, OneRunMoves

\* One test, or the loss of the row after it, keeps the invariant.
LEMMA TestKeeps ==
    ASSUME BenchInv, NEW r \in Runs, Test(r)
    PROVE  BenchInv'
<1>. DEFINE left == runs[r].left
            at == CHOOSE i \in left : \A j \in left : i <= j
            test == ALL_TESTS[at]
            caps == IF runs[r].caps = Unread /\ Reads(test) /\ declared.listed
                    THEN declared ELSE runs[r].caps
            result == Result(test, caps)
            longer == Append(runs[r].results, result)
<1>1. /\ runs[r].phase = "testing" /\ left # {}
      /\ UNCHANGED <<declared, backend, verdicts, cleanly>>
  BY DEF Test
<1>2. \/ /\ runs' = [runs EXCEPT ![r].left = left \ {at}, ![r].caps = caps, ![r].results = longer]
         /\ rows' = IF r \in Terminals THEN rows ELSE Progress(r, longer)
         /\ events' = events
      \/ /\ events' = events + 1 /\ r \notin Terminals
         /\ runs' = [runs EXCEPT ![r].phase = "over"]
         /\ rows' \in Failed(r)
  BY DEF Test, Strikes
<1>3. BenchTyped /\ RunSound(runs[r]) /\ (r \notin Terminals => RowSound(rows[r], runs[r]))
  BY DEF BenchInv
<1>4. /\ left \in Plans /\ runs[r].caps \in CapsRead
      /\ runs[r].results \in ResultLists /\ runs[r].posted \in Nat
      /\ runs \in RunsOver(Phases, Plans, CapsRead, ResultLists)
      /\ rows \in RowsOver(RowStatuses, Totals, ShownLists)
      /\ declared \in Declared /\ backend \in Backends
  BY <1>3, RunTyped DEF BenchTyped
<1>5. at \in left /\ at \in 1..10 /\ \A j \in left : at <= j
  BY <1>1, <1>4, FirstLeft
<1>6. test \in Tests /\ PlaceOf[test] = at
  BY <1>5, TestsAre
<1>7. caps \in CapsRead
  BY <1>4 DEF CapsRead
<1>. HIDE DEF at, test, caps
<1>8. /\ result \in Results /\ result.feature = test /\ result.caps = caps
      /\ result.of = declared /\ result.by = backend /\ result.status = StatusOf(test, caps)
  BY <1>4, <1>6, <1>7, ResultIs
<1>9. Earned(result)
  BY <1>4, <1>6, <1>7, <1>8, ResultEarned DEF Earned
<1>10. Quiet => Green(test, result.status) /\ caps \in {Unread, declared}
  <2>1. SUFFICES ASSUME Quiet PROVE Green(test, result.status) /\ caps \in {Unread, declared}
    OBVIOUS
  <2>2. RunGreen(runs[r]) /\ declared.listed = TRUE
    BY <2>1 DEF BenchInv, Quiet
  <2>3. caps \in {Unread, declared} /\ (Reads(test) => caps = declared)
    BY <2>2 DEF caps, RunGreen
  <2>. QED
    BY <1>4, <1>6, <1>8, <2>1, <2>3, ResultGreen
<1>. HIDE DEF result
<1>11. InOrder(runs[r].results, left) /\ runs[r].posted = 0
  BY <1>1, <1>3 DEF RunSound
<1>12. /\ longer \in ResultLists /\ Len(longer) = Len(runs[r].results) + 1
       /\ \A i \in 1..Len(runs[r].results) : longer[i] = runs[r].results[i]
       /\ longer[Len(runs[r].results) + 1] = result
       /\ InOrder(longer, left \ {at})
  BY <1>4, <1>5, <1>6, <1>8, <1>11, InOrderGrows
<1>13. Len(runs[r].results) \in Nat
  BY <1>4 DEF ResultLists
<1>14. \A i \in 1..Len(longer) : i \in 1..Len(runs[r].results) \/ i = Len(runs[r].results) + 1
  BY <1>12, <1>13
<1>. HIDE DEF longer
<1>15. CASE /\ runs' = [runs EXCEPT ![r].left = left \ {at}, ![r].caps = caps, ![r].results = longer]
            /\ rows' = IF r \in Terminals THEN rows ELSE Progress(r, longer)
            /\ events' = events
  <2>. DEFINE fewer == left \ {at}
  <2>1. fewer \in Plans /\ left \ {at} = fewer
    BY <1>4 DEF Plans
  <2>. HIDE DEF fewer, left
  <2>2. runs' = [runs EXCEPT ![r].left = fewer, ![r].caps = caps, ![r].results = longer]
    BY <1>15, <2>1
  <2>3. /\ runs' \in RunsOver(Phases, Plans, CapsRead, ResultLists)
        /\ \A q \in Runs : q # r => runs'[q] = runs[q]
        /\ runs'[r].phase = runs[r].phase /\ runs'[r].left = fewer /\ runs'[r].caps = caps
        /\ runs'[r].results = longer /\ runs'[r].posted = runs[r].posted
    <3>1. runs' = Tested(runs, r, fewer, caps, longer)
      BY <2>2, Zenon DEF Tested
    <3>. QED
      BY <1>4, <1>7, <1>12, <2>1, <3>1, RunChanges
  <2>4. RunSound(runs'[r])
    <3>1. \A i \in 1..Len(longer) : Earned(longer[i])
      BY <1>3, <1>9, <1>12, <1>14 DEF RunSound
    <3>2. runs'[r].posted = 0 /\ 0 <= Len(longer)
      BY <1>11, <1>12, <1>13, <2>3
    <3>3. InOrder(longer, fewer) /\ runs'[r].phase = "testing"
      BY <1>1, <1>12, <2>1, <2>3
    <3>. QED
      BY <2>3, <3>1, <3>2, <3>3 DEF RunSound
  <2>5. /\ rows' \in RowsOver(RowStatuses, Totals, ShownLists)
        /\ \A q \in Runs : q # r => rows'[q] = rows[q]
        /\ r \notin Terminals => RowSound(rows'[r], runs'[r])
    <3>1. CASE r \in Terminals
      BY <1>4, <1>15, <3>1
    <3>2. CASE r \notin Terminals
      <4>1. /\ Shown(longer) \in ShownLists /\ Len(Shown(longer)) = Len(longer)
            /\ Len(longer) \in Nat
        BY <1>12, <1>13, ShownIs
      <4>. DEFINE n == Len(longer)
                  list == Shown(longer)
      <4>2. rows' = [rows EXCEPT ![r].completed = n, ![r].results = list]
        BY <1>15, <3>2 DEF Progress
      <4>3. n \in Nat /\ list \in ShownLists
        BY <4>1
      <4>. HIDE DEF n, list
      <4>4. /\ rows' \in RowsOver(RowStatuses, Totals, ShownLists)
            /\ \A q \in Runs : q # r => rows'[q] = rows[q]
            /\ rows'[r].status = rows[r].status /\ rows'[r].completed = n
            /\ rows'[r].results = list
        <5>1. rows' = Filled(rows, r, n, list)
          BY <4>2, Zenon DEF Filled
        <5>. QED
          BY <1>4, <4>3, <5>1, RowChanges
      <4>5. rows[r].status # "done"
        BY <1>1, <1>3, <3>2 DEF RowSound
      <4>6. RowSound(rows'[r], runs'[r])
        BY <2>3, <4>1, <4>4, <4>5 DEF RowSound, n, list
      <4>. QED
        BY <4>4, <4>6
    <3>. QED
      BY <3>1, <3>2
  <2>6. \A q \in cleanly' : SaysSame(verdicts', runs'[q])
    <3>1. SaysSame(verdicts, runs'[r])
      BY <1>11, <2>3 DEF SaysSame
    <3>2. \A q \in cleanly : q \in Runs /\ SaysSame(verdicts, runs[q])
      BY <1>3 DEF BenchInv, BenchTyped
    <3>. QED
      BY <1>1, <2>3, <3>1, <3>2
  <2>7. Quiet => RunGreen(runs'[r]) /\ TableGreen(verdicts')
    <3>. SUFFICES ASSUME Quiet PROVE RunGreen(runs'[r]) /\ TableGreen(verdicts')
      OBVIOUS
    <3>1. RunGreen(runs[r]) /\ TableGreen(verdicts)
      BY DEF BenchInv
    <3>2. \A i \in 1..Len(longer) : Green(longer[i].feature, longer[i].status)
      BY <1>8, <1>10, <1>12, <1>14, <3>1 DEF RunGreen
    <3>. QED
      BY <1>1, <1>10, <2>3, <3>1, <3>2 DEF RunGreen
  <2>8. VerdictsTyped(verdicts') /\ cleanly' \subseteq Runs
    BY <1>1, <1>3 DEF BenchTyped
  <2>. QED
    BY <1>1, <1>15, <2>3, <2>4, <2>5, <2>6, <2>7, <2>8, OneRunMoves
<1>16. CASE /\ events' = events + 1 /\ r \notin Terminals
            /\ runs' = [runs EXCEPT ![r].phase = "over"]
            /\ rows' \in Failed(r)
  <2>1. runs' = Phased(runs, r, "over")
    BY <1>16, Zenon DEF Phased
  <2>. QED
    BY <1>1, <1>16, <2>1, RowLostKeeps
<1>. QED
  BY <1>2, <1>15, <1>16

\* One result of publish() keeps the invariant, whether it arrives or not.
LEMMA PostKeeps ==
    ASSUME BenchInv, NEW r \in Runs, Post(r)
    PROVE  BenchInv'
<1>. DEFINE result == runs[r].results[runs[r].posted + 1]
            table == [f \in DOMAIN verdicts \cup {result.feature} |->
                        IF f = result.feature THEN result.status ELSE verdicts[f]]
<1>1. /\ runs[r].phase = "testing" /\ runs[r].left = {}
      /\ runs[r].posted < Len(runs[r].results)
      /\ UNCHANGED <<declared, backend, rows>>
  BY DEF Post
<1>2. \/ /\ verdicts' = table
         /\ cleanly' = IF runs[r].posted = 0 THEN {r} ELSE cleanly \cap {r}
         /\ events' = events
      \/ /\ events' = events + 1 /\ verdicts' = verdicts /\ cleanly' = cleanly \ {r}
  BY DEF Post, Strikes
<1>3. runs' = [runs EXCEPT ![r].posted = @ + 1]
  BY DEF Post
<1>4. BenchTyped /\ RunSound(runs[r]) /\ (r \notin Terminals => RowSound(rows[r], runs[r]))
  BY DEF BenchInv
<1>5. /\ runs[r].results \in ResultLists /\ runs[r].posted \in Nat
      /\ runs \in RunsOver(Phases, Plans, CapsRead, ResultLists)
      /\ rows \in RowsOver(RowStatuses, Totals, ShownLists)
      /\ VerdictsTyped(verdicts) /\ cleanly \subseteq Runs
  BY <1>4, RunTyped DEF BenchTyped
<1>6. /\ runs' \in RunsOver(Phases, Plans, CapsRead, ResultLists)
      /\ \A q \in Runs : q # r => runs'[q] = runs[q]
      /\ runs'[r].phase = runs[r].phase /\ runs'[r].left = runs[r].left
      /\ runs'[r].caps = runs[r].caps
      /\ runs'[r].results = runs[r].results /\ runs'[r].posted = runs[r].posted + 1
  <2>1. runs' = Posted(runs, r)
    BY <1>3, Zenon DEF Posted
  <2>. QED
    BY <1>5, <2>1, RunChanges
<1>. DEFINE n == Len(runs[r].results)
            p == runs[r].posted
<1>7. n \in Nat /\ p \in Nat /\ p < n /\ p + 1 \in 1..n
  BY <1>1, <1>5 DEF ResultLists
<1>8. result \in Results
  BY <1>5, <1>7 DEF ResultLists
<1>9. result.feature \in Tests /\ result.status \in Statuses
  BY <1>8 DEF Results
<1>10. \A i \in 1..p : runs[r].results[i].feature # result.feature
  <2>1. ASSUME NEW i \in 1..p
        PROVE  PlaceOf[runs[r].results[i].feature] < PlaceOf[result.feature]
    <3>1. i \in 1..n /\ i < p + 1
      BY <1>7
    <3>. QED
      BY <1>4, <1>7, <3>1 DEF RunSound, InOrder
  <2>2. PlaceOf[result.feature] \in Nat
    <3>1. PlaceOf[result.feature] \in (p + 1)..10
      BY <1>4, <1>7 DEF RunSound, InOrder
    <3>. QED
      BY <1>7, <3>1
  <2>. QED
    BY <2>1, <2>2
<1>. HIDE DEF result
<1>11. /\ DOMAIN table = DOMAIN verdicts \cup {result.feature}
       /\ table[result.feature] = result.status
       /\ \A f \in DOMAIN verdicts : f # result.feature => table[f] = verdicts[f]
  OBVIOUS
<1>. HIDE DEF table
<1>12. VerdictsTyped(verdicts')
  <2>1. CASE verdicts' = table
    BY <1>5, <1>9, <1>11, <2>1 DEF VerdictsTyped
  <2>2. CASE verdicts' = verdicts
    BY <1>5, <2>2
  <2>. QED
    BY <1>2, <2>1, <2>2
<1>13. cleanly' \subseteq Runs
  BY <1>2, <1>5
<1>14. RunSound(runs'[r])
  <2>1. p + 1 <= n
    BY <1>7
  <2>. QED
    BY <1>1, <1>4, <1>6, <2>1 DEF RunSound
<1>15. r \notin Terminals => RowSound(rows'[r], runs'[r])
  BY <1>1, <1>4, <1>6 DEF RowSound
<1>16. \A q \in cleanly' : SaysSame(verdicts', runs'[q])
  <2>1. CASE /\ verdicts' = table
             /\ cleanly' = IF runs[r].posted = 0 THEN {r} ELSE cleanly \cap {r}
    <3>. SUFFICES ASSUME r \in cleanly'
                  PROVE  SaysSame(table, runs'[r])
      BY <2>1
    <3>1. ASSUME NEW i \in 1..(p + 1)
          PROVE  /\ runs[r].results[i].feature \in DOMAIN table
                 /\ table[runs[r].results[i].feature] = runs[r].results[i].status
      <4>1. CASE i = p + 1
        BY <1>11, <4>1 DEF result
      <4>2. CASE i # p + 1
        <5>1. i \in 1..p /\ p # 0
          BY <1>7, <4>2
        <5>2. r \in cleanly
          BY <2>1, <5>1
        <5>3. SaysSame(verdicts, runs[r])
          BY <5>2 DEF BenchInv
        <5>4. /\ runs[r].results[i].feature \in DOMAIN verdicts
              /\ verdicts[runs[r].results[i].feature] = runs[r].results[i].status
          BY <5>1, <5>3 DEF SaysSame
        <5>. QED
          BY <1>10, <1>11, <5>1, <5>4
      <4>. QED
        BY <4>1, <4>2
    <3>. QED
      BY <1>6, <3>1 DEF SaysSame
  <2>2. CASE verdicts' = verdicts /\ cleanly' = cleanly \ {r}
    BY <1>5, <1>6, <2>2 DEF BenchInv
  <2>. QED
    BY <1>2, <2>1, <2>2
<1>17. Quiet /\ events' = events => RunGreen(runs'[r]) /\ TableGreen(verdicts')
  <2>. SUFFICES ASSUME Quiet PROVE RunGreen(runs'[r]) /\ TableGreen(verdicts')
    OBVIOUS
  <2>1. RunGreen(runs[r]) /\ TableGreen(verdicts)
    BY DEF BenchInv
  <2>2. RunGreen(runs'[r])
    BY <1>6, <2>1 DEF RunGreen
  <2>3. Green(result.feature, result.status)
    BY <1>7, <2>1 DEF RunGreen, result
  <2>4. TableGreen(table)
    BY <1>11, <2>1, <2>3 DEF TableGreen
  <2>. QED
    BY <1>2, <2>1, <2>2, <2>4
<1>18. events' = events \/ events' = events + 1
  BY <1>2
<1>19. rows' \in RowsOver(RowStatuses, Totals, ShownLists) /\ \A q \in Runs : q # r => rows'[q] = rows[q]
  BY <1>1, <1>5
<1>. QED
  BY <1>1, <1>6, <1>12, <1>13, <1>14, <1>15, <1>16, <1>17, <1>18, <1>19, OneRunMoves

\* The end of a run keeps the invariant: a row that is "done" shows all that was found.
LEMMA FinishKeeps ==
    ASSUME BenchInv, NEW r \in Runs, Finish(r)
    PROVE  BenchInv'
<1>. DEFINE n == Len(runs[r].results)
            list == Shown(runs[r].results)
<1>1. /\ runs[r].phase = "testing" /\ runs[r].left = {} /\ runs[r].posted = n
      /\ UNCHANGED <<declared, backend, verdicts, cleanly>>
  BY DEF Finish
<1>2. runs' = Phased(runs, r, "over")
  BY Zenon DEF Finish, Phased
<1>3. \/ events' = events /\ r \in Terminals /\ rows' = rows
      \/ /\ events' = events /\ r \notin Terminals
         /\ rows' = Marked(Filled(rows, r, n, list), r, "done")
      \/ events' = events + 1 /\ rows' \in Failed(r)
  BY Zenon DEF Finish, Strikes, Progress, Marked, Filled
<1>4. BenchTyped /\ RunSound(runs[r])
  BY DEF BenchInv
<1>5. /\ runs[r].results \in ResultLists
      /\ runs \in RunsOver(Phases, Plans, CapsRead, ResultLists)
      /\ rows \in RowsOver(RowStatuses, Totals, ShownLists)
  BY <1>4, RunTyped DEF BenchTyped
<1>6. "over" \in Phases /\ "done" \in RowStatuses
  BY DEF Phases, RowStatuses
<1>7. list \in ShownLists /\ Len(list) = n /\ n \in Nat
  BY <1>5, ShownIs DEF ResultLists
<1>8. CASE rows' = rows \/ rows' \in Failed(r)
  <2>1. rows' \in Failed(r)
    BY <1>8 DEF Failed
  <2>. QED
    BY <1>1, <1>2, <1>3, <2>1, RowLostKeeps
<1>9. CASE /\ events' = events /\ r \notin Terminals
           /\ rows' = Marked(Filled(rows, r, n, list), r, "done")
  <2>1. /\ runs' \in RunsOver(Phases, Plans, CapsRead, ResultLists)
        /\ \A q \in Runs : q # r => runs'[q] = runs[q]
        /\ runs'[r].phase = "over" /\ runs'[r].left = runs[r].left /\ runs'[r].caps = runs[r].caps
        /\ runs'[r].results = runs[r].results /\ runs'[r].posted = runs[r].posted
    BY <1>2, <1>5, <1>6, RunChanges
  <2>. DEFINE filled == Filled(rows, r, n, list)
  <2>. HIDE DEF n, list
  <2>2. /\ filled \in RowsOver(RowStatuses, Totals, ShownLists)
        /\ \A q \in Runs : q # r => filled[q] = rows[q]
        /\ filled[r].completed = n /\ filled[r].results = list
    BY <1>5, <1>7, RowChanges
  <2>. HIDE DEF filled
  <2>3. /\ rows' \in RowsOver(RowStatuses, Totals, ShownLists)
        /\ \A q \in Runs : q # r => rows'[q] = filled[q]
        /\ rows'[r].completed = n /\ rows'[r].results = list
    <3>1. rows' = Marked(filled, r, "done")
      BY <1>9 DEF filled
    <3>. QED
      BY <1>6, <2>2, <3>1, RowChanges
  <2>4. RunSound(runs'[r])
    BY <1>4, <2>1 DEF RunSound
  <2>5. RowSound(rows'[r], runs'[r])
    BY <1>1, <1>7, <2>1, <2>3 DEF RowSound, n, list
  <2>6. VerdictsTyped(verdicts') /\ cleanly' \subseteq Runs
    BY <1>1, <1>4 DEF BenchTyped
  <2>7. \A q \in cleanly' : SaysSame(verdicts', runs'[q])
    <3>1. \A q \in cleanly : q \in Runs /\ SaysSame(verdicts, runs[q])
      BY <1>4 DEF BenchInv, BenchTyped
    <3>2. ASSUME NEW q \in cleanly PROVE SaysSame(verdicts, runs'[q])
      <4>1. CASE q = r
        BY <2>1, <3>1, <4>1 DEF SaysSame
      <4>2. CASE q # r
        BY <2>1, <3>1, <4>2
      <4>. QED
        BY <4>1, <4>2
    <3>. QED
      BY <1>1, <3>2
  <2>8. Quiet => RunGreen(runs'[r]) /\ TableGreen(verdicts')
    BY <1>1, <2>1 DEF BenchInv, RunGreen
  <2>9. \A q \in Runs : q # r => rows'[q] = rows[q]
    BY <2>2, <2>3
  <2>. QED
    BY <1>1, <1>9, <2>1, <2>3, <2>4, <2>5, <2>6, <2>7, <2>8, <2>9, OneRunMoves
<1>. QED
  BY <1>3, <1>8, <1>9

\* A worker that goes away keeps the invariant.
LEMMA CrashKeeps ==
    ASSUME BenchInv, NEW r \in Runs, Crash(r)
    PROVE  BenchInv'
<1>1. runs[r].phase = "testing" /\ UNCHANGED <<declared, backend, rows, verdicts, cleanly, events>>
  BY DEF Crash
<1>2. runs' = Phased(runs, r, "over")
  BY Zenon DEF Crash, Phased
<1>3. rows' \in Failed(r)
  BY <1>1 DEF Failed
<1>. QED
  BY <1>1, <1>2, <1>3, RowLostKeeps

\* An edit of the registry, or another server, keeps the invariant.
LEMMA ChangeKeeps ==
    ASSUME BenchInv, Change
    PROVE  BenchInv'
<1>1. /\ events' = events + 1 /\ declared' \in Declared /\ backend' \in Backends
      /\ UNCHANGED <<runs, rows, verdicts, cleanly>>
  BY DEF Change, BenchInv, BenchTyped
<1>2. BenchTyped /\ events \in Nat
  BY DEF BenchInv, BenchTyped
<1>3. BenchTyped'
  BY <1>1, <1>2 DEF BenchTyped
<1>4. ~Quiet'
  BY <1>1, <1>2 DEF Quiet
<1>. QED
  BY <1>1, <1>3, <1>4 DEF BenchInv

\* Before the first run.
LEMMA BenchInit == Init => BenchInv
<1>. SUFFICES ASSUME Init PROVE BenchInv
  OBVIOUS
<1>1. /\ declared \in Declared /\ backend \in Backends
      /\ runs = [r \in Runs |-> NoRun] /\ rows = [r \in Runs |-> NoRow]
      /\ verdicts = <<>> /\ cleanly = {} /\ events = 0
  BY DEF Init
<1>2. DOMAIN verdicts = {}
  BY <1>1
<1>3. runs \in RunsOver(Phases, Plans, CapsRead, ResultLists)
      /\ rows \in RowsOver(RowStatuses, Totals, ShownLists)
  <2>1. \A r \in Runs : runs[r] = NoRun /\ rows[r] = NoRow
    BY <1>1
  <2>. QED
    BY <1>1, NothingYet, Zenon DEF RunsOver, RowsOver
<1>4. BenchTyped
  BY <1>1, <1>2, <1>3 DEF BenchTyped, VerdictsTyped
<1>5. Len(<<>>) = 0
  OBVIOUS
<1>6. RunSound(NoRun)
  BY <1>5, NothingYet DEF RunSound, InOrder
<1>7. RowSound(NoRow, NoRun)
  <2>1. <<>> \in ResultLists
    BY DEF ResultLists
  <2>2. Shown(<<>>) \in ShownLists /\ Len(Shown(<<>>)) = 0
    BY <1>5, <2>1, ShownIs
  <2>3. Shown(<<>>) = <<>>
    <3>. HIDE DEF Shown
    <3>. QED
      BY <2>2 DEF ShownLists
  <2>. QED
    BY <1>5, <2>3, NothingYet DEF RowSound
<1>8. RunGreen(NoRun)
  BY <1>5, NothingYet DEF RunGreen
<1>9. TableGreen(verdicts)
  BY <1>2 DEF TableGreen
<1>. QED
  BY <1>1, <1>4, <1>6, <1>7, <1>8, <1>9 DEF BenchInv

\* A run all of whose ten results have been posted has one of every test, at its place.
LEMMA TenAreAll ==
    ASSUME BenchTyped, NEW r \in Runs, RunSound(runs[r]), runs[r].posted = 10
    PROVE  /\ Len(runs[r].results) = 10
           /\ \A f \in Tests : \E i \in 1..10 : runs[r].results[i].feature = f
<1>. DEFINE n == Len(runs[r].results)
            Place(i) == PlaceOf[runs[r].results[i].feature]
<1>1. runs[r].results \in ResultLists /\ n \in Nat /\ n >= 10
  BY RunTyped DEF ResultLists, RunSound
<1>2. \A i \in 1..n : Place(i) \in i..10
  BY DEF RunSound, InOrder
<1>3. \A i, j \in 1..n : i < j => Place(i) < Place(j)
  BY DEF RunSound, InOrder
<1>4. \A i \in 1..n : runs[r].results[i].feature \in Tests
  <2>1. \A i \in 1..n : runs[r].results[i] \in Results
    BY <1>1 DEF ResultLists
  <2>. QED
    BY <2>1 DEF Results
<1>. HIDE DEF n, Place
<1>5. n = 10
  <2>1. Place(n) \in n..10
    BY <1>1, <1>2
  <2>. QED
    BY <1>1, <2>1
<1>6. ASSUME NEW i \in 1..10 PROVE Place(i) = i
  <2>1. \A j \in 1..10 : Place(j) \in j..10
    BY <1>2, <1>5
  <2>2. \A j, k \in 1..10 : j < k => Place(j) < Place(k)
    BY <1>3, <1>5
  <2>3. Place(10) = 10
    BY <2>1
  <2>4. Place(9) = 9
    BY <2>1, <2>2, <2>3
  <2>5. Place(8) = 8
    BY <2>1, <2>2, <2>4
  <2>6. Place(7) = 7
    BY <2>1, <2>2, <2>5
  <2>7. Place(6) = 6
    BY <2>1, <2>2, <2>6
  <2>8. Place(5) = 5
    BY <2>1, <2>2, <2>7
  <2>9. Place(4) = 4
    BY <2>1, <2>2, <2>8
  <2>10. Place(3) = 3
    BY <2>1, <2>2, <2>9
  <2>11. Place(2) = 2
    BY <2>1, <2>2, <2>10
  <2>12. Place(1) = 1
    BY <2>1, <2>2, <2>11
  <2>. QED
    BY <2>3, <2>4, <2>5, <2>6, <2>7, <2>8, <2>9, <2>10, <2>11, <2>12
<1>7. ASSUME NEW f \in Tests
      PROVE  \E i \in 1..10 : runs[r].results[i].feature = f
  <2>1. \A g \in Tests : PlaceOf[g] \in 1..10 /\ ALL_TESTS[PlaceOf[g]] = g
    BY TestsAreByPlace
  <2>2. PICK i \in 1..10 : i = PlaceOf[f]
    BY <2>1
  <2>3. PlaceOf[runs[r].results[i].feature] = i /\ runs[r].results[i].feature \in Tests
    BY <1>4, <1>5, <1>6 DEF Place
  <2>. QED
    BY <2>1, <2>2, <2>3
<1>. QED
  BY <1>5, <1>7 DEF n

\* What the invariant says of the table: after a whole publication it holds that run's
\* verdicts, and the badge shows a failure exactly when that run has found one.
LEMMA LatestFollows ==
    ASSUME BenchInv
    PROVE  BadgeIsTheLatest
<1>. SUFFICES ASSUME NEW r \in cleanly
              PROVE  /\ \A i \in 1..runs[r].posted :
                          LET result == runs[r].results[i]
                          IN  /\ result.feature \in DOMAIN verdicts
                              /\ verdicts[result.feature] = result.status
                     /\ runs[r].phase = "over" /\ runs[r].posted = Len(ALL_TESTS) =>
                          (Badge = "DEGRADED" <=>
                             \E i \in DOMAIN runs[r].results : runs[r].results[i].status = "fail")
  BY DEF BadgeIsTheLatest
<1>1. /\ BenchTyped /\ r \in Runs /\ VerdictsTyped(verdicts)
      /\ SaysSame(verdicts, runs[r]) /\ RunSound(runs[r])
  BY DEF BenchInv, BenchTyped
<1>2. \A i \in 1..runs[r].posted :
        /\ runs[r].results[i].feature \in DOMAIN verdicts
        /\ verdicts[runs[r].results[i].feature] = runs[r].results[i].status
  BY <1>1 DEF SaysSame
<1>3. ASSUME runs[r].posted = Len(ALL_TESTS)
      PROVE  Badge = "DEGRADED" <=>
               \E i \in DOMAIN runs[r].results : runs[r].results[i].status = "fail"
  <2>1. runs[r].posted = 10
    BY <1>3, TestsAre
  <2>2. /\ Len(runs[r].results) = 10
        /\ \A f \in Tests : \E i \in 1..10 : runs[r].results[i].feature = f
    BY <1>1, <2>1, TenAreAll
  <2>3. DOMAIN runs[r].results = 1..10
    BY <1>1, <2>2, RunTyped DEF ResultLists
  <2>4. Badge = "DEGRADED" <=> \E f \in DOMAIN verdicts : verdicts[f] = "fail"
    BY DEF Badge
  <2>5. (\E f \in DOMAIN verdicts : verdicts[f] = "fail") <=>
          \E i \in 1..10 : runs[r].results[i].status = "fail"
    <3>1. ASSUME NEW f \in DOMAIN verdicts, verdicts[f] = "fail"
          PROVE  \E i \in 1..10 : runs[r].results[i].status = "fail"
      <4>1. f \in Tests
        BY <1>1 DEF VerdictsTyped
      <4>2. PICK i \in 1..10 : runs[r].results[i].feature = f
        BY <2>2, <4>1
      <4>. QED
        BY <1>2, <2>1, <3>1, <4>2
    <3>2. ASSUME NEW i \in 1..10, runs[r].results[i].status = "fail"
          PROVE  \E f \in DOMAIN verdicts : verdicts[f] = "fail"
      BY <1>2, <2>1, <3>2
    <3>. QED
      BY <3>1, <3>2
  <2>. QED
    BY <2>3, <2>4, <2>5
<1>. QED
  BY <1>2, <1>3

\* What the invariant says of the rows and of the passes.
LEMMA BadgesFollow ==
    ASSUME BenchInv
    PROVE  BadgesAreEarned
<1>1. BenchTyped
  BY DEF BenchInv
<1>2. BenchTypeOK
  <2>1. \A f \in DOMAIN verdicts : f \in ToSet(ALL_TESTS) /\ verdicts[f] \in Statuses
    BY <1>1, TestsAre DEF BenchTyped, VerdictsTyped
  <2>2. \A r \in Runs : /\ runs[r].posted <= Len(runs[r].results)
                        /\ rows[r].status \in {"none", "running", "done", "error"}
    BY <1>1, RunTyped DEF BenchInv, RunSound, RowStatuses
  <2>. QED
    BY <1>1, <2>1, <2>2 DEF BenchTypeOK, BenchTyped
<1>3. RowTellsProgress
  <2>. SUFFICES ASSUME NEW r \in Runs \ Terminals
                PROVE  LET row == rows[r]
                       IN  /\ row.completed = Len(row.results)
                           /\ IsPrefix(row.results, Shown(runs[r].results))
                           /\ row.status = "done" =>
                                /\ runs[r].left = {} /\ runs[r].posted = Len(runs[r].results)
                                /\ row.results = Shown(runs[r].results)
    BY DEF RowTellsProgress
  <2>1. RowSound(rows[r], runs[r]) /\ rows[r].results \in ShownLists
    BY <1>1, RunTyped DEF BenchInv
  <2>2. IsPrefix(rows[r].results, rows[r].results)
    <3>. DEFINE list == rows[r].results
    <3>1. list \in ShownLists /\ Len(list) \in Nat
      BY <2>1 DEF ShownLists
    <3>. HIDE DEF list
    <3>. QED
      BY <3>1 DEF IsPrefix, list
  <2>. QED
    BY <2>1, <2>2 DEF RowSound
<1>4. PassIsEarned
  <2>. SUFFICES ASSUME NEW r \in Runs, NEW i \in DOMAIN runs[r].results
                PROVE  Earned(runs[r].results[i])
    BY DEF PassIsEarned, Earned
  <2>1. i \in 1..Len(runs[r].results)
    BY <1>1, RunTyped DEF ResultLists
  <2>. QED
    BY <2>1 DEF BenchInv, RunSound
<1>5. AsDeclaredIsGreen
  <2>. SUFFICES ASSUME events = 0, declared.listed, Matches(backend, declared)
                PROVE  TableGreen(verdicts)
    BY DEF AsDeclaredIsGreen, TableGreen
  <2>1. declared.listed \in BOOLEAN
    BY <1>1, BenchNumbers DEF BenchTyped
  <2>2. Quiet
    BY <2>1 DEF Quiet
  <2>. QED
    BY <2>2 DEF BenchInv
<1>. QED
  BY <1>2, <1>3, <1>4, <1>5, LatestFollows DEF BadgesAreEarned

\* BadgesAreEarned, in every reachable state of the console.
THEOREM BadgesHold == SpecAll => []BadgesAreEarned
<1>1. InitAll => BenchInv
  BY BenchInit DEF InitAll
<1>2. BenchInv /\ [NextAll]_all => BenchInv'
  <2>. SUFFICES ASSUME BenchInv, [NextAll]_all PROVE BenchInv'
    OBVIOUS
  <2>1. CASE Next
    <3>1. ASSUME NEW r \in Runs, Start(r) \/ Test(r) \/ Post(r) \/ Finish(r) \/ Crash(r)
          PROVE  BenchInv'
      BY <3>1, StartKeeps, TestKeeps, PostKeeps, FinishKeeps, CrashKeeps
    <3>. QED
      BY <2>1, <3>1, ChangeKeeps DEF Next
  <2>2. CASE UNCHANGED bench
    <3>1. UNCHANGED <<declared, backend, runs, rows, verdicts, cleanly, events>>
      BY <2>2 DEF bench
    <3>2. BenchTyped'
      BY <3>1 DEF BenchInv, BenchTyped
    <3>3. Quiet' => Quiet
      BY <3>1 DEF Quiet
    <3>4. (\A r \in Runs : RunGreen(runs[r]))' <=> (\A r \in Runs : RunGreen(runs[r]))
      BY <3>1 DEF RunGreen, Green
    <3>5. TableGreen(verdicts)' <=> TableGreen(verdicts)
      BY <3>1 DEF TableGreen, Green
    <3>. QED
      BY <3>1, <3>2, <3>3, <3>4, <3>5 DEF BenchInv
  <2>3. [NextAll]_all => Next \/ UNCHANGED bench
    BY DEF NextAll, all
  <2>. QED
    BY <2>1, <2>2, <2>3
<1>3. BenchInv => BadgesAreEarned
  BY BadgesFollow
<1>. QED
  BY <1>1, <1>2, <1>3, PTL DEF SpecAll

-----------------------------------------------------------------------------
(* The calendar of the limits.                                             *)

\* The least of a set of numbers is in it.
LEMMA LeastIs ==
    ASSUME NEW S, S \subseteq Nat, S # {}
    PROVE  Q!LeastOf(S) \in S /\ \A y \in S : Q!LeastOf(S) <= y
<1>1. \E x \in S : \A y \in S : ~(<<y, x>> \in OpToRel(<, Nat))
  BY NatLessThanWellFounded, WFMin, Zenon
<1>2. PICK x \in S : \A y \in S : ~(<<y, x>> \in OpToRel(<, Nat))
  BY <1>1
<1>3. ASSUME NEW y \in S, y < x PROVE FALSE
  <2>1. <<y, x>> \in OpToRel(<, Nat)
    BY <1>3, Zenon DEF OpToRel
  <2>. QED
    BY <1>2, <2>1
<1>4. \A y \in S : x <= y
  BY <1>3
<1>. QED
  BY <1>4 DEF Q!LeastOf

\* Of a set of numbers that has a bound the largest is in it.
LEMMA MostIs ==
    ASSUME NEW n \in Nat, NEW S, S \subseteq 0..n, S # {}
    PROVE  Q!MostOf(S) \in S /\ \A y \in S : y <= Q!MostOf(S)
<1>. DEFINE T == {n - y : y \in S}
<1>1. T \subseteq Nat /\ T # {}
  <2>1. \A y \in S : n - y \in Nat
    OBVIOUS
  <2>. QED
    BY <2>1
<1>2. PICK x \in S : n - x = Q!LeastOf(T)
  <2>1. Q!LeastOf(T) \in T
    <3>. HIDE DEF T
    <3>. QED
      BY <1>1, LeastIs
  <2>. QED
    BY <2>1
<1>3. \A z \in T : n - x <= z
  <2>. HIDE DEF T
  <2>. QED
    BY <1>1, <1>2, LeastIs
<1>4. ASSUME NEW y \in S PROVE y <= x
  <2>1. n - y \in T
    OBVIOUS
  <2>2. n - x <= n - y
    BY <1>3, <2>1
  <2>. QED
    BY <2>2
<1>5. \E z \in S : \A y \in S : z >= y
  BY <1>4
<1>. QED
  BY <1>5 DEF Q!MostOf

\* The months that terms begin on, and whether month x, counted from year 0, is one.
MonthsOf(starts) == IF starts \cap 1..12 = {} THEN {1} ELSE starts \cap 1..12
Begins(starts, x) == (x % 12) + 1 \in MonthsOf(starts)

\* A month is that of its year, and no two years share one.
LEMMA YearAndMonth ==
    ASSUME NEW x \in Int
    PROVE  /\ x \div 12 \in Int /\ (x % 12) + 1 \in 1..12
           /\ x = 12 * (x \div 12) + ((x % 12) + 1) - 1
OBVIOUS

\* Month m of year y, counted from year 0, is that month of its year.
LEMMA MonthOfYear ==
    ASSUME NEW y \in Int, NEW m \in 1..12
    PROVE  ((12 * y + m - 1) % 12) + 1 = m
OBVIOUS

\* The months a term can begin on, and the first and the last of those in a year.
LEMMA MonthsAre ==
    ASSUME NEW starts
    PROVE  /\ MonthsOf(starts) \subseteq 1..12 /\ MonthsOf(starts) # {}
           /\ Q!LeastOf(MonthsOf(starts)) \in MonthsOf(starts)
           /\ \A m \in MonthsOf(starts) : Q!LeastOf(MonthsOf(starts)) <= m
           /\ Q!MostOf(MonthsOf(starts)) \in MonthsOf(starts)
           /\ \A m \in MonthsOf(starts) : m <= Q!MostOf(MonthsOf(starts))
<1>1. MonthsOf(starts) \subseteq 1..12 /\ MonthsOf(starts) # {}
  BY DEF MonthsOf
<1>2. MonthsOf(starts) \subseteq Nat /\ MonthsOf(starts) \subseteq 0..12 /\ 12 \in Nat
  BY <1>1
<1>. QED
  BY <1>1, <1>2, LeastIs, MostIs

(***************************************************************************)
(* The term of a month begins on a month where terms begin, at or before   *)
(* it, ends where the next one begins, and no term begins in between.      *)
(***************************************************************************)
LEMMA TermIs ==
    ASSUME NEW starts, NEW mo \in Nat
    PROVE  LET term == Q!TermBounds(starts, mo)
           IN  /\ term[1] \in Int /\ term[2] \in Int
               /\ term[1] <= mo /\ mo < term[2]
               /\ Begins(starts, term[1]) /\ Begins(starts, term[2])
               /\ \A x \in Int : term[1] < x /\ x < term[2] => ~Begins(starts, x)
<1>. DEFINE months == MonthsOf(starts)
            year == mo \div 12
            month == (mo % 12) + 1
            begins == {m \in months : m <= month}
            first == IF begins = {} THEN Q!MostOf(months) ELSE Q!MostOf(begins)
            firstYear == IF begins = {} THEN year - 1 ELSE year
            later == {m \in months : m > first}
            last == IF later = {} THEN Q!LeastOf(months) ELSE Q!LeastOf(later)
            lastYear == IF later = {} THEN firstYear + 1 ELSE firstYear
            b1 == 12 * firstYear + first - 1
            b2 == 12 * lastYear + last - 1
<1>1. Q!TermBounds(starts, mo) = <<b1, b2>>
  BY Zenon DEF Q!TermBounds, MonthsOf
<1>2. /\ year \in Int /\ month \in 1..12 /\ mo = 12 * year + month - 1
  BY YearAndMonth
<1>3. /\ months \subseteq 1..12 /\ months # {}
      /\ Q!LeastOf(months) \in months /\ \A m \in months : Q!LeastOf(months) <= m
      /\ Q!MostOf(months) \in months /\ \A m \in months : m <= Q!MostOf(months)
  BY MonthsAre
<1>. HIDE DEF months, year, month
<1>4. /\ first \in months /\ firstYear \in Int
      /\ \/ firstYear = year /\ first <= month /\ \A m \in months : m <= first \/ m > month
         \/ firstYear = year - 1 /\ \A m \in months : m <= first /\ m > month
  <2>1. CASE begins = {}
    <3>1. first = Q!MostOf(months) /\ firstYear = year - 1
      BY <2>1
    <3>2. \A m \in months : m > month
      BY <1>2, <1>3, <2>1
    <3>. QED
      BY <1>2, <1>3, <3>1, <3>2
  <2>2. CASE begins # {}
    <3>1. begins \subseteq months /\ months \subseteq 0..12 /\ 12 \in Nat
      BY <1>3
    <3>2. Q!MostOf(begins) \in begins /\ \A m \in begins : m <= Q!MostOf(begins)
      <4>. HIDE DEF begins, months
      <4>. QED
        BY <2>2, <3>1, MostIs
    <3>3. first = Q!MostOf(begins) /\ firstYear = year
      BY <2>2
    <3>. QED
      BY <1>2, <1>3, <3>2, <3>3
  <2>. QED
    BY <2>1, <2>2
<1>. HIDE DEF first, firstYear
<1>5. /\ last \in months /\ lastYear \in Int
      /\ \/ lastYear = firstYear /\ first < last /\ \A m \in months : m <= first \/ last <= m
         \/ lastYear = firstYear + 1 /\ \A m \in months : m <= first /\ last <= m
  <2>1. CASE later = {}
    <3>1. last = Q!LeastOf(months) /\ lastYear = firstYear + 1
      BY <2>1
    <3>2. \A m \in months : m <= first
      BY <1>3, <1>4, <2>1
    <3>. QED
      BY <1>3, <1>4, <3>1, <3>2
  <2>2. CASE later # {}
    <3>1. later \subseteq months /\ months \subseteq Nat
      BY <1>3
    <3>2. Q!LeastOf(later) \in later /\ \A m \in later : Q!LeastOf(later) <= m
      <4>. HIDE DEF later, months
      <4>. QED
        BY <2>2, <3>1, LeastIs
    <3>3. last = Q!LeastOf(later) /\ lastYear = firstYear
      BY <2>2
    <3>. QED
      BY <1>3, <1>4, <3>2, <3>3
  <2>. QED
    BY <2>1, <2>2
<1>. HIDE DEF last, lastYear
<1>6. first \in 1..12 /\ last \in 1..12
  BY <1>3, <1>4, <1>5
<1>7. b1 \in Int /\ b2 \in Int /\ b1 <= mo /\ mo < b2
  BY <1>2, <1>4, <1>5, <1>6
<1>8. Begins(starts, b1) /\ Begins(starts, b2)
  BY <1>4, <1>5, <1>6, MonthOfYear DEF Begins, months
<1>9. ASSUME NEW x \in Int, b1 < x, x < b2, Begins(starts, x) PROVE FALSE
  <2>. DEFINE y == x \div 12
              m == (x % 12) + 1
  <2>1. y \in Int /\ m \in 1..12 /\ x = 12 * y + m - 1
    BY YearAndMonth
  <2>2. m \in months
    BY <1>9 DEF Begins, months
  <2>. HIDE DEF y, m
  <2>. QED
    BY <1>4, <1>5, <1>6, <1>9, <2>1, <2>2
<1>. HIDE DEF b1, b2
<1>. QED
  BY <1>1, <1>7, <1>8, <1>9

\* Every month of a term is in that term.
LEMMA SameTerm ==
    ASSUME NEW starts, NEW mo \in Nat, NEW x \in Nat,
           Q!TermBounds(starts, mo)[1] <= x, x < Q!TermBounds(starts, mo)[2]
    PROVE  Q!TermBounds(starts, x)[1] = Q!TermBounds(starts, mo)[1]
<1>. DEFINE b1 == Q!TermBounds(starts, mo)[1]
            b2 == Q!TermBounds(starts, mo)[2]
            c1 == Q!TermBounds(starts, x)[1]
            c2 == Q!TermBounds(starts, x)[2]
<1>1. /\ b1 \in Int /\ b2 \in Int /\ Begins(starts, b1)
      /\ \A y \in Int : b1 < y /\ y < b2 => ~Begins(starts, y)
  BY TermIs
<1>2. /\ c1 \in Int /\ c2 \in Int /\ c1 <= x /\ x < c2 /\ Begins(starts, c1)
      /\ \A y \in Int : c1 < y /\ y < c2 => ~Begins(starts, y)
  BY TermIs
<1>3. b1 <= x /\ x < b2
  OBVIOUS
<1>. HIDE DEF b1, b2, c1, c2
<1>4. c1 = b1
  BY <1>1, <1>2, <1>3
<1>. QED
  BY <1>4 DEF b1, c1

\* A month that terms begin on begins one.
LEMMA TermBegins ==
    ASSUME NEW starts, NEW x \in Nat, Begins(starts, x)
    PROVE  Q!TermBounds(starts, x)[1] = x
<1>. DEFINE c1 == Q!TermBounds(starts, x)[1]
            c2 == Q!TermBounds(starts, x)[2]
<1>1. /\ c1 \in Int /\ c2 \in Int /\ c1 <= x /\ x < c2
      /\ \A y \in Int : c1 < y /\ y < c2 => ~Begins(starts, y)
  BY TermIs
<1>. HIDE DEF c1, c2
<1>2. c1 = x
  BY <1>1
<1>. QED
  BY <1>2 DEF c1

\* A term begins less than a year ago.
LEMMA TermWithinYear ==
    ASSUME NEW starts, NEW mo \in Nat
    PROVE  Q!TermBounds(starts, mo)[1] \in Int /\ mo - 12 < Q!TermBounds(starts, mo)[1]
<1>. DEFINE b1 == Q!TermBounds(starts, mo)[1]
            b2 == Q!TermBounds(starts, mo)[2]
<1>1. /\ b1 \in Int /\ b2 \in Int /\ mo < b2 /\ Begins(starts, b1)
      /\ \A y \in Int : b1 < y /\ y < b2 => ~Begins(starts, y)
  BY TermIs
<1>. HIDE DEF b1, b2
<1>2. b1 + 12 \in Int /\ (b1 + 12) % 12 = b1 % 12
  BY <1>1
<1>3. Begins(starts, b1 + 12)
  BY <1>1, <1>2 DEF Begins
<1>4. b1 \in Int /\ mo - 12 < b1
  BY <1>1, <1>2, <1>3
<1>. QED
  BY <1>4 DEF b1

\* Terms tile the calendar.
LEMMA TermsTileEverywhere == Q!TilesEverywhere
<1>. SUFFICES ASSUME NEW starts \in Calendars \cup {TermStarts}, NEW mo \in 12..35
              PROVE  LET term == Q!TermBounds(starts, mo)
                     IN  /\ term[1] <= mo /\ mo < term[2]
                         /\ Q!TermBounds(starts, term[2])[1] = term[2]
                         /\ Q!TermBounds(starts, term[2] - 1)[1] = term[1]
  BY DEF Q!TilesEverywhere
<1>. DEFINE b1 == Q!TermBounds(starts, mo)[1]
            b2 == Q!TermBounds(starts, mo)[2]
<1>1. b1 \in Int /\ b2 \in Int /\ b1 <= mo /\ mo < b2 /\ Begins(starts, b2) /\ mo \in Nat
  BY TermIs
<1>2. b2 \in Nat /\ b2 - 1 \in Nat /\ b1 <= b2 - 1 /\ b2 - 1 < b2
  <2>. HIDE DEF b1, b2
  <2>. QED
    BY <1>1
<1>3. Q!TermBounds(starts, b2)[1] = b2
  BY <1>1, <1>2, TermBegins
<1>4. Q!TermBounds(starts, b2 - 1)[1] = b1
  BY <1>1, <1>2, SameTerm
<1>. QED
  BY <1>1, <1>3, <1>4

-----------------------------------------------------------------------------
(* Windows and the names of their rows.                                    *)

Kinds == {"minute", "hour", "day", "month", "term"}
LastMinute == FirstMinute + MaxMinutes
Clock == FirstMinute..LastMinute

\* The minutes of a behaviour, from the second year on.
LEMMA ClockIs ==
    /\ FirstMinute \in Nat /\ FirstMinute >= 96 /\ MaxMinutes \in Nat /\ LastMinute \in Nat
    /\ Q!PerMonth = 8
    /\ Clock \subseteq 96..LastMinute
BY PoliciesAssumption DEF Q!PoliciesKnown, Q!PerMonth, LastMinute, Clock

\* The month a minute is in, and the term of that month.
LEMMA TermOfIs ==
    ASSUME NEW mo \in 0..(LastMinute \div 8)
    PROVE  /\ Q!TermOf[mo] = Q!TermBounds(TermStarts, mo)[1]
           /\ Q!TermOf[mo] \in Int /\ Q!TermOf[mo] <= mo /\ mo - 12 < Q!TermOf[mo]
<1>1. Q!TermOf[mo] = Q!TermBounds(TermStarts, mo)[1]
  BY ClockIs DEF Q!TermOf, LastMinute
<1>2. mo \in Nat
  OBVIOUS
<1>. QED
  BY <1>1, <1>2, TermIs, TermWithinYear

\* The month that a minute is in.
LEMMA MonthOf ==
    ASSUME NEW t \in 0..LastMinute
    PROVE  /\ t \div 8 \in 0..(LastMinute \div 8)
           /\ 8 * (t \div 8) <= t /\ t < 8 * (t \div 8) + 8
           /\ t \in 96..LastMinute => t \div 8 >= 12
BY ClockIs

\* The short windows: they begin on a multiple of their length.
LEMMA ShortWindow ==
    ASSUME NEW w \in {"minute", "hour", "day", "month"}, NEW t \in Nat
    PROVE  /\ Q!StartOf(w, t) \in 0..t
           /\ Q!StartOf(w, Q!StartOf(w, t)) = Q!StartOf(w, t)
           /\ Q!StartOf(w, t + 1) \in {Q!StartOf(w, t), t + 1}
<1>1. CASE w = "minute"
  BY <1>1 DEF Q!StartOf, Q!Length
<1>2. CASE w = "hour"
  BY <1>2 DEF Q!StartOf, Q!Length
<1>3. CASE w = "day"
  BY <1>3 DEF Q!StartOf, Q!Length
<1>4. CASE w = "month"
  BY <1>4 DEF Q!StartOf, Q!Length, Q!PerMonth
<1>. QED
  BY <1>1, <1>2, <1>3, <1>4

\* The term of a minute: it begins a term, and goes on until the next one begins.
LEMMA TermWindow ==
    ASSUME NEW t \in Clock
    PROVE  /\ Q!StartOf("term", t) \in 0..t
           /\ Q!StartOf("term", Q!StartOf("term", t)) = Q!StartOf("term", t)
           /\ t + 1 \in Clock => Q!StartOf("term", t + 1) \in {Q!StartOf("term", t), t + 1}
<1>. DEFINE mo == t \div 8
            b == Q!TermOf[mo]
<1>1. t \in 0..LastMinute /\ t \in 96..LastMinute
  BY ClockIs
<1>2. mo \in 0..(LastMinute \div 8) /\ 8 * mo <= t /\ t < 8 * mo + 8 /\ mo >= 12 /\ mo \in Nat
  BY <1>1, MonthOf
<1>3. b = Q!TermBounds(TermStarts, mo)[1] /\ b \in Int /\ b <= mo /\ mo - 12 < b
  <2>. HIDE DEF mo
  <2>. QED
    BY <1>2, TermOfIs
<1>4. Q!StartOf("term", t) = 8 * b
  BY ClockIs DEF Q!StartOf
<1>. HIDE DEF b, mo
<1>5. b \in 0..(LastMinute \div 8) /\ b \in Nat /\ 8 * b \in 0..t
  BY <1>2, <1>3, ClockIs
<1>6. (8 * b) \div 8 = b
  BY <1>5
<1>7. Q!TermOf[b] = b
  <2>1. Begins(TermStarts, b)
    BY <1>2, <1>3, TermIs
  <2>. QED
    BY <1>5, <2>1, TermBegins, TermOfIs
<1>8. Q!StartOf("term", 8 * b) = 8 * b
  BY <1>6, <1>7, ClockIs DEF Q!StartOf
<1>9. ASSUME t + 1 \in Clock
      PROVE  Q!StartOf("term", t + 1) \in {8 * b, t + 1}
  <2>. DEFINE next == (t + 1) \div 8
  <2>1. t + 1 \in 0..LastMinute
    BY <1>9, ClockIs
  <2>2. next \in 0..(LastMinute \div 8) /\ 8 * next <= t + 1 /\ t + 1 < 8 * next + 8
    BY <2>1, MonthOf
  <2>3. Q!StartOf("term", t + 1) = 8 * Q!TermOf[next]
    BY ClockIs DEF Q!StartOf
  <2>. HIDE DEF next
  <2>4. next = mo \/ (next = mo + 1 /\ t + 1 = 8 * next)
    BY <1>1, <1>2, <2>1, <2>2
  <2>5. CASE next = mo
    BY <2>3, <2>5 DEF b
  <2>6. CASE next = mo + 1 /\ t + 1 = 8 * next
    <3>1. next \in Nat
      BY <2>2
    <3>2. CASE Begins(TermStarts, next)
      <4>1. Q!TermOf[next] = next
        BY <2>2, <3>1, <3>2, TermBegins, TermOfIs
      <4>. QED
        BY <2>3, <2>6, <4>1
    <3>3. CASE ~Begins(TermStarts, next)
      <4>1. Q!TermBounds(TermStarts, mo)[1] <= next /\ next < Q!TermBounds(TermStarts, mo)[2]
        <5>1. /\ mo < Q!TermBounds(TermStarts, mo)[2] /\ Q!TermBounds(TermStarts, mo)[2] \in Int
              /\ Begins(TermStarts, Q!TermBounds(TermStarts, mo)[2])
          BY <1>2, TermIs
        <5>2. next # Q!TermBounds(TermStarts, mo)[2]
          BY <3>3, <5>1
        <5>. QED
          BY <1>2, <1>3, <2>6, <5>1, <5>2
      <4>2. Q!TermOf[next] = b
        BY <1>2, <1>3, <2>2, <3>1, <4>1, SameTerm, TermOfIs
      <4>. QED
        BY <2>3, <4>2
    <3>. QED
      BY <3>2, <3>3
  <2>. QED
    BY <2>4, <2>5, <2>6
<1>. QED
  BY <1>4, <1>5, <1>8, <1>9

(***************************************************************************)
(* The window of a minute begins at that minute or before; it began then   *)
(* as well, and from one minute to the next it goes on or a new one begins.*)
(***************************************************************************)
LEMMA WindowIs ==
    ASSUME NEW w \in Kinds, NEW t \in Clock
    PROVE  /\ Q!StartOf(w, t) \in 0..t /\ Q!StartOf(w, t) \in 0..LastMinute
           /\ Q!StartOf(w, Q!StartOf(w, t)) = Q!StartOf(w, t)
           /\ t + 1 \in Clock => Q!StartOf(w, t + 1) \in {Q!StartOf(w, t), t + 1}
<1>1. t \in Nat /\ t <= LastMinute /\ LastMinute \in Nat
  BY ClockIs
<1>2. CASE w = "term"
  BY <1>1, <1>2, TermWindow
<1>3. CASE w \in {"minute", "hour", "day", "month"}
  BY <1>1, <1>3, ShortWindow
<1>. QED
  BY <1>2, <1>3 DEF Kinds

\* The kinds of windows, in their order.
LEMMA KindsAre ==
    /\ DOMAIN Q!WINDOW_KINDS = 1..5
    /\ \A i \in 1..5 : Q!WINDOW_KINDS[i] \in Kinds /\ Q!Place[Q!WINDOW_KINDS[i]] = i
    /\ \A w \in Kinds : Q!Place[w] \in 1..5 /\ Q!WINDOW_KINDS[Q!Place[w]] = w
<1>1. DOMAIN Q!WINDOW_KINDS = 1..5
  BY DEF Q!WINDOW_KINDS
<1>2. /\ Q!WINDOW_KINDS[1] = "minute" /\ Q!WINDOW_KINDS[2] = "hour" /\ Q!WINDOW_KINDS[3] = "day"
      /\ Q!WINDOW_KINDS[4] = "month" /\ Q!WINDOW_KINDS[5] = "term"
  BY DEF Q!WINDOW_KINDS
<1>3. /\ Q!Place["minute"] = 1 /\ Q!Place["hour"] = 2 /\ Q!Place["day"] = 3
      /\ Q!Place["month"] = 4 /\ Q!Place["term"] = 5
  BY DEF Q!Place
<1>4. \A i \in 1..5 : Q!WINDOW_KINDS[i] \in Kinds /\ Q!Place[Q!WINDOW_KINDS[i]] = i
  <2>. TAKE i \in 1..5
  <2>1. i = 1 \/ i = 2 \/ i = 3 \/ i = 4 \/ i = 5
    OBVIOUS
  <2>. QED
    BY <1>2, <1>3, <2>1 DEF Kinds
<1>5. \A w \in Kinds : Q!Place[w] \in 1..5 /\ Q!WINDOW_KINDS[Q!Place[w]] = w
  BY <1>2, <1>3 DEF Kinds
<1>. QED
  BY <1>1, <1>4, <1>5

\* Whether a longer window begins in the same minute.
LEMMA LongerIs ==
    ASSUME NEW w \in Kinds, NEW s \in 0..LastMinute
    PROVE  Q!LongerBegins[Q!Place[w]][s] =
             (\E j \in 1..5 : j > Q!Place[w] /\ Q!StartOf(Q!WINDOW_KINDS[j], s) = s)
<1>1. Q!Place[w] \in DOMAIN Q!WINDOW_KINDS /\ DOMAIN Q!WINDOW_KINDS = 1..5
  BY KindsAre
<1>2. s \in 0..FirstMinute + MaxMinutes
  BY DEF LastMinute
<1>. QED
  BY <1>1, <1>2, Zenon DEF Q!LongerBegins

(***************************************************************************)
(* counter_key: two windows that begin in one minute have two names, and   *)
(* the name of a window does not change while it lasts.                    *)
(***************************************************************************)
LEMMA NamesApart ==
    ASSUME NEW x, NEW y, NEW w \in Kinds, NEW v \in Kinds, NEW t \in Clock,
           Q!Name(<<x, w>>, t) = Q!Name(<<y, v>>, t)
    PROVE  x = y /\ w = v
<1>. DEFINE s == Q!StartOf(w, t)
            r == Q!StartOf(v, t)
            longW == Q!LongerBegins[Q!Place[w]][s]
            longV == Q!LongerBegins[Q!Place[v]][r]
<1>1. /\ Q!Name(<<x, w>>, t) = IF longW THEN <<x, w, s>> ELSE <<x, "plain", s>>
      /\ Q!Name(<<y, v>>, t) = IF longV THEN <<y, v, r>> ELSE <<y, "plain", r>>
  BY DEF Q!Name, Q!CounterKey
<1>2. x = y /\ s = r /\ (longW <=> longV) /\ (longW => w = v)
  <2>1. w # "plain" /\ v # "plain"
    BY DEF Kinds
  <2>. HIDE DEF s, r, longW, longV
  <2>. QED
    BY <1>1, <2>1
<1>3. /\ s \in 0..LastMinute /\ Q!StartOf(w, s) = s /\ Q!StartOf(v, r) = r
  BY WindowIs
<1>4. ASSUME ~longW, w # v PROVE FALSE
  <2>1. /\ longW = (\E j \in 1..5 : j > Q!Place[w] /\ Q!StartOf(Q!WINDOW_KINDS[j], s) = s)
        /\ longV = (\E j \in 1..5 : j > Q!Place[v] /\ Q!StartOf(Q!WINDOW_KINDS[j], s) = s)
    BY <1>2, <1>3, LongerIs
  <2>2. /\ Q!Place[w] \in 1..5 /\ Q!WINDOW_KINDS[Q!Place[w]] = w
        /\ Q!Place[v] \in 1..5 /\ Q!WINDOW_KINDS[Q!Place[v]] = v
    BY KindsAre
  <2>3. Q!Place[w] < Q!Place[v] \/ Q!Place[v] < Q!Place[w]
    BY <1>4, <2>2
  <2>4. Q!StartOf(v, s) = s
    BY <1>2, <1>3
  <2>. HIDE DEF s, r, longW, longV
  <2>. QED
    BY <1>2, <1>3, <1>4, <2>1, <2>2, <2>3, <2>4
<1>. QED
  BY <1>2, <1>4

\* A name holds the start of its window, and is the same at any minute of that window.
LEMMA NameLasts ==
    ASSUME NEW x, NEW w \in Kinds, NEW t \in Clock, NEW u \in Clock
    PROVE  /\ Q!Name(<<x, w>>, t)[3] = Q!StartOf(w, t)
           /\ Q!StartOf(w, u) = Q!StartOf(w, t) => Q!Name(<<x, w>>, u) = Q!Name(<<x, w>>, t)
BY DEF Q!Name, Q!CounterKey

-----------------------------------------------------------------------------
(* What the counters hold.                                                 *)

\* A lane: somebody or something that is counted, and a kind of window.
IsLane(l) == l = <<l[1], l[2]>> /\ l[2] \in Kinds

\* A row holds what was charged to its lane; the rows of windows to come do not exist.
Booked ==
    /\ now \in Clock
    /\ \A x : \A w \in Kinds : Q!At(counters, Q!Name(<<x, w>>, now)) = Q!At(used, <<x, w>>)
    /\ \A k \in DOMAIN counters : counters[k] \in Nat \ {0} /\ k[3] \in Nat /\ k[3] <= now
    /\ \A l \in DOMAIN used : used[l] \in Nat \ {0} /\ IsLane(l)

\* Policies count with operators of their own instance of FiniteSets.
LEMMA Singles ==
    /\ Q!Cardinality({}) = 0
    /\ \A x : Q!Cardinality({x}) = 1
<1>1. \A S : Q!Cardinality(S) = Cardinality(S)
  BY DEF Q!Cardinality, Cardinality
<1>. QED
  BY <1>1, FS_EmptySet, FS_Singleton

\* How many of these lanes have the name of a lane: itself, if it is one of them.
LEMMA OneName ==
    ASSUME NEW t \in Clock, NEW lanes, \A l \in lanes : IsLane(l)
    PROVE  /\ \A x : \A w \in Kinds :
                Q!Cardinality({l \in lanes : Q!Name(l, t) = Q!Name(<<x, w>>, t)})
                  = IF <<x, w>> \in lanes THEN 1 ELSE 0
           /\ \A k : Q!Cardinality({l \in lanes : Q!Name(l, t) = k})
                  = IF k \in {Q!Name(l, t) : l \in lanes} THEN 1 ELSE 0
<1>1. ASSUME NEW l \in lanes, NEW m \in lanes, Q!Name(l, t) = Q!Name(m, t) PROVE l = m
  <2>1. /\ l = <<l[1], l[2]>> /\ l[2] \in Kinds /\ m = <<m[1], m[2]>> /\ m[2] \in Kinds
    BY DEF IsLane
  <2>2. l[1] = m[1] /\ l[2] = m[2]
    BY <1>1, <2>1, NamesApart
  <2>. QED
    BY <2>1, <2>2
<1>2. ASSUME NEW k
      PROVE  Q!Cardinality({l \in lanes : Q!Name(l, t) = k})
                  = IF k \in {Q!Name(l, t) : l \in lanes} THEN 1 ELSE 0
  <2>1. CASE k \notin {Q!Name(l, t) : l \in lanes}
    <3>1. {l \in lanes : Q!Name(l, t) = k} = {}
      BY <2>1
    <3>. QED
      BY <2>1, <3>1, Singles
  <2>2. CASE k \in {Q!Name(l, t) : l \in lanes}
    <3>1. PICK m \in lanes : Q!Name(m, t) = k
      BY <2>2
    <3>2. {l \in lanes : Q!Name(l, t) = k} = {m}
      BY <1>1, <3>1
    <3>. QED
      BY <2>2, <3>2, Singles
  <2>. QED
    BY <2>1, <2>2
<1>3. ASSUME NEW x, NEW w \in Kinds
      PROVE  Q!Name(<<x, w>>, t) \in {Q!Name(l, t) : l \in lanes} <=> <<x, w>> \in lanes
  <2>1. ASSUME NEW l \in lanes, Q!Name(l, t) = Q!Name(<<x, w>>, t) PROVE l = <<x, w>>
    <3>1. l = <<l[1], l[2]>> /\ l[2] \in Kinds
      BY DEF IsLane
    <3>2. l[1] = x /\ l[2] = w
      BY <2>1, <3>1, NamesApart
    <3>. QED
      BY <3>1, <3>2
  <2>. QED
    BY <2>1
<1>. QED
  BY <1>2, <1>3

\* A charge goes to the rows of its lanes and to no other.
LEMMA ChargeCounts ==
    ASSUME Booked, NEW lanes, \A l \in lanes : IsLane(l),
           now' = now, counters' = Q!Charged(lanes), used' = Q!OneMore(used, lanes)
    PROVE  Booked'
<1>1. now \in Clock
  BY DEF Booked
<1>. DEFINE Sharing(k) == {m \in lanes : Q!Name(m, now) = k}
            names == {Q!Name(m, now) : m \in lanes}
<1>2. /\ \A x : \A w \in Kinds : Q!Cardinality(Sharing(Q!Name(<<x, w>>, now)))
                                    = IF <<x, w>> \in lanes THEN 1 ELSE 0
      /\ \A k : Q!Cardinality(Sharing(k)) = IF k \in names THEN 1 ELSE 0
  BY <1>1, OneName
<1>3. ASSUME NEW x, NEW w \in Kinds
      PROVE  Q!At(counters', Q!Name(<<x, w>>, now)) = Q!At(used', <<x, w>>)
  <2>. DEFINE k == Q!Name(<<x, w>>, now)
              l == <<x, w>>
  <2>1. Q!At(counters, k) = Q!At(used, l)
    BY DEF Booked
  <2>. HIDE DEF Sharing, names
  <2>2. Q!Cardinality(Sharing(k)) = IF l \in lanes THEN 1 ELSE 0
    BY <1>2
  <2>. USE DEF Sharing, names
  <2>3. l \in lanes => k \in names
    OBVIOUS
  <2>. HIDE DEF k, l
  <2>4. Q!At(counters', k) = Q!At(counters, k) + (IF l \in lanes THEN 1 ELSE 0)
    <3>1. CASE k \in DOMAIN counters \cup names
      BY <2>2, <3>1 DEF Q!At, Q!Charged
    <3>2. CASE k \notin DOMAIN counters \cup names
      <4>1. l \notin lanes
        BY <2>3, <3>2
      <4>. QED
        BY <3>2, <4>1 DEF Q!At, Q!Charged
    <3>. QED
      BY <3>1, <3>2
  <2>5. Q!At(used', l) = Q!At(used, l) + (IF l \in lanes THEN 1 ELSE 0)
    <3>1. CASE l \in DOMAIN used \cup lanes
      BY <3>1 DEF Q!At, Q!OneMore
    <3>2. CASE l \notin DOMAIN used \cup lanes
      BY <3>2 DEF Q!At, Q!OneMore
    <3>. QED
      BY <3>1, <3>2
  <2>. QED
    BY <2>1, <2>4, <2>5 DEF k, l
<1>4. ASSUME NEW k \in DOMAIN counters'
      PROVE  counters'[k] \in Nat \ {0} /\ k[3] \in Nat /\ k[3] <= now
  <2>1. /\ k \in DOMAIN counters \cup names
        /\ counters'[k] = Q!At(counters, k) + Q!Cardinality(Sharing(k))
    BY <1>4 DEF Q!Charged
  <2>. HIDE DEF Sharing, names
  <2>2. Q!Cardinality(Sharing(k)) = IF k \in names THEN 1 ELSE 0
    BY <1>2
  <2>3. Q!At(counters, k) \in Nat /\ (k \in DOMAIN counters => Q!At(counters, k) # 0)
    BY DEF Q!At, Booked
  <2>4. counters'[k] \in Nat \ {0}
    BY <2>1, <2>2, <2>3
  <2>5. k[3] \in Nat /\ k[3] <= now
    <3>1. CASE k \in DOMAIN counters
      BY <3>1 DEF Booked
    <3>2. CASE k \in names
      <4>1. PICK m \in lanes : k = Q!Name(m, now)
        BY <3>2 DEF names
      <4>2. m = <<m[1], m[2]>> /\ m[2] \in Kinds
        BY DEF IsLane
      <4>3. k[3] = Q!StartOf(m[2], now)
        BY <1>1, <4>1, <4>2, NameLasts
      <4>4. k[3] \in 0..now /\ now \in Nat
        BY <1>1, <4>2, <4>3, WindowIs, ClockIs
      <4>. QED
        BY <4>4
    <3>. QED
      BY <2>1, <3>1, <3>2
  <2>. QED
    BY <2>4, <2>5
<1>5. ASSUME NEW l \in DOMAIN used' PROVE used'[l] \in Nat \ {0} /\ IsLane(l)
  <2>1. /\ l \in DOMAIN used \cup lanes
        /\ used'[l] = Q!At(used, l) + (IF l \in lanes THEN 1 ELSE 0)
    BY <1>5 DEF Q!OneMore
  <2>2. Q!At(used, l) \in Nat /\ (l \in DOMAIN used => Q!At(used, l) # 0 /\ IsLane(l))
    BY DEF Q!At, Booked
  <2>. QED
    BY <2>1, <2>2
<1>. QED
  BY <1>1, <1>3, <1>4, <1>5 DEF Booked

\* What is taken back is taken from the rows of its lanes and from no other.
LEMMA ResetCounts ==
    ASSUME Booked, NEW gone, \A l \in gone : IsLane(l), now' = now,
           counters' = Q!Without(counters, {Q!Name(l, now) : l \in gone}),
           used' = Q!Without(used, gone)
    PROVE  /\ Booked'
           /\ \A l \in gone : Q!At(counters', Q!Name(l, now)) = 0
<1>1. now \in Clock
  BY DEF Booked
<1>2. ASSUME NEW x, NEW w \in Kinds
      PROVE  Q!At(counters', Q!Name(<<x, w>>, now)) = Q!At(used', <<x, w>>)
  <2>. DEFINE k == Q!Name(<<x, w>>, now)
              l == <<x, w>>
  <2>1. Q!At(counters, k) = Q!At(used, l)
    BY DEF Booked
  <2>2. k \in {Q!Name(m, now) : m \in gone} <=> l \in gone
    <3>1. ASSUME NEW m \in gone, Q!Name(m, now) = k PROVE m = l
      <4>1. m = <<m[1], m[2]>> /\ m[2] \in Kinds
        BY DEF IsLane
      <4>2. m[1] = x /\ m[2] = w
        BY <1>1, <3>1, <4>1, NamesApart
      <4>. QED
        BY <4>1, <4>2
    <3>. QED
      BY <3>1
  <2>. HIDE DEF k, l
  <2>3. Q!At(counters', k) = IF l \in gone THEN 0 ELSE Q!At(counters, k)
    BY <2>2 DEF Q!At, Q!Without
  <2>4. Q!At(used', l) = IF l \in gone THEN 0 ELSE Q!At(used, l)
    BY DEF Q!At, Q!Without
  <2>. QED
    BY <2>1, <2>3, <2>4 DEF k, l
<1>3. \A k \in DOMAIN counters' : counters'[k] \in Nat \ {0} /\ k[3] \in Nat /\ k[3] <= now
  BY DEF Booked, Q!Without
<1>4. \A l \in DOMAIN used' : used'[l] \in Nat \ {0} /\ IsLane(l)
  BY DEF Booked, Q!Without
<1>5. \A l \in gone : Q!At(counters', Q!Name(l, now)) = 0
  BY DEF Q!At, Q!Without
<1>. QED
  BY <1>1, <1>2, <1>3, <1>4, <1>5 DEF Booked

\* When the minute turns over a row goes on or has not been there.
LEMMA TickCounts ==
    ASSUME Booked, Q!Tick
    PROVE  Booked'
<1>1. /\ now \in Clock /\ now \in Nat /\ now + 1 \in Clock /\ now' = now + 1
  BY ClockIs DEF Booked, Q!Tick, Clock, LastMinute
<1>. DEFINE over == {k \in DOMAIN counters :
          ~\E i \in DOMAIN Q!WINDOW_KINDS : Q!StartOf(Q!WINDOW_KINDS[i], now + 1) = k[3]}
            ended == {l \in DOMAIN used : Q!StartOf(l[2], now + 1) = now + 1}
<1>2. counters' = Q!Without(counters, over) /\ used' = Q!Without(used, ended)
  BY DEF Q!Tick
<1>3. ASSUME NEW x, NEW w \in Kinds
      PROVE  Q!At(counters', Q!Name(<<x, w>>, now + 1)) = Q!At(used', <<x, w>>)
  <2>1. Q!At(counters, Q!Name(<<x, w>>, now)) = Q!At(used, <<x, w>>)
    BY DEF Booked
  <2>2. /\ Q!Name(<<x, w>>, now)[3] = Q!StartOf(w, now)
        /\ Q!Name(<<x, w>>, now + 1)[3] = Q!StartOf(w, now + 1)
        /\ Q!StartOf(w, now + 1) = Q!StartOf(w, now) =>
             Q!Name(<<x, w>>, now + 1) = Q!Name(<<x, w>>, now)
    BY <1>1, NameLasts
  <2>3. /\ Q!StartOf(w, now) \in 0..now
        /\ Q!StartOf(w, now + 1) \in {Q!StartOf(w, now), now + 1}
    BY <1>1, WindowIs
  <2>4. Q!Place[w] \in DOMAIN Q!WINDOW_KINDS /\ Q!WINDOW_KINDS[Q!Place[w]] = w
    BY KindsAre
  <2>5. <<x, w>>[2] = w
    OBVIOUS
  <2>6. CASE Q!StartOf(w, now + 1) = Q!StartOf(w, now)
    <3>. DEFINE k == Q!Name(<<x, w>>, now)
                l == <<x, w>>
    <3>1. Q!Name(<<x, w>>, now + 1) = k /\ k[3] = Q!StartOf(w, now + 1)
      BY <2>2, <2>6
    <3>2. k \notin over
      BY <2>4, <3>1
    <3>3. l \notin ended
      <4>1. Q!StartOf(w, now + 1) # now + 1
        BY <1>1, <2>3, <2>6
      <4>. QED
        BY <2>5, <4>1
    <3>4. Q!At(counters', k) = Q!At(counters, k)
      <4>. HIDE DEF k, over
      <4>. QED
        BY <1>2, <3>2 DEF Q!At, Q!Without
    <3>5. Q!At(used', l) = Q!At(used, l)
      <4>. HIDE DEF l, ended
      <4>. QED
        BY <1>2, <3>3 DEF Q!At, Q!Without
    <3>. QED
      BY <2>1, <3>1, <3>4, <3>5
  <2>7. CASE Q!StartOf(w, now + 1) = now + 1
    <3>. DEFINE k == Q!Name(<<x, w>>, now + 1)
                l == <<x, w>>
    <3>1. k[3] = now + 1
      BY <2>2, <2>7
    <3>2. k \notin DOMAIN counters
      <4>. HIDE DEF k
      <4>. QED
        BY <1>1, <3>1 DEF Booked
    <3>3. l \in DOMAIN used => l \in ended
      BY <2>5, <2>7
    <3>4. Q!At(counters', k) = 0
      <4>. HIDE DEF k, over
      <4>. QED
        BY <1>2, <3>2 DEF Q!At, Q!Without
    <3>5. Q!At(used', l) = 0
      <4>. HIDE DEF l, ended
      <4>. QED
        BY <1>2, <3>3 DEF Q!At, Q!Without
    <3>. QED
      BY <3>4, <3>5
  <2>. QED
    BY <2>3, <2>6, <2>7
<1>4. \A k \in DOMAIN counters' : counters'[k] \in Nat \ {0} /\ k[3] \in Nat /\ k[3] <= now + 1
  <2>. HIDE DEF over
  <2>1. \A k \in DOMAIN counters' : k \in DOMAIN counters /\ counters'[k] = counters[k]
    BY <1>2 DEF Q!Without
  <2>. QED
    BY <1>1, <2>1 DEF Booked
<1>5. \A l \in DOMAIN used' : used'[l] \in Nat \ {0} /\ IsLane(l)
  <2>. HIDE DEF ended
  <2>. QED
    BY <1>2 DEF Booked, Q!Without
<1>. QED
  BY <1>1, <1>3, <1>4, <1>5 DEF Booked

-----------------------------------------------------------------------------
(* Which policy binds.                                                     *)

\* The books name rows, and bundles of the installation.
BooksKnown ==
    inForce \subseteq DOMAIN Rows /\ open \subseteq DOMAIN BundleModels /\ live \subseteq Callers

\* What a row scores: a number that tells which columns name something.
LEMMA ScoreIs ==
    ASSUME NEW p
    PROVE  /\ Q!Score(p) \in 0..15
           /\ Q!Score(p) = (IF Q!Names(p.user) THEN 8 ELSE 0) + (IF Q!Names(p.space) THEN 4 ELSE 0)
                + (IF Q!Names(p.model) THEN 2 ELSE IF Q!Names(p.bundle) THEN 1 ELSE 0)
BY DEF Q!Score

\* The winner applies, scores the most, and is the oldest that does; there is none if
\* none applies.
LEMMA WinnerIs ==
    ASSUME BooksKnown, NEW who, NEW space, NEW model,
           NEW w, w = Q!Winner(who, space, model)
    PROVE  \/ w = 0 /\ \A i \in inForce : ~Q!Applies(Rows[i], who, space, model)
           \/ /\ w \in inForce /\ Q!Applies(Rows[w], who, space, model) /\ w \in Nat \ {0}
              /\ \A j \in inForce : Q!Applies(Rows[j], who, space, model) =>
                    /\ Q!Score(Rows[j]) <= Q!Score(Rows[w])
                    /\ Q!Score(Rows[j]) = Q!Score(Rows[w]) => w <= j
<1>. DEFINE applying == {i \in inForce : Q!Applies(Rows[i], who, space, model)}
            best == {i \in applying : \A j \in applying : Q!Score(Rows[j]) <= Q!Score(Rows[i])}
            scores == {Q!Score(Rows[i]) : i \in applying}
<1>1. w = IF best = {} THEN 0 ELSE Q!LeastOf(best)
  BY DEF Q!Winner
<1>2. inForce \subseteq Nat \ {0}
  BY PoliciesAssumption DEF BooksKnown, Q!PoliciesKnown
<1>3. CASE applying = {}
  BY <1>1, <1>3
<1>4. CASE applying # {}
  <2>1. scores \subseteq 0..15 /\ scores # {}
    BY <1>4, ScoreIs
  <2>2. Q!MostOf(scores) \in scores /\ \A y \in scores : y <= Q!MostOf(scores)
    <3>. HIDE DEF scores
    <3>. QED
      BY <2>1, MostIs
  <2>3. best # {}
    <3>1. PICK i \in applying : Q!MostOf(scores) = Q!Score(Rows[i])
      BY <2>2
    <3>2. \A j \in applying : Q!Score(Rows[j]) <= Q!Score(Rows[i])
      BY <2>2, <3>1
    <3>. QED
      BY <3>2
  <2>4. best \subseteq Nat
    BY <1>2
  <2>5. Q!LeastOf(best) \in best /\ \A y \in best : Q!LeastOf(best) <= y
    <3>. HIDE DEF best
    <3>. QED
      BY <2>3, <2>4, LeastIs
  <2>6. w \in best /\ \A y \in best : w <= y
    BY <1>1, <2>3, <2>5
  <2>7. ASSUME NEW j \in applying, Q!Score(Rows[j]) = Q!Score(Rows[w]) PROVE w <= j
    BY <2>6, <2>7
  <2>. QED
    BY <1>2, <2>6, <2>7
<1>. QED
  BY <1>3, <1>4

\* A row names a model or a bundle, not both.
LEMMA RowIs ==
    ASSUME BooksKnown, NEW i \in inForce
    PROVE  /\ Rows[i].window \in Q!Periods /\ Rows[i].max \in Nat /\ Rows[i].minute \in Nat
           /\ ~Q!Names(Rows[i].model) \/ ~Q!Names(Rows[i].bundle)
           /\ i \in Nat \ {0}
BY PoliciesAssumption DEF BooksKnown, Q!PoliciesKnown

\* Of two rows the more specific one scores more.
LEMMA SpecificScores ==
    ASSUME BooksKnown, NEW i \in inForce, NEW j \in inForce
    PROVE  /\ Q!MoreSpecific(Rows[i], Rows[j]) => Q!Score(Rows[j]) < Q!Score(Rows[i])
           /\ Q!TargetOf(Rows[i]) = Q!TargetOf(Rows[j]) => Q!Score(Rows[i]) = Q!Score(Rows[j])
<1>1. /\ ~Q!Names(Rows[i].model) \/ ~Q!Names(Rows[i].bundle)
      /\ ~Q!Names(Rows[j].model) \/ ~Q!Names(Rows[j].bundle)
  BY RowIs
<1>. DEFINE a == Q!Names(Rows[i].user)   e == Q!Names(Rows[j].user)
            b == Q!Names(Rows[i].space)  f == Q!Names(Rows[j].space)
            c == Q!Names(Rows[i].model)  g == Q!Names(Rows[j].model)
            d == Q!Names(Rows[i].bundle) h == Q!Names(Rows[j].bundle)
<1>2. /\ Q!Score(Rows[i]) = (IF a THEN 8 ELSE 0) + (IF b THEN 4 ELSE 0)
                + (IF c THEN 2 ELSE IF d THEN 1 ELSE 0)
      /\ Q!Score(Rows[j]) = (IF e THEN 8 ELSE 0) + (IF f THEN 4 ELSE 0)
                + (IF g THEN 2 ELSE IF h THEN 1 ELSE 0)
  BY ScoreIs
<1>3. Q!MoreSpecific(Rows[i], Rows[j]) =>
        \/ a /\ ~e
        \/ b /\ ~f /\ (a <=> e)
        \/ c /\ ~g /\ (a <=> e) /\ (b <=> f)
        \/ d /\ ~h /\ (a <=> e) /\ (b <=> f) /\ (c <=> g)
  <2>. DEFINE A == <<a, b, c, d>>
              B == <<e, f, g, h>>
  <2>1. ASSUME NEW n \in 1..4, A[n] /\ ~B[n] /\ \A m \in 1..(n - 1) : A[m] = B[m]
        PROVE  \/ a /\ ~e
               \/ b /\ ~f /\ (a <=> e)
               \/ c /\ ~g /\ (a <=> e) /\ (b <=> f)
               \/ d /\ ~h /\ (a <=> e) /\ (b <=> f) /\ (c <=> g)
    <3>1. n = 1 \/ n = 2 \/ n = 3 \/ n = 4
      OBVIOUS
    <3>2. A[1] = a /\ A[2] = b /\ A[3] = c /\ A[4] = d /\ B[1] = e /\ B[2] = f /\ B[3] = g /\ B[4] = h
      OBVIOUS
    <3>. HIDE DEF A, B, a, b, c, d, e, f, g, h
    <3>3. CASE n = 1
      BY <2>1, <3>2, <3>3
    <3>4. CASE n = 2
      <4>1. A[1] = B[1]
        BY <2>1, <3>4
      <4>. QED
        BY <2>1, <3>2, <3>4, <4>1
    <3>5. CASE n = 3
      <4>1. A[1] = B[1] /\ A[2] = B[2]
        BY <2>1, <3>5
      <4>. QED
        BY <2>1, <3>2, <3>5, <4>1
    <3>6. CASE n = 4
      <4>1. A[1] = B[1] /\ A[2] = B[2] /\ A[3] = B[3]
        BY <2>1, <3>6
      <4>. QED
        BY <2>1, <3>2, <3>6, <4>1
    <3>. QED
      BY <3>1, <3>3, <3>4, <3>5, <3>6
  <2>. QED
    BY <2>1 DEF Q!MoreSpecific
<1>4. Q!TargetOf(Rows[i]) = Q!TargetOf(Rows[j]) => (a <=> e) /\ (b <=> f) /\ (c <=> g) /\ (d <=> h)
  BY DEF Q!TargetOf
<1>. HIDE DEF a, b, c, d, e, f, g, h
<1>5. (Q!MoreSpecific(Rows[i], Rows[j])) => Q!Score(Rows[j]) < Q!Score(Rows[i])
  <2>1. (c => ~d) /\ (g => ~h)
    BY <1>1 DEF c, d, g, h
  <2>. QED
    BY <1>2, <1>3, <2>1
<1>. QED
  BY <1>2, <1>4, <1>5

\* MostSpecificWins, of whatever books there are.
LEMMA SpecificWins ==
    ASSUME BooksKnown
    PROVE  Q!MostSpecificWins
<1>. SUFFICES ASSUME NEW c \in Callers, NEW m \in Models, NEW i \in inForce,
                     Q!Applies(Rows[i], c.who, c.space, m)
              PROVE  LET w == Q!Winner(c.who, c.space, m)
                     IN  /\ w # 0 /\ ~Q!MoreSpecific(Rows[i], Rows[w])
                         /\ Q!TargetOf(Rows[i]) = Q!TargetOf(Rows[w]) => w <= i
  BY DEF Q!MostSpecificWins
<1>. DEFINE w == Q!Winner(c.who, c.space, m)
<1>1. /\ w \in inForce /\ w # 0 /\ Q!Score(Rows[i]) <= Q!Score(Rows[w])
      /\ Q!Score(Rows[i]) = Q!Score(Rows[w]) => w <= i
  BY WinnerIs
<1>. HIDE DEF w
<1>2. /\ Q!MoreSpecific(Rows[i], Rows[w]) => Q!Score(Rows[w]) < Q!Score(Rows[i])
      /\ Q!TargetOf(Rows[i]) = Q!TargetOf(Rows[w]) => Q!Score(Rows[i]) = Q!Score(Rows[w])
  BY <1>1, SpecificScores
<1>3. Q!Score(Rows[i]) \in Int /\ Q!Score(Rows[w]) \in Int
  BY ScoreIs
<1>4. ~Q!MoreSpecific(Rows[i], Rows[w])
  BY <1>1, <1>2, <1>3
<1>. QED
  BY <1>1, <1>2, <1>4 DEF w

\* ShadowedNeverBinds, of whatever books there are.
LEMMA ShadowedLoses ==
    ASSUME BooksKnown
    PROVE  Q!ShadowedNeverBinds
<1>. SUFFICES ASSUME NEW who, NEW space, NEW m, Q!Winner(who, space, m) \in Q!Shadowed
              PROVE  FALSE
  BY DEF Q!ShadowedNeverBinds
<1>. DEFINE w == Q!Winner(who, space, m)
<1>1. /\ w \in inForce /\ ~Q!Names(Rows[w].key)
      /\ \E j \in inForce : j < w /\ Q!TargetOf(Rows[j]) = Q!TargetOf(Rows[w])
  BY DEF Q!Shadowed
<1>2. PICK j \in inForce : j < w /\ Q!TargetOf(Rows[j]) = Q!TargetOf(Rows[w])
  BY <1>1
<1>3. w # 0 /\ w \in Nat /\ j \in Nat
  BY <1>1, RowIs
<1>4. /\ Q!Applies(Rows[w], who, space, m)
      /\ Q!Applies(Rows[j], who, space, m) /\ Q!Score(Rows[j]) = Q!Score(Rows[w]) => w <= j
  BY <1>3, WinnerIs
<1>. HIDE DEF w
<1>5. Q!Score(Rows[j]) = Q!Score(Rows[w])
  BY <1>1, <1>2, SpecificScores
<1>6. Q!Applies(Rows[j], who, space, m)
  <2>1. /\ Rows[j].user = Rows[w].user /\ Rows[j].space = Rows[w].space
        /\ Rows[j].key = Rows[w].key /\ Rows[j].model = Rows[w].model
        /\ Rows[j].bundle = Rows[w].bundle
    BY <1>2 DEF Q!TargetOf
  <2>. QED
    BY <1>4, <2>1 DEF Q!Applies
<1>. QED
  BY <1>2, <1>3, <1>4, <1>5, <1>6

-----------------------------------------------------------------------------
(* The limits of a request, and what the screens show of them.             *)

\* A limit of a person has the columns of a row or of the default, and names no key; a
\* ceiling names its key.
LEMMA LimitIs ==
    ASSUME BooksKnown
    PROVE  /\ \A who, space, m :
                LET l == Q!LimitsOf(Q!Winner(who, space, m), who)
                IN  /\ l.window \in Q!Periods /\ l.max \in Nat /\ l.minute \in Nat
                    /\ l.key = Q!Null
           /\ \A k : \A l \in Q!Ceilings(k) :
                /\ l.window \in Q!Periods /\ l.max \in Nat /\ l.minute \in Nat
                /\ l.key = k /\ Q!Names(k)
<1>1. ASSUME NEW who, NEW space, NEW m
      PROVE  LET l == Q!LimitsOf(Q!Winner(who, space, m), who)
             IN  /\ l.window \in Q!Periods /\ l.max \in Nat /\ l.minute \in Nat
                 /\ l.key = Q!Null
  <2>. DEFINE w == Q!Winner(who, space, m)
  <2>1. w = 0 \/ (w \in inForce /\ w # 0)
    BY WinnerIs
  <2>. HIDE DEF w
  <2>2. CASE w = 0
    <3>1. Default.window \in Q!Periods /\ Default.max \in Nat
      BY PoliciesAssumption DEF Q!PoliciesKnown
    <3>2. /\ Q!LimitsOf(w, who).window = Default.window /\ Q!LimitsOf(w, who).max = Default.max
          /\ Q!LimitsOf(w, who).minute = 0 /\ Q!LimitsOf(w, who).key = Q!Null
      BY <2>2 DEF Q!LimitsOf
    <3>. QED
      BY <3>1, <3>2 DEF w
  <2>3. CASE w \in inForce /\ w # 0
    <3>1. Rows[w].window \in Q!Periods /\ Rows[w].max \in Nat /\ Rows[w].minute \in Nat
      BY <2>3, RowIs
    <3>2. /\ Q!LimitsOf(w, who).window = Rows[w].window /\ Q!LimitsOf(w, who).max = Rows[w].max
          /\ Q!LimitsOf(w, who).minute = Rows[w].minute /\ Q!LimitsOf(w, who).key = Q!Null
      BY <2>3 DEF Q!LimitsOf
    <3>. QED
      BY <3>1, <3>2 DEF w
  <2>. QED
    BY <2>1, <2>2, <2>3
<1>2. ASSUME NEW k, NEW l \in Q!Ceilings(k)
      PROVE  /\ l.window \in Q!Periods /\ l.max \in Nat /\ l.minute \in Nat
             /\ l.key = k /\ Q!Names(k)
  <2>1. PICK i \in inForce : Q!Names(k) /\ Rows[i].key = k /\ l = Q!CeilingOf(i)
    BY DEF Q!Ceilings
  <2>2. Rows[i].window \in Q!Periods /\ Rows[i].max \in Nat /\ Rows[i].minute \in Nat
    BY RowIs
  <2>. QED
    BY <2>1, <2>2 DEF Q!CeilingOf
<1>. QED
  BY <1>1, <1>2

\* A model that no policy names is under the limits of a model without a name.
LEMMA AliasIs ==
    ASSUME BooksKnown, NEW who, NEW space, NEW m
    PROVE  \E a \in Q!Aliases : Q!Winner(who, space, m) = Q!Winner(who, space, a)
<1>1. CASE m \in Q!Aliases
  BY <1>1
<1>2. CASE m \notin Q!Aliases
  <2>1. ASSUME NEW i \in inForce
        PROVE  Q!Applies(Rows[i], who, space, m) <=> Q!Applies(Rows[i], who, space, Q!Null)
    <3>1. CASE Q!Names(Rows[i].key)
      BY <3>1 DEF Q!Applies
    <3>2. CASE ~Q!Names(Rows[i].key) /\ Q!Names(Rows[i].model)
      <4>1. Rows[i].model \in Q!Aliases /\ Rows[i].model # Q!Null
        BY <3>2 DEF Q!Aliases, Q!Names
      <4>2. Rows[i].model # m
        BY <1>2, <4>1
      <4>. QED
        BY <3>2, <4>1, <4>2 DEF Q!Applies
    <3>3. CASE ~Q!Names(Rows[i].key) /\ ~Q!Names(Rows[i].model) /\ Q!Names(Rows[i].bundle)
      <4>1. Q!Bundle(Rows[i].bundle) \subseteq Q!Aliases
        BY <3>3 DEF Q!Aliases
      <4>2. Q!Null \notin Q!Bundle(Rows[i].bundle)
        BY PoliciesAssumption DEF Q!PoliciesKnown, Q!Bundle, BooksKnown
      <4>3. m \notin Q!Bundle(Rows[i].bundle)
        BY <1>2, <4>1
      <4>. QED
        BY <3>3, <4>2, <4>3 DEF Q!Applies
    <3>4. CASE ~Q!Names(Rows[i].key) /\ ~Q!Names(Rows[i].model) /\ ~Q!Names(Rows[i].bundle)
      BY <3>4 DEF Q!Applies
    <3>. QED
      BY <3>1, <3>2, <3>3, <3>4
  <2>2. {i \in inForce : Q!Applies(Rows[i], who, space, m)}
          = {i \in inForce : Q!Applies(Rows[i], who, space, Q!Null)}
    BY <2>1
  <2>3. Q!Winner(who, space, m) = Q!Winner(who, space, Q!Null)
    BY <2>2 DEF Q!Winner
  <2>4. Q!Null \in Q!Aliases
    BY DEF Q!Aliases
  <2>. QED
    BY <2>3, <2>4
<1>. QED
  BY <1>1, <1>2

\* Whatever binds a request of a person is on both screens.
LEMMA BindingShown ==
    ASSUME BooksKnown, NEW c \in live, NEW m
    PROVE  Q!Binding(c, m) \subseteq Q!Lanes(c.who) \cap Q!LanesOfKey(c)
<1>1. PICK a \in Q!Aliases : Q!Winner(c.who, c.space, m) = Q!Winner(c.who, c.space, a)
  BY AliasIs
<1>2. /\ Q!Names(c.key) => c \in Q!KeysOf(c.who)
      /\ ~Q!Names(c.key) => c.space = Q!Null
  BY PoliciesAssumption DEF Q!PoliciesKnown, Q!KeysOf, Q!Names, BooksKnown
<1>3. c.space \in {Q!Null} \cup {d.space : d \in Q!KeysOf(c.who)}
  BY <1>2
<1>4. Q!ResolveLimits(c, m) \in Q!Lanes(c.who)
  BY <1>1, <1>3 DEF Q!ResolveLimits, Q!Lanes
<1>5. Q!ResolveLimits(c, m) \in Q!LanesOfKey(c)
  BY <1>1 DEF Q!ResolveLimits, Q!LanesOfKey
<1>6. Q!Ceilings(c.key) \subseteq Q!Lanes(c.who) \cap Q!LanesOfKey(c)
  <2>1. CASE Q!Names(c.key)
    <3>1. c \in Q!KeysOf(c.who)
      BY <1>2, <2>1
    <3>. QED
      BY <3>1 DEF Q!Lanes, Q!LanesOfKey
  <2>2. CASE ~Q!Names(c.key)
    BY <2>2 DEF Q!Ceilings
  <2>. QED
    BY <2>1, <2>2
<1>. QED
  BY <1>4, <1>5, <1>6 DEF Q!Binding

\* ScreensAreComplete, of whatever books there are.
LEMMA ScreensShow ==
    ASSUME BooksKnown
    PROVE  Q!ScreensAreComplete
<1>1. \A c \in live, m \in Models :
        Q!Binding(c, m) \subseteq Q!Lanes(c.who) \cap Q!LanesOfKey(c)
  BY BindingShown
<1>. QED
  BY <1>1 DEF Q!ScreensAreComplete

\* Every limit that a screen can show is counted in a lane, and so is its minute.
LEMMA LanesAre ==
    ASSUME BooksKnown, NEW who, NEW l \in Q!Lanes(who)
    PROVE  /\ l.window \in Q!Periods /\ l.max \in Nat /\ l.minute \in Nat
           /\ IsLane(<<l.subject, l.window>>) /\ IsLane(<<l.subject, "minute">>)
<1>1. \/ \E s, a : l = Q!LimitsOf(Q!Winner(who, s, a), who)
      \/ \E k : l \in Q!Ceilings(k)
  BY DEF Q!Lanes
<1>2. l.window \in Q!Periods /\ l.max \in Nat /\ l.minute \in Nat
  BY <1>1, LimitIs
<1>3. l.window \in Kinds /\ "minute" \in Kinds
  BY <1>2 DEF Q!Periods, Kinds
<1>. QED
  BY <1>2, <1>3 DEF IsLane

\* Every limit that binds a request is one of the person or a ceiling of the key.
LEMMA BindingIs ==
    ASSUME BooksKnown, NEW c, NEW m, NEW l \in Q!Binding(c, m)
    PROVE  /\ l.window \in Q!Periods /\ l.max \in Nat /\ l.minute \in Nat
           /\ IsLane(<<l.subject, l.window>>) /\ IsLane(<<l.subject, "minute">>)
           /\ Q!Names(l.key) => l.key = c.key
<1>1. l = Q!LimitsOf(Q!Winner(c.who, c.space, m), c.who) \/ l \in Q!Ceilings(c.key)
  BY DEF Q!Binding, Q!ResolveLimits
<1>2. l.window \in Q!Periods /\ l.max \in Nat /\ l.minute \in Nat /\ (l.key = Q!Null \/ l.key = c.key)
  BY <1>1, LimitIs
<1>3. l.window \in Kinds /\ "minute" \in Kinds
  BY <1>2 DEF Q!Periods, Kinds
<1>. QED
  BY <1>2, <1>3 DEF IsLane, Q!Names

-----------------------------------------------------------------------------
(* The invariant of the policies.                                          *)

\* What is in flight is charged to the windows of the limits that bound it.
InHand ==
    /\ DOMAIN flight = Slots /\ DOMAIN bound = Slots
    /\ \A s \in Slots : /\ flight[s] # Q!Idle => flight[s].windows = bound[s]
                        /\ \A l \in bound[s] : IsLane(l)

PoliciesInv == BooksKnown /\ Booked /\ InHand /\ Q!ResetReopens

\* One slot changes.
LEMMA SlotSet ==
    ASSUME NEW f, NEW s \in DOMAIN f, NEW v, NEW g, g = [f EXCEPT ![s] = v]
    PROVE  DOMAIN g = DOMAIN f /\ g[s] = v /\ \A r \in DOMAIN f : r # s => g[r] = f[r]
BY Zenon

\* Without a reset in the last step nobody has been told anything.
LEMMA NoneReset ==
    ASSUME reset' = Q!NoReset
    PROVE  Q!ResetReopens'
BY DEF Q!ResetReopens, Q!NoReset, Q!Names

\* The limits of a request depend on the books alone.
LEMMA BindingSame ==
    ASSUME inForce' = inForce, open' = open, NEW c, NEW m
    PROVE  Q!Binding(c, m)' = Q!Binding(c, m)
<1>1. \A p, who, space : Q!Applies(p, who, space, m)' = Q!Applies(p, who, space, m)
  BY DEF Q!Applies, Q!Bundle, Q!Names
<1>2. Q!Winner(c.who, c.space, m)' = Q!Winner(c.who, c.space, m)
  BY <1>1 DEF Q!Winner
<1>3. Q!ResolveLimits(c, m)' = Q!ResolveLimits(c, m)
  BY <1>2 DEF Q!ResolveLimits
<1>4. Q!Ceilings(c.key)' = Q!Ceilings(c.key)
  BY DEF Q!Ceilings
<1>. QED
  BY <1>3, <1>4 DEF Q!Binding

\* The first state satisfies the invariant.
LEMMA PoliciesStart ==
    ASSUME Q!Init
    PROVE  PoliciesInv
<1>1. BooksKnown
  BY PoliciesAssumption DEF Q!PoliciesKnown, Q!Init, BooksKnown
<1>2. Booked
  <2>1. DOMAIN counters = {} /\ DOMAIN used = {}
    BY DEF Q!Init
  <2>2. now \in Clock
    BY ClockIs DEF Q!Init, Clock, LastMinute
  <2>. QED
    BY <2>1, <2>2 DEF Booked, Q!At
<1>3. InHand
  BY DEF Q!Init, InHand
<1>4. Q!ResetReopens
  BY DEF Q!Init, Q!ResetReopens, Q!NoReset, Q!Names
<1>. QED
  BY <1>1, <1>2, <1>3, <1>4 DEF PoliciesInv

\* A request is let in.
LEMMA AskKeeps ==
    ASSUME PoliciesInv, NEW s \in Slots, Q!Ask(s)
    PROVE  PoliciesInv'
<1>1. PICK c \in live, model \in Models :
        LET gates == Q!Gates(c, model)
            minutes == {<<g.subject, "minute">> : g \in gates}
        IN  /\ counters' = Q!Charged(minutes)
            /\ used' = Q!OneMore(used, minutes)
            /\ flight' = [flight EXCEPT ![s] =
                           [caller |-> c, model |-> model, windows |-> Q!Charge(c, model)]]
            /\ bound' = [bound EXCEPT ![s] =
                           {<<l.subject, l.window>> : l \in Q!Binding(c, model)}]
  BY DEF Q!Ask
<1>2. BooksKnown' /\ now' = now
  BY DEF Q!Ask, PoliciesInv, BooksKnown
<1>3. Booked'
  <2>. DEFINE minutes == {<<g.subject, "minute">> : g \in Q!Gates(c, model)}
  <2>1. \A l \in minutes : IsLane(l)
    BY DEF IsLane, Kinds
  <2>2. counters' = Q!Charged(minutes) /\ used' = Q!OneMore(used, minutes) /\ Booked
    BY <1>1 DEF PoliciesInv
  <2>. HIDE DEF minutes
  <2>. QED
    BY <1>2, <2>1, <2>2, ChargeCounts
<1>4. InHand'
  <2>. DEFINE lanes == {<<l.subject, l.window>> : l \in Q!Binding(c, model)}
              request == [caller |-> c, model |-> model, windows |-> Q!Charge(c, model)]
  <2>1. request.windows = lanes
    BY DEF Q!Charge
  <2>2. \A l \in lanes : IsLane(l)
    BY BindingIs DEF PoliciesInv
  <2>3. flight' = [flight EXCEPT ![s] = request] /\ bound' = [bound EXCEPT ![s] = lanes]
    BY <1>1
  <2>. HIDE DEF request, lanes
  <2>4. DOMAIN flight = Slots /\ DOMAIN bound = Slots
    BY DEF PoliciesInv, InHand
  <2>5. /\ DOMAIN flight' = Slots /\ flight'[s] = request
        /\ \A r \in Slots : r # s => flight'[r] = flight[r]
    BY <2>3, <2>4, SlotSet
  <2>6. /\ DOMAIN bound' = Slots /\ bound'[s] = lanes
        /\ \A r \in Slots : r # s => bound'[r] = bound[r]
    BY <2>3, <2>4, SlotSet
  <2>. QED
    BY <2>1, <2>2, <2>5, <2>6 DEF PoliciesInv, InHand
<1>5. Q!ResetReopens'
  BY NoneReset DEF Q!Ask
<1>. QED
  BY <1>2, <1>3, <1>4, <1>5 DEF PoliciesInv

\* A request is counted.
LEMMA RecordKeeps ==
    ASSUME PoliciesInv, NEW s \in Slots, Q!Record(s)
    PROVE  PoliciesInv'
<1>1. BooksKnown' /\ now' = now
  BY DEF Q!Record, PoliciesInv, BooksKnown
<1>2. Booked'
  <2>1. flight[s].windows = bound[s] /\ \A l \in bound[s] : IsLane(l)
    BY DEF Q!Record, PoliciesInv, InHand
  <2>2. counters' = Q!Charged(bound[s]) /\ used' = Q!OneMore(used, bound[s]) /\ Booked
    BY <2>1 DEF PoliciesInv, Q!Record
  <2>. QED
    BY <1>1, <2>1, <2>2, ChargeCounts
<1>3. InHand'
  <2>1. flight' = [flight EXCEPT ![s] = Q!Idle] /\ bound' = [bound EXCEPT ![s] = {}]
    BY DEF Q!Record
  <2>2. DOMAIN flight = Slots /\ DOMAIN bound = Slots
    BY DEF PoliciesInv, InHand
  <2>3. /\ DOMAIN flight' = Slots /\ flight'[s] = Q!Idle
        /\ \A r \in Slots : r # s => flight'[r] = flight[r]
    BY <2>1, <2>2, SlotSet
  <2>4. /\ DOMAIN bound' = Slots /\ bound'[s] = {}
        /\ \A r \in Slots : r # s => bound'[r] = bound[r]
    BY <2>1, <2>2, SlotSet
  <2>. QED
    BY <2>3, <2>4 DEF PoliciesInv, InHand
<1>4. Q!ResetReopens'
  BY NoneReset DEF Q!Record
<1>. QED
  BY <1>1, <1>2, <1>3, <1>4 DEF PoliciesInv

\* A person is reset: what is cleared has room, what is kept is named.
LEMMA ResetKeeps ==
    ASSUME PoliciesInv, Q!ResetPerson
    PROVE  PoliciesInv'
<1>1. PICK who \in {c.who : c \in Callers}, withKeys \in BOOLEAN :
        LET clear == Q!LanesToClear(who, withKeys)
            gone == {<<l.subject, l.window>> : l \in clear}
                    \cup {<<l.subject, "minute">> : l \in {k \in clear : k.minute > 0}}
        IN  /\ counters' = Q!Without(counters, {Q!Name(l, now) : l \in gone})
            /\ used' = Q!Without(used, gone)
            /\ reset' = [who |-> who, kept |-> Q!Lanes(who) \ clear]
  BY DEF Q!ResetPerson
<1>. DEFINE clear == Q!LanesToClear(who, withKeys)
            gone == {<<l.subject, l.window>> : l \in clear}
                    \cup {<<l.subject, "minute">> : l \in {k \in clear : k.minute > 0}}
<1>2. BooksKnown /\ BooksKnown' /\ now' = now /\ InHand' /\ Booked
  BY DEF Q!ResetPerson, PoliciesInv, BooksKnown, InHand
<1>3. clear \subseteq Q!Lanes(who)
  BY DEF Q!LanesToClear
<1>4. \A l \in gone : IsLane(l)
  <2>1. \A l \in clear : IsLane(<<l.subject, l.window>>) /\ IsLane(<<l.subject, "minute">>)
    BY <1>2, <1>3, LanesAre
  <2>. HIDE DEF clear
  <2>. QED
    BY <2>1
<1>5. /\ counters' = Q!Without(counters, {Q!Name(l, now) : l \in gone})
      /\ used' = Q!Without(used, gone)
      /\ reset' = [who |-> who, kept |-> Q!Lanes(who) \ clear]
  BY <1>1
<1>6. Booked' /\ \A l \in gone : Q!At(counters', Q!Name(l, now)) = 0
  <2>. HIDE DEF gone
  <2>. QED
    BY <1>2, <1>4, <1>5, ResetCounts
<1>7. ASSUME NEW c \in live, c.who = who, NEW m \in Models, NEW l \in Q!Binding(c, m)
      PROVE  Q!Within(l)' \/ (l \in reset'.kept /\ l.key = c.key)
  <2>1. l \in Q!Lanes(who) /\ l.max \in Nat /\ l.minute \in Nat /\ (Q!Names(l.key) => l.key = c.key)
    BY <1>2, <1>7, BindingShown, BindingIs
  <2>2. CASE l \in clear
    <3>1. <<l.subject, l.window>> \in gone
      BY <2>2
    <3>2. l.minute > 0 => <<l.subject, "minute">> \in gone
      BY <2>2
    <3>. HIDE DEF gone, clear
    <3>3. Q!Count(l.subject, l.window)' = 0
      BY <1>2, <1>6, <3>1 DEF Q!Count
    <3>4. l.minute > 0 => Q!Count(l.subject, "minute")' = 0
      BY <1>2, <1>6, <3>2 DEF Q!Count
    <3>. QED
      BY <2>1, <3>3, <3>4 DEF Q!Within
  <2>3. CASE l \notin clear
    <3>1. l \in reset'.kept
      BY <1>5, <2>1, <2>3
    <3>2. Q!Names(l.key)
      BY <2>1, <2>3 DEF Q!LanesToClear
    <3>. QED
      BY <2>1, <3>1, <3>2
  <2>. QED
    BY <2>2, <2>3
<1>8. Q!ResetReopens'
  <2>1. inForce' = inForce /\ open' = open /\ live' = live /\ reset'.who = who
    BY <1>5 DEF Q!ResetPerson
  <2>2. \A c, m : Q!Binding(c, m)' = Q!Binding(c, m)
    BY <2>1, BindingSame
  <2>. QED
    BY <1>7, <2>1, <2>2 DEF Q!ResetReopens
<1>. QED
  BY <1>2, <1>6, <1>8 DEF PoliciesInv

\* Policies, bundles and keys change, and the minute turns over.
LEMMA OthersKeep ==
    ASSUME PoliciesInv, Q!Edit \/ Q!Tick \/ UNCHANGED policies
    PROVE  PoliciesInv'
<1>1. BooksKnown'
  BY DEF PoliciesInv, BooksKnown, Q!Edit, Q!Tick, policies
<1>2. Booked'
  <2>1. CASE Q!Tick
    BY <2>1, TickCounts DEF PoliciesInv
  <2>2. CASE UNCHANGED <<now, counters, used>>
    BY <2>2 DEF PoliciesInv, Booked
  <2>. QED
    BY <2>1, <2>2 DEF Q!Edit, policies
<1>3. InHand'
  BY DEF PoliciesInv, InHand, Q!Edit, Q!Tick, policies
<1>4. Q!ResetReopens'
  <2>1. CASE Q!Edit \/ Q!Tick
    BY <2>1, NoneReset DEF Q!Edit, Q!Tick
  <2>2. CASE UNCHANGED policies
    <3>1. UNCHANGED <<inForce, open, live, now, counters, reset>>
      BY <2>2 DEF policies
    <3>2. \A c, m : Q!Binding(c, m)' = Q!Binding(c, m)
      BY <3>1, BindingSame
    <3>3. \A l : Q!Within(l)' <=> Q!Within(l)
      BY <3>1 DEF Q!Within, Q!Count
    <3>. QED
      BY <3>1, <3>2, <3>3 DEF PoliciesInv, Q!ResetReopens
  <2>. QED
    BY <2>1, <2>2
<1>. QED
  BY <1>1, <1>2, <1>3, <1>4 DEF PoliciesInv

\* What the invariant says of the limits.
LEMMA LimitsFollow ==
    ASSUME PoliciesInv
    PROVE  Q!LimitsAreClear
<1>1. Q!TypeOK
  BY DEF PoliciesInv, BooksKnown, Booked, Q!TypeOK
<1>2. Q!CountersApart
  <2>1. ASSUME NEW l, IsLane(l) PROVE Q!Count(l[1], l[2]) = Q!At(used, l)
    <3>1. l = <<l[1], l[2]>> /\ l[2] \in Kinds
      BY <2>1 DEF IsLane
    <3>2. Q!At(counters, Q!Name(<<l[1], l[2]>>, now)) = Q!At(used, <<l[1], l[2]>>)
      BY <3>1 DEF PoliciesInv, Booked
    <3>. QED
      BY <3>1, <3>2 DEF Q!Count
  <2>2. \A l \in DOMAIN used : IsLane(l)
    BY DEF PoliciesInv, Booked
  <2>3. \A i \in DOMAIN Q!WINDOW_KINDS : Q!WINDOW_KINDS[i] \in Kinds
    BY KindsAre
  <2>4. \A k \in DOMAIN counters, i \in DOMAIN Q!WINDOW_KINDS : IsLane(<<k[1], Q!WINDOW_KINDS[i]>>)
    BY <2>3 DEF IsLane
  <2>. QED
    BY <2>1, <2>2, <2>4 DEF Q!CountersApart
<1>3. Q!TermsTile
  BY TermsTileEverywhere DEF Q!TermsTile
<1>4. Q!MostSpecificWins /\ Q!ShadowedNeverBinds /\ Q!ScreensAreComplete
  BY SpecificWins, ShadowedLoses, ScreensShow DEF PoliciesInv
<1>. QED
  BY <1>1, <1>2, <1>3, <1>4 DEF PoliciesInv, Q!LimitsAreClear

\* Whoever is let in is below each of the limits that bind the request.
LEMMA LetInBelow ==
    ASSUME PoliciesInv, Q!Next \/ UNCHANGED policies, NEW s \in Slots,
           flight[s] = Q!Idle, flight'[s] # Q!Idle
    PROVE  LET c == flight'[s].caller
               ceilings == {Q!CeilingOf(i) : i \in {j \in inForce :
                                               Q!Names(c.key) /\ Rows[j].key = c.key}}
           IN  \A l \in ceilings \cup {Q!ResolveLimits(c, flight'[s].model)} :
                 l.max = 0 \/ Q!At(used, <<l.subject, l.window>>) < l.max
<1>1. DOMAIN flight = Slots /\ BooksKnown
  BY DEF PoliciesInv, InHand
<1>2. Q!Ask(s)
  <2>1. ASSUME NEW r \in Slots, r # s, Q!Ask(r) PROVE FALSE
    <3>1. PICK v : flight' = [flight EXCEPT ![r] = v]
      BY <2>1 DEF Q!Ask
    <3>2. flight'[s] = flight[s]
      BY <1>1, <2>1, <3>1, SlotSet
    <3>. QED
      BY <3>2
  <2>2. ASSUME NEW r \in Slots, Q!Record(r) PROVE FALSE
    <3>1. flight' = [flight EXCEPT ![r] = Q!Idle]
      BY <2>2 DEF Q!Record
    <3>2. flight'[s] = flight[s] \/ flight'[s] = Q!Idle
      BY <1>1, <3>1, SlotSet
    <3>. QED
      BY <3>2
  <2>3. ASSUME Q!ResetPerson \/ Q!Edit \/ Q!Tick \/ UNCHANGED policies PROVE FALSE
    <3>1. flight' = flight
      BY <2>3 DEF Q!ResetPerson, Q!Edit, Q!Tick, policies
    <3>. QED
      BY <3>1
  <2>. QED
    BY <2>1, <2>2, <2>3 DEF Q!Next
<1>3. PICK c \in live, model \in Models :
        /\ \A l \in Q!Binding(c, model) : Q!Within(l)
        /\ flight' = [flight EXCEPT ![s] =
                       [caller |-> c, model |-> model, windows |-> Q!Charge(c, model)]]
  BY <1>2 DEF Q!Ask
<1>4. flight'[s].caller = c /\ flight'[s].model = model
  <2>. DEFINE request == [caller |-> c, model |-> model, windows |-> Q!Charge(c, model)]
  <2>1. request.caller = c /\ request.model = model
    OBVIOUS
  <2>2. flight' = [flight EXCEPT ![s] = request]
    BY <1>3
  <2>. HIDE DEF request
  <2>3. flight'[s] = request
    BY <1>1, <2>2, SlotSet
  <2>. QED
    BY <2>1, <2>3
<1>5. ASSUME NEW l \in Q!Binding(c, model)
      PROVE  l.max = 0 \/ Q!At(used, <<l.subject, l.window>>) < l.max
  <2>1. l.window \in Kinds /\ (l.max = 0 \/ Q!Count(l.subject, l.window) < l.max)
    BY <1>1, <1>3, BindingIs DEF Q!Within, Q!Periods, Kinds
  <2>2. Q!Count(l.subject, l.window) = Q!At(used, <<l.subject, l.window>>)
    BY <2>1 DEF PoliciesInv, Booked, Q!Count
  <2>. QED
    BY <2>1, <2>2
<1>. QED
  BY <1>4, <1>5 DEF Q!Binding, Q!Ceilings

-----------------------------------------------------------------------------
\* The invariant holds from the first state on.
LEMMA PoliciesKept ==
    /\ InitAll => PoliciesInv
    /\ PoliciesInv /\ [NextAll]_all => PoliciesInv'
<1>1. InitAll => PoliciesInv
  BY PoliciesStart DEF InitAll
<1>2. ASSUME PoliciesInv, [NextAll]_all PROVE PoliciesInv'
  <2>1. Q!Next \/ UNCHANGED policies
    BY <1>2 DEF NextAll, all
  <2>. QED
    BY <1>2, <2>1, AskKeeps, RecordKeeps, ResetKeeps, OthersKeep DEF Q!Next
<1>. QED
  BY <1>1, <1>2

\* LimitsAreClear, in every reachable state of the console: windows that begin together
\* share no row, terms tile the calendar, the most specific policy binds and a shadowed one
\* never, the screens show what a request can meet, and a reset opens what it does not name.
THEOREM LimitsStayClear == SpecAll => []LimitsAreClear
<1>1. PoliciesInv => LimitsAreClear
  BY LimitsFollow DEF LimitsAreClear
<1>. QED
  BY <1>1, PoliciesKept, PTL DEF SpecAll

\* EachLimitHolds: whatever the policies, a request is let in only below every limit that
\* binds it.
THEOREM LimitsBind == SpecAll => EachLimitHolds
<1>1. ASSUME PoliciesInv, [NextAll]_all
      PROVE  [\A s \in Slots : flight[s] = Q!Idle /\ flight'[s] # Q!Idle =>
                LET c == flight'[s].caller
                    ceilings == {Q!CeilingOf(i) : i \in {j \in inForce :
                                                    Q!Names(c.key) /\ Rows[j].key = c.key}}
                IN  \A l \in ceilings \cup {Q!ResolveLimits(c, flight'[s].model)} :
                      l.max = 0 \/ Q!At(used, <<l.subject, l.window>>) < l.max]_(Q!vars)
  <2>1. Q!Next \/ UNCHANGED policies
    BY <1>1 DEF NextAll, all
  <2>. QED
    BY <1>1, <2>1, LetInBelow
<1>. QED
  BY <1>1, PoliciesKept, PTL DEF SpecAll, EachLimitHolds, Q!EachLimitHolds

=============================================================================
