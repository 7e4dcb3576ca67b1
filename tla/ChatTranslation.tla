--------------------------- MODULE ChatTranslation ---------------------------
(***************************************************************************)
(* A conversation of Codex (Responses API) or of Claude Code (Messages     *)
(* API) as the chat-completions backend behind the gateway gets to see it: *)
(* responses_to_openai_request and anthropic_to_openai_request, and the    *)
(* two profilers of core/multimodal.py that count the same request for the *)
(* context gate, the vision gate and the bill.                             *)
(*                                                                         *)
(* `history` is what the client sends, one piece at a time: an item of     *)
(* `input`, or a block of a turn of `messages`.  A piece is                *)
(*    kind   "system" "text" "image" "think" "call" "result"               *)
(*    role   "system" "user" "assistant"                                   *)
(*    call   for a result: the piece that asked for it                     *)
(*    image  a result that carries a picture beside its text               *)
(* and is known by its place in the history.                               *)
(***************************************************************************)
EXTENDS Naturals, FiniteSets, SequencesExt

CONSTANT MaxPieces   \* bound on the length of a conversation

VARIABLES api, history

vars == << api, history >>

Text(n) == [what |-> "text", of |-> n]
Picture(n) == [what |-> "image", of |-> n]
Note(n) == [what |-> "note", of |-> n]      \* "[image returned by tool call ...]"

Message(role, parts) == [role |-> role, parts |-> parts, calls |-> << >>, answers |-> 0]
ToolMessage(call, n) == [Message("tool", << Text(n) >>) EXCEPT !.answers = call]

-----------------------------------------------------------------------------
(* responses_to_openai_request: one pass over the items.                   *)

Fresh == [messages |-> << >>, calls |-> << >>, images |-> << >>, preamble |-> << >>,
          head |-> TRUE]

\* Consecutive calls are one assistant message.
FlushCalls(t) ==
    IF t.calls = << >> THEN t
    ELSE [t EXCEPT !.messages = Append(@, [Message("assistant", << >>) EXCEPT !.calls = t.calls]),
                   !.calls = << >>]

\* The pictures tools returned follow in a user message, after the whole set of results.
FlushImages(t) ==
    IF t.images = << >> THEN t
    ELSE [t EXCEPT !.messages = Append(@, Message("user", t.images)), !.images = << >>]

\* A plausible bug: the picture goes out between two results.
FlushImagesAlways(t, p) == FlushImages(t)
FlushBefore(t, p) == IF p.kind = "result" THEN t ELSE FlushImages(t)

ResultItem(t, p, n) ==
    [t EXCEPT !.head = FALSE,
              !.messages = Append(@, ToolMessage(p.call, n)),
              !.images = IF p.image THEN @ \o << Note(n), Picture(n) >> ELSE @]

\* System text at the head of the input joins the one system message.
MessageItem(t, p, n) ==
    IF p.role = "system" /\ t.head /\ p.kind = "system"
    THEN [t EXCEPT !.preamble = Append(@, Text(n))]
    ELSE [t EXCEPT !.head = FALSE,
                   !.messages = Append(@, Message(p.role,
                       << IF p.kind = "image" THEN Picture(n) ELSE Text(n) >>))]

Item(t, p, n) ==
    LET u == FlushBefore(t, p)
        v == FlushCalls(u)
    IN  CASE p.kind = "call" -> [u EXCEPT !.head = FALSE, !.calls = Append(@, n)]
          [] p.kind = "result" -> ResultItem(v, p, n)
          [] p.kind = "think" -> v
          [] OTHER -> MessageItem(v, p, n)

ResponsesToChat(h) ==
    LET t == FoldLeft(LAMBDA u, n : Item(u, h[n], n), Fresh, [n \in DOMAIN h |-> n])
        body == FlushImages(FlushCalls(t)).messages
    IN  IF t.preamble = << >> THEN body ELSE << Message("system", t.preamble) >> \o body

-----------------------------------------------------------------------------
(* anthropic_to_openai_request: one turn at a time.                        *)

Sub(turn, h, kinds) == SelectSeq(turn, LAMBDA n : h[n].kind \in kinds)

\* Results first, one tool message each; their pictures lead what else the turn holds.
TurnToChat(turn, h) ==
    LET role == h[turn[1]].role
        results == Sub(turn, h, {"result"})
        tools == [i \in DOMAIN results |-> ToolMessage(h[results[i]].call, results[i])]
        carried == FlattenSeq([i \in DOMAIN results |->
                      IF h[results[i]].image
                      THEN << Note(results[i]), Picture(results[i]) >> ELSE << >>])
        own == Sub(turn, h, {"text", "image"})
        parts == carried \o [i \in DOMAIN own |->
                      IF h[own[i]].kind = "image" THEN Picture(own[i]) ELSE Text(own[i])]
        calls == Sub(turn, h, {"call"})
    IN  tools \o
        (IF parts = << >> /\ calls = << >> THEN << >>
         ELSE << [Message(role, parts) EXCEPT !.calls = calls] >>)

\* `system` is a field of its own; a turn is a run of pieces of one role.
Dialogue(h) == SelectSeq([n \in DOMAIN h |-> n], LAMBDA n : h[n].role # "system")
System(h) == SelectSeq([n \in DOMAIN h |-> n], LAMBDA n : h[n].role = "system")

Turns(h) ==
    FoldLeft(LAMBDA turns, n :
                IF turns # << >> /\ h[Last(turns)[1]].role = h[n].role
                THEN [turns EXCEPT ![Len(turns)] = Append(@, n)]
                ELSE Append(turns, << n >>),
             << >>, Dialogue(h))

AnthropicToChat(h) ==
    (IF System(h) = << >> THEN << >>
     ELSE << Message("system", [i \in DOMAIN System(h) |-> Text(System(h)[i])]) >>)
    \o FlattenSeq([i \in DOMAIN Turns(h) |-> TurnToChat(Turns(h)[i], h)])

ToChat == IF api = "responses" THEN ResponsesToChat(history) ELSE AnthropicToChat(history)

-----------------------------------------------------------------------------
(* profile_responses_request and profile_anthropic_request: what the       *)
(* request is counted as.                                                  *)

ResultPictures(h) == {n \in DOMAIN h : h[n].kind = "result" /\ h[n].image}

Profile ==
    [images |-> {n \in DOMAIN history : history[n].kind = "image"} \cup ResultPictures(history),
     text |-> {n \in DOMAIN history : history[n].kind \in {"system", "text", "call", "result"}}]

-----------------------------------------------------------------------------
(* The client.  It answers the calls of a turn before it says anything     *)
(* else, results first; system text comes at the head.                     *)

Calls == {n \in DOMAIN history : history[n].kind = "call"}
Answered == {history[n].call : n \in {m \in DOMAIN history : history[m].kind = "result"}}
Waiting == Calls \ Answered

Piece(kind, role) == [kind |-> kind, role |-> role, call |-> 0, image |-> FALSE]

Spoken == \E n \in DOMAIN history : history[n].role # "system"

Add(p) == history' = Append(history, p) /\ UNCHANGED api

Init == api \in {"responses", "messages"} /\ history = << >>

AddSystem == Len(history) < MaxPieces /\ ~Spoken /\ Add(Piece("system", "system"))

UserSpeaks ==
    /\ Len(history) < MaxPieces /\ Waiting = {}
    /\ \E kind \in {"text", "image"} : Add(Piece(kind, "user"))

\* Thought, text and calls, in whatever order the model wrote them: until the first
\* result, and again after the last.
AssistantSpeaks ==
    /\ Len(history) < MaxPieces /\ Spoken
    /\ Last(history).kind = "result" => Waiting = {}
    /\ \E kind \in {"think", "text", "call"} : Add(Piece(kind, "assistant"))

ToolAnswers ==
    /\ Len(history) < MaxPieces
    /\ \E n \in Waiting, image \in BOOLEAN :
         Add([Piece("result", "user") EXCEPT !.call = n, !.image = image])

Next == AddSystem \/ UserSpeaks \/ AssistantSpeaks \/ ToolAnswers

Spec == Init /\ [][Next]_vars

-----------------------------------------------------------------------------
(* Properties.                                                             *)

\* Sent when nothing is left unanswered.
Ready == history # << >> /\ Waiting = {}

Atoms(chat) == FlattenSeq([i \in DOMAIN chat |-> chat[i].parts])
Asked(chat) == FlattenSeq([i \in DOMAIN chat |-> chat[i].calls])

\* Nothing of a request is dropped and nothing is said twice: every text, picture,
\* result and call of the client is in the chat exactly once, the thoughts of other
\* models aside.
NothingDropped ==
    LET shown == SelectSeq(Atoms(ToChat), LAMBDA a : a.what # "note")
    IN  /\ ToSet(shown) =
             {Text(n) : n \in {m \in DOMAIN history :
                                 history[m].kind \in {"system", "text", "result"}}}
             \cup {Picture(n) : n \in Profile.images}
        /\ Len(shown) = Cardinality(ToSet(shown))
        /\ Asked(ToChat) = SelectSeq([n \in DOMAIN history |-> n],
                                     LAMBDA n : history[n].kind = "call")

\* What the request is counted as is what the backend is sent: no picture passes the
\* vision gate, or the bill, unseen.
CountedIsSent ==
    /\ {a.of : a \in {b \in ToSet(Atoms(ToChat)) : b.what = "image"}} = Profile.images
    /\ {a.of : a \in {b \in ToSet(Atoms(ToChat)) : b.what = "text"}} \subseteq Profile.text

\* The words keep their order; only the pictures of results wait for the last result.
OrderKept ==
    LET words == SelectSeq(Atoms(ToChat), LAMBDA a : a.what = "text")
    IN  \A i, j \in DOMAIN words : i < j => words[i].of < words[j].of

\* One system message, and it is the first: the only form every chat template takes.
SystemFirst ==
    \A i \in DOMAIN ToChat : ToChat[i].role = "system" => i = 1

\* An item of the Responses API has no turn.  The calls of a turn are told apart from
\* the next by what stands between them: a thought or a text after a call parts the
\* call from its answer.
Unparted ==
    api = "responses" =>
        \A n \in Calls : n < Len(history) => history[n + 1].kind \in {"call", "result"}

\* Every call is answered where a chat template looks for it: the message that asks is
\* followed by one tool message for each of its calls, and by nothing else before them.
CallsAnsweredNext ==
    Ready /\ Unparted =>
        \A i \in DOMAIN ToChat : ToChat[i].calls # << >> =>
            LET k == Len(ToChat[i].calls)
            IN  /\ i + k <= Len(ToChat)
                /\ {ToChat[j].answers : j \in (i + 1)..(i + k)} = ToSet(ToChat[i].calls)

\* The conversation that the backend gets is the one that was sent, in an order that chat
\* templates take.
ConversationKept == NothingDropped /\ CountedIsSent /\ OrderKept /\ SystemFirst /\ CallsAnsweredNext

=============================================================================
