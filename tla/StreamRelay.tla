----------------------------- MODULE StreamRelay -----------------------------
(***************************************************************************)
(* One streamed answer, from the backend's chunks to the caller's events   *)
(* and to the usage row: lifecycle.relay with the produce, render_error    *)
(* and usage of each surface (api/openai.py, api/anthropic.py,             *)
(* api/responses.py) around the adapters of StreamAdapters.                *)
(*                                                                         *)
(* The gateway reads one payload, counts it, turns it into frames and      *)
(* hands them over one at a time; the caller may leave at every one of     *)
(* those points, and the line to the backend may break at every read.      *)
(*                                                                         *)
(* `reader` is the caller: what a client that follows the events has put   *)
(* together, and what it noticed on the way.  It is external.              *)
(***************************************************************************)
EXTENDS StreamAdapters

CONSTANTS
    Surfaces,      \* [api, native, thinking, wants]: who asked, of whom, for what
    Chunks,        \* what a chat-completions backend may put into one chunk
    Reports,       \* the usage a backend that speaks the caller's API may report
    Estimate,      \* the gateway's estimate of the prompt
    MaxChunks,     \* bound on the payloads of a stream
    MaxNative      \* the same for a native stream

VARIABLES
    surface,       \* of this request
    adapter,       \* the stream adapter (`next` of a native stream is native_seq)
    frames,        \* made of the last payload, not yet handed over
    phase,         \* "reading" | "closing" | "failing" | "over" | "done"
    status,        \* of the usage row
    reported,      \* upstream_usage
    final,         \* saw_final_output
    relayed,       \* OutputMeter: pieces counted
    row,           \* the usage the row was written with, None before
    theirs,        \* a native backend: how far its own event sequence is
    given,         \* everything the backend has sent: the answer as it wrote it
    reader         \* the caller

vars == << surface, adapter, frames, phase, status, reported, final, relayed, row,
           theirs, given, reader >>

Translates == ~surface.native
Piece == given.chunks + 1

-----------------------------------------------------------------------------
(* The caller.                                                             *)

NewReader ==
    [items |-> << >>, next |-> 0, said |-> "nothing", output |-> << >>, usage |-> None,
     lost |-> FALSE, skipped |-> FALSE, late |-> FALSE]

Terminals == {"completed", "incomplete", "failed", "message_stop", "error", "DONE"}
IsOpen(r, e) == /\ e.index + 1 \in DOMAIN r.items
                /\ r.items[e.index + 1].open
                /\ r.items[e.index + 1].kind = e.kind

\* A caller of chat completions has one item, its message.
Written(r) == IF r.items = << >> THEN << >> ELSE r.items[1].whole

\* What an event does to the item it is about, and whether the reader was lost.
Adds(r, e) ==
    [r EXCEPT !.items = Append(@, [kind |-> e.kind, whole |-> << >>, open |-> TRUE]),
              !.lost = @ \/ e.index # Len(r.items)]
Grows(r, e) == [r EXCEPT !.items[e.index + 1].whole = @ \o e.body]
Shuts(r, e) ==
    [r EXCEPT !.items[e.index + 1].open = FALSE,
              !.lost = @ \/ e.body \notin {<< >>, r.items[e.index + 1].whole}]
Loses(r) == [r EXCEPT !.lost = TRUE]
Reprints(r, e) ==
    [r EXCEPT !.items = << [kind |-> "text", whole |-> Written(r) \o e.body, open |-> TRUE] >>]
Ends(r, e) == [r EXCEPT !.said = e.type, !.output = e.body, !.usage = e.usage]

Inner == {"delta", "item.done", "part.added", "part.done", "content.done"}

Follow(r, e) ==
    IF e.type \in Inner /\ ~IsOpen(r, e) THEN Loses(r)
    ELSE CASE e.type = "item.added" -> Adds(r, e)
           [] e.type = "delta" -> Grows(r, e)
           [] e.type = "item.done" -> Shuts(r, e)
           [] e.type = "chunk" -> Reprints(r, e)
           [] e.type \in Terminals /\ ~(e.type = "DONE" /\ r.said = "error") -> Ends(r, e)
           [] OTHER -> r

Read(r, e) ==
    [Follow(r, e) EXCEPT
        !.next = e.seq + 1,
        !.skipped = @ \/ (surface.api = "responses" /\ e.seq # r.next),
        !.late = @ \/ (r.said \in Terminals /\ ~(r.said = "error" /\ e.type = "DONE"))]

-----------------------------------------------------------------------------
(* resolve_usage and the usage() of the surfaces: the backend's numbers    *)
(* where it gave them, the meter where it did not.                         *)

\* A plausible bug: a usage block means everything was measured.
ResolveUsageTrusts(report, meter) ==
    IF report.given THEN report ELSE Usage(Estimate, meter)

ResolveUsage(report, meter) ==
    IF report.given /\ report.prompt + report.completion > 0
    THEN Usage(report.prompt,
               IF report.completion > 0 \/ meter = 0 THEN report.completion ELSE meter)
    ELSE Usage(Estimate, meter)

\* Until message_delta the output of a native Anthropic stream is a placeholder.
Reported == IF final THEN reported ELSE [reported EXCEPT !.completion = 0]

UsageNow == ResolveUsage(Reported, relayed)

-----------------------------------------------------------------------------
\* What validate_chat_params lets a caller ask for, and what a backend can send: a chunk is
\* text, thought and arguments in pieces, and counts are not negative.
Usages == [prompt : Nat, completion : Nat, given : BOOLEAN]
Deltas == [index : Nat, piece : Seq(Nat)]
Finishes == {"", "stop", "tool_calls"} \cup Incomplete
StreamsKnown ==
    /\ \A s \in Surfaces :
         /\ s.api \in {"chat", "messages", "responses"}
         /\ s.native \in BOOLEAN /\ s.thinking \in BOOLEAN /\ s.wants \in BOOLEAN
         /\ s.api = "chat" => ~s.native
    /\ \A c \in Chunks :
         /\ c = [thought |-> c.thought, text |-> c.text, calls |-> c.calls,
                 finish |-> c.finish, usage |-> c.usage]
         /\ c.thought \in Seq(Nat) /\ c.text \in Seq(Nat) /\ c.calls \in Seq(Deltas)
         /\ c.finish \in Finishes /\ c.usage \in Usages /\ (c.usage.given \/ c.usage = None)
    /\ \A u \in Reports : u \in Usages /\ u.given
    /\ Estimate \in Nat

Init ==
    /\ surface \in Surfaces
    /\ adapter = New
    /\ frames = << >>
    /\ phase = "reading"
    /\ status = "success"
    /\ reported = None
    /\ final = (surface.api # "messages" \/ ~surface.native)
    /\ relayed = 0
    /\ row = None
    /\ theirs = "nothing"
    /\ given = [chunks |-> 0, thought |-> << >>, text |-> << >>, calls |-> << >>,
                finish |-> "", kinds |-> << >>, usage |-> None]
    /\ reader = NewReader

Reading == phase = "reading" /\ frames = << >>

\* The calls of the answer, in the order in which the backend first named them.
MergeCall(calls, call) ==
    IF \E i \in DOMAIN calls : calls[i].index = call.index
    THEN [i \in DOMAIN calls |->
            IF calls[i].index = call.index THEN [calls[i] EXCEPT !.piece = @ \o call.piece]
                                           ELSE calls[i]]
    ELSE Append(calls, call)

\* One payload is counted for what the model wrote, shown to the caller or not.
MeterChat(chunk) ==
    Len(chunk.thought) + Len(chunk.text)
    + FoldLeft(LAMBDA n, call : n + Len(call.piece), 0, chunk.calls)

\* The chunk as chat completions carries it: the pieces are marked with its number.
Mark(pieces) == [i \in DOMAIN pieces |-> Piece]
Marked(chunk) ==
    [thought |-> Mark(chunk.thought),
     text |-> Mark(chunk.text),
     calls |-> [i \in DOMAIN chunk.calls |->
                  [index |-> chunk.calls[i].index, piece |-> Mark(chunk.calls[i].piece)]],
     finish |-> chunk.finish,
     usage |-> chunk.usage]

Kinds(chunk) ==
    (IF chunk.thought # << >> THEN << "reasoning" >> ELSE << >>)
    \o (IF chunk.text # << >> THEN << "text" >> ELSE << >>)
    \o (IF chunk.calls # << >> THEN << "call" >> ELSE << >>)

Give(chunk) ==
    given' = [chunks |-> given.chunks + 1,
              thought |-> given.thought \o chunk.thought,
              text |-> given.text \o chunk.text,
              calls |-> FoldLeft(MergeCall, given.calls, chunk.calls),
              finish |-> IF chunk.finish = "" THEN given.finish ELSE chunk.finish,
              kinds |-> given.kinds \o Kinds(chunk),
              usage |-> IF chunk.usage.given THEN chunk.usage ELSE given.usage]

\* The adapter of the surface.
HandleChunk(chunk) ==
    IF surface.api = "responses" THEN ResponsesChunk(adapter, chunk)
    ELSE MessageChunk(adapter, chunk, surface.thinking, Estimate)

Taken(a) == [a EXCEPT !.out = << >>]

\* A chunk through one of the two adapters.
TranslatedChunk ==
    /\ Translates /\ surface.api # "chat"
    /\ Reading /\ given.chunks < MaxChunks
    /\ \E c \in Chunks :
         LET chunk == Marked(c)
             a == HandleChunk(chunk)
         IN  /\ Give(chunk)
             /\ relayed' = relayed + MeterChat(chunk)
             /\ reported' = IF chunk.usage.given THEN chunk.usage ELSE reported
             /\ adapter' = Taken(a)
             /\ frames' = a.out
    /\ UNCHANGED << surface, phase, status, final, row, theirs, reader >>

HasChoices(chunk) == Kinds(chunk) # << >> \/ chunk.finish # ""

\* /v1/chat/completions hands a chunk on as it is; a chunk with nothing but
\* the usage goes on only if the caller asked for it.
ChatFrames(chunk) ==
    IF chunk.usage.given /\ ~surface.wants /\ ~HasChoices(chunk) THEN << >>
    ELSE << [Plain("chunk") EXCEPT !.body = chunk.text, !.usage = chunk.usage] >>

ChatChunk ==
    /\ surface.api = "chat"
    /\ Reading /\ given.chunks < MaxChunks
    /\ \E c \in Chunks :
         LET chunk == Marked(c)
         IN  /\ Give(chunk)
             /\ relayed' = relayed + MeterChat(chunk)
             /\ reported' = IF chunk.usage.given THEN chunk.usage ELSE reported
             /\ frames' = ChatFrames(chunk)
    /\ UNCHANGED << surface, adapter, phase, status, final, row, theirs, reader >>

-----------------------------------------------------------------------------
(* A backend that speaks the caller's API numbers and orders its events    *)
(* itself; the gateway hands them on and remembers where they are.  The    *)
(* sequence is that of one text item; external but for the relaying.       *)

Text == [index |-> 0, kind |-> "text", whole |-> << >>]

NextOfTheirs ==
    CASE theirs = "nothing" -> {"created"}
      [] theirs = "created" -> {"item.added", "last"}
      [] theirs \in {"item.added", "delta"} -> {"delta", "item.done"}
      [] theirs = "item.done" -> {"last"}
      [] theirs = "last" /\ surface.api = "messages" -> {"message_stop"}
      [] OTHER -> {}

LastType == IF surface.api = "responses" THEN "completed" ELSE "message_delta"

NativeEvent(kind, usage) ==
    CASE kind = "delta" -> Event("delta", Text, << Piece >>)
      [] kind = "item.added" -> Event(kind, Text, << >>)
      [] kind = "item.done" -> Event(kind, Text, << >>)
      [] kind = "last" -> [Plain(LastType) EXCEPT !.usage = usage]
      [] OTHER -> Plain(kind)

\* _extract_anthropic_usage and the inner usage of a Responses event.
Merged(u, kind) ==
    CASE surface.api = "messages" /\ kind = "created" -> Usage(u.prompt, 1)
      [] surface.api = "messages" /\ kind = "last" ->
           [reported EXCEPT !.completion = u.completion, !.given = TRUE]
      [] surface.api = "responses" /\ kind = "last" -> u
      [] OTHER -> reported

NativeChunk ==
    /\ surface.native /\ Reading /\ given.chunks < MaxNative
    /\ \E kind \in NextOfTheirs, u \in Reports :
         /\ theirs' = kind
         /\ reported' = Merged(u, kind)
         /\ final' = (final \/ kind = "last")
         /\ relayed' = IF kind = "delta" THEN relayed + 1 ELSE relayed
         /\ frames' = << [NativeEvent(kind, u) EXCEPT !.seq = adapter.next] >>
         /\ adapter' = [adapter EXCEPT !.next = @ + 1]
         /\ given' = [given EXCEPT !.chunks = @ + 1,
                                   !.text = IF kind = "delta" THEN Append(@, Piece) ELSE @,
                                   !.usage = Merged(u, kind)]
    /\ UNCHANGED << surface, phase, status, row, reader >>

-----------------------------------------------------------------------------
(* The end of the stream.                                                  *)

Finish ==
    CASE surface.api = "chat" -> Emit(adapter, << Plain("DONE") >>)
      [] surface.native -> adapter
      [] surface.api = "responses" /\ Translates -> FinishResponse(adapter, UsageNow)
      [] OTHER -> FinishMessage(adapter, UsageNow, Estimate)

\* The backend closed the line: [DONE], or a body that is complete.
BackendEnds ==
    /\ Reading
    /\ frames' = Finish.out
    /\ adapter' = Taken(Finish)
    /\ phase' = "closing"
    /\ UNCHANGED << surface, status, reported, final, relayed, row, theirs, given, reader >>

RenderError ==
    CASE surface.api = "chat" -> Emit(adapter, << Plain("error"), Plain("DONE") >>)
      [] surface.api = "messages" -> Emit(adapter, << Plain("error") >>)
      [] OTHER -> FailResponse(IF surface.native THEN Resume(adapter, adapter.next)
                                                 ELSE adapter, UsageNow)

\* The line broke, it was silent too long, or an error object came in a chunk.
\* Before the first payload another backend is tried: that is not this stream.
BackendFails ==
    /\ Reading
    /\ given.chunks > 0
    /\ frames' = RenderError.out
    /\ adapter' = Taken(RenderError)
    /\ phase' = "failing"
    /\ status' = "error"
    /\ UNCHANGED << surface, reported, final, relayed, row, theirs, given, reader >>

\* The next frame is handed over.
HandOver ==
    /\ frames # << >>
    /\ phase \in {"reading", "closing", "failing"}
    /\ reader' = Read(reader, Head(frames))
    /\ frames' = Tail(frames)
    /\ UNCHANGED << surface, adapter, phase, status, reported, final, relayed, row, theirs,
                    given >>

\* The caller hangs up: while a frame waits for it, while the gateway reads, or
\* with the last frame in its hands.
CallerLeaves ==
    /\ phase \in {"reading", "closing", "failing"}
    /\ phase' = "over"
    /\ status' = IF status = "success" THEN "aborted" ELSE status
    /\ frames' = << >>
    /\ UNCHANGED << surface, adapter, reported, final, relayed, row, theirs, given, reader >>

\* The generator of relay has run out of frames.
Drained ==
    /\ phase \in {"closing", "failing"} /\ frames = << >>
    /\ phase' = "over"
    /\ UNCHANGED << surface, adapter, frames, status, reported, final, relayed, row, theirs,
                    given, reader >>

\* The finally of relay: the slot goes back and the row is written.
Finalize ==
    /\ phase = "over"
    /\ phase' = "done"
    /\ row' = UsageNow
    /\ UNCHANGED << surface, adapter, frames, status, reported, final, relayed, theirs,
                    given, reader >>

Next ==
    \/ TranslatedChunk \/ ChatChunk \/ NativeChunk
    \/ BackendEnds \/ BackendFails
    \/ HandOver \/ CallerLeaves \/ Drained \/ Finalize

Spec == Init /\ [][Next]_vars

-----------------------------------------------------------------------------
(* Properties.                                                             *)

Complete == {"completed", "incomplete", "message_stop"}

TypeOK ==
    /\ surface \in Surfaces
    /\ phase \in {"reading", "closing", "failing", "over", "done"}
    /\ status \in {"success", "error", "aborted"}
    /\ relayed \in Nat
    /\ (row # None) = (phase = "done")
    /\ reader.said \in Terminals \cup {"nothing"}

\* Every event is about an item the reader can place: it was opened at the next
\* index, it has not been closed, it is of the kind it was opened as, and what it
\* was closed with is what the reader has put together.
NeverLost == ~reader.lost

\* The numbers of a Responses stream go up by one over all its events, those of
\* a native backend and the gateway's own response.failed after them included.
NumbersFollow == ~reader.skipped

\* Nothing comes after the closing event.  (A native backend whose line breaks
\* after its own closing event gets the gateway's failure behind it.)
NothingAfterTheEnd == reader.late => surface.native /\ status = "error"

Wholes(r, kind) ==
    FlattenSeq([i \in DOMAIN r.items |->
        IF r.items[i].kind = kind THEN r.items[i].whole ELSE << >>])

Calls == SelectSeq(reader.items, LAMBDA x : x.kind = "call")

\* An answer that ends as complete is the answer the backend gave: every piece of
\* its text, of the thought that was asked for and of the arguments of each call,
\* once, in order, every item closed, and the list of items in the closing event
\* the items the reader saw.
AnswerIsWhole ==
    reader.said \in Complete /\ Translates =>
        /\ Wholes(reader, "text") = given.text
        /\ Wholes(reader, "reasoning") = IF surface.api = "responses" \/ surface.thinking
                                 THEN given.thought ELSE << >>
        /\ [i \in DOMAIN Calls |-> Calls[i].whole]
              = [i \in DOMAIN given.calls |-> given.calls[i].piece]
        /\ \A i \in DOMAIN reader.items : ~reader.items[i].open
        /\ surface.api = "responses" =>
              /\ (reader.said = "incomplete") = (given.finish \in Incomplete)
              /\ Len(reader.output) = Len(reader.items)
              /\ \A i \in DOMAIN reader.items :
                    reader.output[i] = [index |-> i - 1, kind |-> reader.items[i].kind,
                                        whole |-> reader.items[i].whole]

\* Thoughts first, then text, then calls.
Canonical(kinds) ==
    LET Rank(k) == CASE k = "reasoning" -> 1 [] k = "text" -> 2 [] OTHER -> 3
    IN  \A i, j \in DOMAIN kinds : i < j => Rank(kinds[i]) <= Rank(kinds[j])

\* Where the two translations of an answer differ, what the streamed items are in one
\* piece: a call of a Responses answer that was given no arguments has "{}" for them, where
\* the item of the stream is closed with nothing; and a Messages answer in which nothing can
\* be shown is one empty block of text, where the stream opens none.
InOnePiece(items) ==
    IF surface.api = "responses"
    THEN [i \in DOMAIN items |-> IF items[i].kind = "call" /\ items[i].whole = << >>
                                 THEN [items[i] EXCEPT !.whole = EmptyObject] ELSE items[i]]
    ELSE IF items = << >> THEN << [kind |-> "text", whole |-> << >>] >> ELSE items

\* A model that thinks, then speaks, then calls gives the same items streamed and in one
\* piece, but for the two differences of InOnePiece.
StreamedAsWhole ==
    reader.said \in Complete /\ Translates /\ Canonical(given.kinds) =>
        InOnePiece([i \in DOMAIN reader.items |->
            [kind |-> reader.items[i].kind, whole |-> reader.items[i].whole]])
        = IF surface.api = "responses" THEN ResponsesAnswer(given)
          ELSE AnthropicAnswer(given, surface.thinking)

\* What the caller is told the answer cost is what the usage row says, when the
\* answer ends well and when it does not.
ShownIsCharged ==
    /\ phase = "done" /\ Translates /\ reader.said \in Complete => reader.usage = row
    /\ phase = "done" /\ reader.said = "failed" => reader.usage = row

Shown == \E i \in DOMAIN reader.items : reader.items[i].whole # << >>

\* Output that reached the caller is charged, wherever the stream stopped, and the
\* count the backend gave at the end is the one charged.
OutputIsNeverFree ==
    phase = "done" =>
        /\ Shown => row.completion > 0
        /\ given.usage.completion > 0 /\ final => row.completion = given.usage.completion
        /\ ~final => row.completion = relayed

\* The caller and the usage row tell the same story of how it ended.
EndsAsRecorded ==
    phase = "done" =>
        /\ reader.said \in Complete \cup {"DONE"} => status # "error" \/ surface.native
        /\ reader.said \in {"failed", "error"} => status = "error"
        /\ status = "success" /\ Translates => reader.said \in Complete \cup {"DONE"}

\* A client that follows the events can: each has its place, the numbers have no gap, and
\* nothing comes after the end.
StreamIsReadable == TypeOK /\ NeverLost /\ NumbersFollow /\ NothingAfterTheEnd

\* What has been put together at the end is the answer, streamed or in one piece.
AnswersAgree == AnswerIsWhole /\ StreamedAsWhole

\* The bill, the usage row and what the caller saw are one story.
BillIsTrue == ShownIsCharged /\ OutputIsNeverFree /\ EndsAsRecorded

=============================================================================
