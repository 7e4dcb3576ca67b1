--------------------------- MODULE StreamAdapters ---------------------------
(***************************************************************************)
(* The two stream adapters, as functions on their own state: chunks of a   *)
(* chat-completions stream in, typed events of the caller's API out.       *)
(*                                                                         *)
(*   ResponsesStreamAdapter  (upstream/protocol/responses.py)  Codex       *)
(*   AnthropicStreamAdapter  (upstream/protocol/anthropic.py)  Claude Code *)
(*                                                                         *)
(* A backend does not say where a piece of the answer begins or ends: it   *)
(* just sends a delta of another kind.  The adapters find the boundaries.  *)
(* A chunk is                                                              *)
(*    thought, text   << >> or one piece                                   *)
(*    calls           a sequence of [index, piece], piece << >> or one     *)
(*    finish          "" or the reason                                     *)
(*    usage           None or the backend's count                          *)
(* `out` collects the events of one call of the adapter; whoever called    *)
(* it takes them.                                                          *)
(***************************************************************************)
EXTENDS Naturals, FiniteSets, SequencesExt

None == [prompt |-> 0, completion |-> 0, given |-> FALSE]
Usage(p, c) == [prompt |-> p, completion |-> c, given |-> TRUE]

Closed == [index |-> 0, kind |-> "none", whole |-> << >>]    \* no item is open

\* An event on the way to the caller.
Event(type, item, body) ==
    [type |-> type, index |-> item.index, kind |-> item.kind, body |-> body,
     usage |-> None, seq |-> 0]
Plain(type) == Event(type, Closed, << >>)

New ==
    [started |-> FALSE, seq |-> 0, open |-> Closed, closed |-> << >>, tools |-> << >>,
     next |-> 0, finish |-> "", out |-> << >>]

\* _next: every event takes the next number, whatever its type.
Emit(a, events) ==
    [a EXCEPT !.seq = @ + Len(events),
              !.out = @ \o [i \in DOMAIN events |->
                              [events[i] EXCEPT !.seq = a.seq + i - 1]]]

-----------------------------------------------------------------------------
(* Shared: a function call is known by the backend's own number for it.    *)

Known(a, call) == \E t \in ToSet(a.tools) : t.call = call.index
Slot(a, call) == CHOOSE i \in DOMAIN a.tools : a.tools[i].call = call.index

\* The item takes the next index, and keeps it.
NewTool(a, call) ==
    [a EXCEPT !.tools = Append(@, [call |-> call.index, index |-> a.next,
                                   kind |-> "call", whole |-> << >>]),
              !.next = @ + 1]

AddArguments(a, call) ==
    IF call.piece = << >> THEN a
    ELSE LET i == Slot(a, call)
         IN  Emit([a EXCEPT !.tools[i].whole = @ \o call.piece],
                  << Event("delta", a.tools[i], call.piece) >>)

-----------------------------------------------------------------------------
(* ResponsesStreamAdapter.                                                 *)

StartResponse(a) ==
    IF a.started THEN a
    ELSE Emit([a EXCEPT !.started = TRUE], << Plain("created"), Plain("in_progress") >>)

CloseItem(a) ==
    IF a.open = Closed THEN a
    ELSE LET item == a.open
             parts == IF item.kind = "text" THEN << Event("part.done", item, item.whole) >>
                                            ELSE << >>
         IN  Emit([a EXCEPT !.open = Closed, !.closed = Append(@, item)],
                  << Event("content.done", item, item.whole) >> \o parts
                  \o << Event("item.done", item, item.whole) >>)

OpenItem(a, kind) ==
    LET item == [index |-> a.next, kind |-> kind, whole |-> << >>]
        parts == IF kind = "text" THEN << Event("part.added", item, << >>) >> ELSE << >>
    IN  Emit([a EXCEPT !.open = item, !.next = @ + 1],
             << Event("item.added", item, << >>) >> \o parts)

\* One kind of item at a time: another kind closes it.
AppendPiece(a, kind, piece) ==
    IF piece = << >> THEN a
    ELSE LET b == IF a.open.kind = kind THEN a ELSE OpenItem(CloseItem(a), kind)
         IN  Emit([b EXCEPT !.open.whole = @ \o piece], << Event("delta", b.open, piece) >>)

ToolCallItem(a, call) ==
    LET b == CloseItem(a)
        c == NewTool(b, call)
    IN  AddArguments(IF Known(a, call) THEN a
                     ELSE Emit(c, << Event("item.added", Last(c.tools), << >>) >>), call)

ResponsesChunk(a, chunk) ==
    LET b == StartResponse(a)
        c == [b EXCEPT !.finish = IF chunk.finish = "" THEN @ ELSE chunk.finish]
    IN  FoldLeft(ToolCallItem,
                 AppendPiece(AppendPiece(c, "reasoning", chunk.thought), "text", chunk.text),
                 chunk.calls)

\* A plausible bug: the closing event lists the items as they were closed.
OutputAsClosed(a) == a.closed

\* The items the reader has seen closed, in the order of their index.
InOrder(items) == SortSeq(items, LAMBDA x, y : x.index < y.index)
Output(a) == InOrder(a.closed)

Whole(t) == [index |-> t.index, kind |-> t.kind, whole |-> t.whole]

\* The calls in the order of the backend's numbers.
ByCall(tools) ==
    [n \in DOMAIN tools |->
        CHOOSE t \in ToSet(tools) : Cardinality({u \in ToSet(tools) : u.call < t.call}) = n - 1]

\* Every call stays open until the end: its arguments may still grow.
CloseTools(a) ==
    FoldLeft(LAMBDA b, t : Emit([b EXCEPT !.closed = Append(@, Whole(t))],
                                << Event("content.done", t, t.whole),
                                   Event("item.done", t, t.whole) >>),
             a, ByCall(a.tools))

Incomplete == {"length", "content_filter"}

Terminal(a, type, usage) ==
    Emit(a, << [Plain(type) EXCEPT !.body = Output(a), !.usage = usage] >>)

FinishResponse(a, usage) ==
    LET b == CloseTools(CloseItem(StartResponse(a)))
    IN  Terminal(b, IF b.finish \in Incomplete THEN "incomplete" ELSE "completed", usage)

\* Items sent half way are not closed one by one: the reader drops them all.
FailResponse(a, usage) == Terminal(StartResponse(a), "failed", usage)

\* A backend that speaks Responses itself numbered the events so far.
Resume(a, next) == [a EXCEPT !.seq = IF next > @ THEN next ELSE @, !.started = TRUE]

-----------------------------------------------------------------------------
(* AnthropicStreamAdapter: blocks instead of items; `next` is the block    *)
(* that is open, or the next one to open when none is.                     *)

StartMessage(a, estimate) ==
    IF a.started THEN a
    ELSE Emit([a EXCEPT !.started = TRUE],
              << [Plain("created") EXCEPT !.usage = Usage(estimate, 0)] >>)

\* A plausible bug: the next block opens at the index just used.
CloseBlockInPlace(a) ==
    IF a.open = Closed THEN a
    ELSE Emit([a EXCEPT !.open = Closed], << Event("item.done", a.open, << >>) >>)

CloseBlock(a) ==
    IF a.open = Closed THEN a
    ELSE Emit([a EXCEPT !.open = Closed, !.next = @ + 1],
              << Event("item.done", a.open, << >>) >>)

SwitchTo(a, kind, piece) ==
    IF piece = << >> THEN a
    ELSE LET b == CloseBlock(a)
             block == [index |-> b.next, kind |-> kind, whole |-> << >>]
             c == IF a.open.kind = kind THEN a
                  ELSE Emit([b EXCEPT !.open = block], << Event("item.added", block, << >>) >>)
         IN  Emit(c, << Event("delta", c.open, piece) >>)

ToolCallBlock(a, call) ==
    LET b == NewTool(CloseBlock(a), call)
    IN  AddArguments(IF Known(a, call) THEN a
                     ELSE Emit(b, << Event("item.added", Last(b.tools), << >>) >>), call)

MessageChunk(a, chunk, thinking, estimate) ==
    LET b == StartMessage(a, estimate)
        c == SwitchTo(b, "reasoning", IF thinking THEN chunk.thought ELSE << >>)
        d == FoldLeft(ToolCallBlock, SwitchTo(c, "text", chunk.text), chunk.calls)
    IN  [d EXCEPT !.finish = IF chunk.finish = "" THEN @ ELSE chunk.finish]

FinishMessage(a, usage, estimate) ==
    LET b == CloseBlock(StartMessage(a, estimate))
        stops == [i \in DOMAIN b.tools |-> Event("item.done", b.tools[i], << >>)]
        delta == [Plain("message_delta") EXCEPT
                     !.usage = usage,
                     !.body = << IF b.finish = "" THEN "stop" ELSE b.finish >>]
    IN  Emit(b, stops \o << delta, [Plain("message_stop") EXCEPT !.usage = usage] >>)

-----------------------------------------------------------------------------
(* The same answer in one piece: openai_to_responses_response and          *)
(* openai_to_anthropic_response.  An answer is the thought, the text and   *)
(* the calls it holds.                                                     *)

\* The arguments "{}".  Pieces of a backend are numbered from 1.
EmptyObject == << 0 >>

Part(kind, whole) == IF whole = << >> THEN << >> ELSE << [kind |-> kind, whole |-> whole] >>

\* A Responses caller gets an object for the arguments of every call.
CallItem(call) ==
    [kind |-> "call", whole |-> IF call.piece = << >> THEN EmptyObject ELSE call.piece]

ResponsesAnswer(answer) ==
    Part("reasoning", answer.thought) \o Part("text", answer.text)
    \o [i \in DOMAIN answer.calls |-> CallItem(answer.calls[i])]

\* A Messages caller gets the arguments as an object, an empty one where there is nothing
\* to parse, and an answer of at least one block.
AnthropicAnswer(answer, thinking) ==
    LET content == Part("reasoning", IF thinking THEN answer.thought ELSE << >>)
                   \o Part("text", answer.text)
                   \o [i \in DOMAIN answer.calls |->
                          [kind |-> "call", whole |-> answer.calls[i].piece]]
    IN  IF content = << >> THEN << [kind |-> "text", whole |-> << >>] >> ELSE content

=============================================================================
