------------------------------ MODULE MCStreams ------------------------------
(* Streams of up to MaxChunks payloads on every surface, and conversations of *)
(* up to MaxPieces pieces on the two that are translated, side by side: in a  *)
(* behaviour one of the two moves and the other stands still.                 *)
EXTENDS Naturals, Sequences

CONSTANTS
    Parts,
    Surfaces, Chunks, Totals, Estimate, MaxChunks, MaxNative,
    MaxPieces

VARIABLES
    part,
    surface, adapter, frames, stage, outcome, reported, final, relayed, row, theirs, given, reader,
    api, history

\* Of a stream: its status is the one of its usage row, its phase a stage beside the other
\* parts of a request, and Totals what a backend may report of one.
Stream == INSTANCE StreamRelay WITH status <- outcome, phase <- stage, Reports <- Totals
T == INSTANCE ChatTranslation

\* A backend counts what it sends and a caller of one surface is on no other.
ASSUME StreamsAssumption == Stream!StreamsKnown

relay == << surface, adapter, frames, stage, outcome, reported, final, relayed, row,
            theirs, given, reader >>
conversation == << api, history >>
all == << part, relay, conversation >>

MCSurfaces ==
    {[api |-> "responses", native |-> n, thinking |-> FALSE, wants |-> FALSE] : n \in BOOLEAN}
    \cup {[api |-> "messages", native |-> FALSE, thinking |-> t, wants |-> FALSE] : t \in BOOLEAN}
    \cup {[api |-> "messages", native |-> TRUE, thinking |-> FALSE, wants |-> FALSE]}
    \cup {[api |-> "chat", native |-> FALSE, thinking |-> FALSE, wants |-> w] : w \in BOOLEAN}

Usage(p, c) == [prompt |-> p, completion |-> c, given |-> TRUE]
None == [prompt |-> 0, completion |-> 0, given |-> FALSE]
Nothing == [thought |-> << >>, text |-> << >>, calls |-> << >>, finish |-> "", usage |-> None]
Call(i, piece) == [index |-> i, piece |-> piece]

\* A chunk with one kind of delta, with two, with two calls, the start of a call
\* whose arguments come later, and the chunks at the end.
MCChunks ==
    {[Nothing EXCEPT !.thought = << 0 >>],
     [Nothing EXCEPT !.text = << 0 >>],
     [Nothing EXCEPT !.thought = << 0 >>, !.text = << 0 >>],
     [Nothing EXCEPT !.calls = << Call(0, << >>) >>],
     [Nothing EXCEPT !.calls = << Call(0, << 0 >>) >>],
     [Nothing EXCEPT !.text = << 0 >>, !.calls = << Call(1, << 0 >>) >>],
     [Nothing EXCEPT !.calls = << Call(1, << 0 >>), Call(0, << 0 >>) >>],
     [Nothing EXCEPT !.text = << 0 >>, !.finish = "length"],
     [Nothing EXCEPT !.finish = "tool_calls", !.usage = Usage(2, 3)],
     [Nothing EXCEPT !.usage = Usage(2, 0)],
     [Nothing EXCEPT !.text = << 0 >>, !.usage = Usage(0, 1)]}

MCReports == {Usage(2, 3), Usage(2, 0)}

\* What stands still stands in one place.
InitBoth ==
    /\ part \in Parts
    /\ Stream!Init /\ T!Init
    /\ part # "relay" => surface = [api |-> "responses", native |-> TRUE,
                                   thinking |-> FALSE, wants |-> FALSE]
    /\ part # "translation" => api = "responses"

NextBoth ==
    \/ part = "relay" /\ Stream!Next /\ UNCHANGED << part, conversation >>
    \/ part = "translation" /\ T!Next /\ UNCHANGED << part, relay >>

SpecBoth == InitBoth /\ [][NextBoth]_all

-----------------------------------------------------------------------------
\* The properties of StreamRelay and ChatTranslation under their names.
StreamIsReadable == Stream!StreamIsReadable
AnswersAgree == Stream!AnswersAgree
BillIsTrue == Stream!BillIsTrue
ConversationKept == T!ConversationKept
=============================================================================
