------------------------- MODULE MCRequestLifecycle -------------------------
(* Small registries for RequestLifecycle. *)
EXTENDS RequestLifecycle, TLC

CONSTANTS r1, r2, coding, long, spare, a1, a2, b1

\* A model of two endpoints, one of one and one whose endpoints are all out; the first
\* two fall back to each other, by way of the third.
ThreeModels == (coding :> {a1, a2}) @@ (long :> {b1}) @@ (spare :> {})
BothWays == (coding :> <<spare, long>>) @@ (long :> <<coding>>) @@ (spare :> <<>>)
=============================================================================
