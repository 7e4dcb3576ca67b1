----------------------------- MODULE MCInFlight -----------------------------
(* Values of the constants of InFlight for TLC. *)
EXTENDS InFlight

CONSTANTS r1, r2, r3, w1, w2, e1, e2, s1, s2

\* Two requests of one worker and one of another.
ThreeRequests == {r1, r2, r3}
ThreeHomes == [r \in ThreeRequests |-> IF r = r3 THEN w2 ELSE w1]

TwoRequests == {r1, r2}
TwoHomes == [r \in TwoRequests |-> IF r = r2 THEN w2 ELSE w1]

\* Two endpoints with different ceilings, which may share a backend.
OneAndTwo == [e \in {e1, e2} |-> IF e = e1 THEN 1 ELSE 2]

JustOne == [e \in {e1} |-> 1]
=============================================================================
