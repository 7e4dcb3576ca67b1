---------------------------- MODULE UsageLedger ----------------------------
(***************************************************************************)
(* What the usage log promises about one row per request: a row that was   *)
(* handed in waits until it is stored, refused by the database, or counted *)
(* as dropped; that fate is final; and a row may only get lost at the      *)
(* moment the process stops.                                               *)
(***************************************************************************)
CONSTANT Rows

VARIABLES
    fate,        \* [Rows -> {"new", "waiting", "stored", "refused", "dropped", "lost"}]
    up           \* the process runs

lvars == <<fate, up>>

Init == fate = [r \in Rows |-> "new"] /\ up = TRUE

\* A new row comes in, or finds the buffer full.
HandIn(r) ==
    /\ fate[r] = "new"
    /\ \E f \in {"waiting", "dropped"} : fate' = [fate EXCEPT ![r] = f]
    /\ up' = up

Settles(r) == fate[r] = "waiting" /\ fate'[r] \in {"stored", "refused", "dropped"}

\* A flush settles some of the waiting rows, in any of the three ways.
Settle ==
    /\ DOMAIN fate' = Rows
    /\ \A r \in Rows : fate'[r] # fate[r] => Settles(r)
    /\ up' = up

\* The process is told to stop: what waits may be lost, nothing else.
Stop ==
    /\ up /\ up' = FALSE
    /\ DOMAIN fate' = Rows
    /\ \A r \in Rows : fate'[r] # fate[r] =>
          \/ Settles(r)
          \/ fate[r] = "waiting" /\ fate'[r] = "lost"

Next == Settle \/ Stop \/ \E r \in Rows : HandIn(r)

Spec == Init /\ [][Next]_lvars
=============================================================================
