------------------------------ MODULE MCQuota ------------------------------
(* The ceilings per minute and the two ledgers of the daily and monthly      *)
(* limits, side by side for TLC: in a behaviour one of the two moves and the *)
(* other stands still. *)
EXTENDS MinuteQuota, FiniteSetsExt

CONSTANTS
    Parts, Charges, ChargedAt, Cost, Limit, Clients, MaxOutages, MaxLosses, AnswersLost,
    a, b, c, d, w1, w2, person, key

ASSUME LedgerAssumption ==
    /\ IsFiniteSet(Charges) /\ Charges # {}
    /\ ChargedAt \in [Charges -> Workers]
    /\ Cost \in [Charges -> Nat \ {0}]
    /\ Limit \in Nat \ {0} /\ Clients \in Nat \ {0}
    /\ AnswersLost \in BOOLEAN
    /\ MaxOutages \in Nat /\ MaxLosses \in Nat

VARIABLES part, redis, database, lost, hasCounts, charging, read, outages, losses

\* Two requests through one worker, two of three through the key with a ceiling.
TwoWorkers == [r \in Requests |-> IF r \in {a, c} THEN w1 ELSE w2]
ThroughTheKey == [r \in Requests |-> IF r \in {b, c} THEN <<person, key>> ELSE <<person>>]
TwoAndOne == [s \in Subjects |-> IF s = key THEN 1 ELSE 2]
OneOrTwo == [r \in Charges |-> IF r \in {a, b} THEN 1 ELSE 2]
ByWorker == [r \in Charges |-> IF r \in {a, c} THEN w1 ELSE w2]

L == INSTANCE QuotaLedgers
       WITH Requests <- Charges, WorkerOf <- ChargedAt, MaxFailures <- MaxOutages,
            down <- lost, pc <- charging, failures <- outages

ledgers == <<redis, database, lost, hasCounts, charging, read, outages, losses>>
all == <<part, vars, ledgers>>

InitBoth == part \in Parts /\ Init /\ L!Init

NextBoth ==
    \/ part = "minute" /\ Next /\ UNCHANGED <<part, ledgers>>
    \/ part = "ledgers" /\ L!Next /\ UNCHANGED <<part, vars>>

SpecBoth == InitBoth /\ [][NextBoth]_all

---------------------------------------------------------------------------
\* The properties of QuotaLedgers under their names.
ChargesKept == part = "ledgers" => L!ChargesKept
NotHandedBack == L!NotHandedBack
=============================================================================
