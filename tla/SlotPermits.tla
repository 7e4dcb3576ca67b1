---------------------------- MODULE SlotPermits ----------------------------
(***************************************************************************)
(* What the in-flight limiter promises, whatever it is made of: at each    *)
(* place where slots are counted, a request gets in only while fewer than  *)
(* Ceiling counted requests are inside, and never in company.  Requests    *)
(* stop being counted one by one, or many at once, when the clock outruns  *)
(* their leases or a process takes them down with it.                      *)
(***************************************************************************)
EXTENDS Naturals, FiniteSets

CONSTANTS Requests, Places, Ceiling

VARIABLE inside      \* [Places -> SUBSET Requests]: running and counted

Init == inside = [p \in Places |-> {}]

Enter(p, r) ==
    /\ r \notin inside[p]
    /\ Cardinality(inside[p]) < Ceiling
    /\ inside' = [inside EXCEPT ![p] = @ \cup {r}]

Leave ==
    /\ DOMAIN inside' = Places
    /\ \A p \in Places : inside'[p] \subseteq inside[p]

Next == Leave \/ \E p \in Places, r \in Requests : Enter(p, r)

Spec == Init /\ [][Next]_inside
=============================================================================
