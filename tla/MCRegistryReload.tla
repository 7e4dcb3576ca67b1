-------------------------- MODULE MCRegistryReload --------------------------
(* Values of the constants of RegistryReload for TLC. *)
EXTENDS RegistryReload

CONSTANTS w1, a, b

\* One request does anything, the other deletes the file.
AnythingAndDelete == [r \in Requests |-> IF r = a THEN Ops ELSE {"delete"}]
=============================================================================
