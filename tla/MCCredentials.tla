--------------------------- MODULE MCCredentials ---------------------------
(* The key vault and the accounts, side by side for TLC: in a behaviour one *)
(* of the two moves and the other stands still. *)
EXTENDS KeyVault, TLC

CONSTANTS Parts, Names, Requests, Initial, Engines, AdminName, NoPassword, amy, bob

\* A table that a gateway is started on: no session has been ended yet, and unless nobody
\* administers, somebody who administers is active.
StartsWith(table) ==
    /\ DOMAIN table \subseteq Names
    /\ table \in [DOMAIN table ->
                    [role : {"admin", "manager", "user"}, status : {"active", "suspended"},
                     pw : {NoPassword, "initial"}, epoch : {0}, created : Nat]]
    /\ (\E n \in DOMAIN table : table[n].role = "admin") =>
          \E n \in DOMAIN table : table[n].role = "admin" /\ table[n].status = "active"

ASSUME AccountsAssumption ==
    /\ AdminName \in Names /\ IsFiniteSet(Names) /\ IsFiniteSet(Requests)
    /\ NoPassword \notin Requests \cup {"initial"}
    /\ Engines \subseteq {"postgresql", "sqlite"}
    /\ \A table \in Initial : StartsWith(table)

VARIABLES part, engine, users, tokens, reqs, printed, changed, rewound, raced, unasked

A == INSTANCE Accounts

accounts == <<engine, users, tokens, reqs, printed, changed, rewound, raced, unasked>>
all == <<part, vars, accounts>>

\* No account yet; two administrators that have no password; two with one; a manager.
Account(role, status, pw, created) ==
    [role |-> role, status |-> status, pw |-> pw, epoch |-> 0, created |-> created]
Two(x, y) == [n \in {amy, bob} |-> IF n = amy THEN x ELSE y]
NoAccounts == [n \in {} |-> 0]
Tables == {NoAccounts,
  Two(Account("admin", "active", NoPassword, 1), Account("admin", "active", NoPassword, 2)),
  Two(Account("admin", "active", "initial", 1), Account("manager", "active", "initial", 2)),
  Two(Account("admin", "active", "initial", 1), Account("admin", "active", "initial", 2))}

\* What stands still stands in one place.
InitBoth ==
    /\ part \in Parts
    /\ Init /\ A!Init
    /\ part # "vault" => \A k \in Keys : rows[k].there /\ rows[k].copy = IF k = 1 THEN Sealed(Old, 1) ELSE NoCopy
    /\ part # "accounts" => engine = "sqlite" /\ users = NoAccounts

NextBoth ==
    \/ part = "vault" /\ Next /\ UNCHANGED <<part, accounts>>
    \/ part = "accounts" /\ A!Next /\ UNCHANGED <<part, vars>>

SpecBoth == InitBoth /\ [][NextBoth]_all

Symmetric == Permutations(Workers)

---------------------------------------------------------------------------
\* The properties of Accounts under their names.
AdministrationLasts == part = "accounts" => A!AdministrationLasts
UnlessRewound == part = "accounts" => A!UnlessRewound
=============================================================================
