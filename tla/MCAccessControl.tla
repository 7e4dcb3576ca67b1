--------------------------- MODULE MCAccessControl ---------------------------
EXTENDS AccessControl, TLC
CONSTANTS root, ann, ben, sam, w1, w2, g, m1, m2, k1, k2, k3, p1, p2
Roles == [u \in Users |-> IF u = root THEN "admin" ELSE IF u = sam THEN "user" ELSE "manager"]
Askers == [user : {root, ann}, key : {None}] \cup {[user |-> ben, key |-> k2]}
\* A class with a shared manager; a key limited to a bundle, a manager's key with a list.
School == [members |-> {<<ann, w1>>, <<ben, w1>>, <<ben, w2>>, <<sam, w1>>},
           spaces |-> w1 :> Space("active", {m1}, {}) @@ w2 :> Space("active", {m2}, {}),
           groups |-> g :> Group({m1}, TRUE),
           keys |-> k1 :> Key(sam, None, {}, {g}) @@ k2 :> Key(ben, None, {m1}, {}),
           policies |-> p1 :> Policy("global", None, None, "day")
                        @@ p2 :> Policy("workspace", w1, g, "month")]
\* A key pinned to a class, an administrator's key with a ceiling, a policy that has run out.
Institute == [members |-> {<<ann, w1>>, <<sam, w1>>, <<sam, w2>>},
           spaces |-> w1 :> Space("active", {m1}, {g}) @@ w2 :> Space("active", {m2}, {}),
           groups |-> g :> Group({m2}, TRUE),
           keys |-> k1 :> Key(sam, w1, {m1}, {}) @@ k2 :> Key(root, None, {}, {}),
           policies |-> p1 :> Policy("key", k2, None, "day")
                        @@ p2 :> [Policy("global", None, None, "day") EXCEPT !.live = FALSE]]
Sent == {[models |-> M, groups |-> {}] : M \in {{}, {m2}}} \cup {[models |-> {}, groups |-> {g}]}
\* One class that nobody is in, and no bundle.
Fresh == [members |-> {}, spaces |-> w1 :> Space("active", {m1}, {}), groups |-> <<>>,
          keys |-> k1 :> Key(sam, None, {}, {}), policies |-> <<>>]
Three == {School, Institute, Fresh}
=============================================================================
