------------------------- MODULE AccessControlProofs -------------------------
(***************************************************************************)
(* Proofs about AccessControl, for any number of people, workspaces,       *)
(* bundles, keys and policies, and any sequence of requests.               *)
(*                                                                         *)
(* RowsConsistent is inductive.  The action properties follow from it with *)
(* one lemma each on how the permission of a key depends on the tables.    *)
(***************************************************************************)
EXTENDS AccessControl, TLAPS

Good(d) == Typed(d) /\ ForeignKeys(d) /\ BundlesExist(d) /\ NoneHidden(d)

(***************************************************************************)
(* Rows of a table.                                                        *)
(***************************************************************************)
\* A row put in the place of another leaves the rest of the table.
LEMMA TableExcept ==
    ASSUME NEW Ids, NEW Rows, NEW t, IsTable(t, Ids, Rows), NEW i \in DOMAIN t, NEW row \in Rows
    PROVE  /\ IsTable([t EXCEPT ![i] = row], Ids, Rows)
           /\ DOMAIN [t EXCEPT ![i] = row] = DOMAIN t
           /\ [t EXCEPT ![i] = row][i] = row
           /\ \A x \in DOMAIN t : x # i => [t EXCEPT ![i] = row][x] = t[x]
BY DEF IsTable

\* What stands in a table is a row of it.
LEMMA RowsAreTyped ==
    ASSUME NEW d, Typed(d)
    PROVE  /\ \A m \in d.members : m[1] \in Users /\ m[2] \in Spaces
           /\ \A w \in DOMAIN d.spaces : w \in Spaces /\ d.spaces[w] \in SpaceRows
           /\ \A g \in DOMAIN d.groups : g \in Groups /\ d.groups[g] \in GroupRows
           /\ \A k \in DOMAIN d.keys : k \in Keys /\ d.keys[k] \in KeyRows
           /\ \A p \in DOMAIN d.policies : p \in PolicyIds /\ d.policies[p] \in PolicyRows
BY DEF Typed, IsTable

(***************************************************************************)
(* Which tables a request writes.                                          *)
(***************************************************************************)
Only(field, rows) ==
    /\ db' = [members |-> db'.members, spaces |-> db'.spaces, groups |-> db'.groups,
              keys |-> db'.keys, policies |-> db'.policies]
    /\ db'.members = IF field = "members" THEN rows ELSE db.members
    /\ db'.spaces = IF field = "spaces" THEN rows ELSE db.spaces
    /\ db'.groups = IF field = "groups" THEN rows ELSE db.groups
    /\ db'.keys = IF field = "keys" THEN rows ELSE db.keys
    /\ db'.policies = IF field = "policies" THEN rows ELSE db.policies

\* create_access_group adds a bundle, and nothing else.
LEMMA GroupCreated ==
    ASSUME Typed(db), NEW a, NEW g, NEW M, CreateGroup(a, g, M)
    PROVE  Only("groups", With(db.groups, g, Group(M, TRUE)))
BY DEF Typed, CreateGroup, Write, Answered, Only

\* update_access_group writes one column of one bundle.
LEMMA GroupUpdated ==
    ASSUME Typed(db), NEW a, NEW g, NEW col \in {"models", "on"}, NEW value, UpdateGroup(a, g, col, value)
    PROVE  Only("groups", [db.groups EXCEPT ![g] = [@ EXCEPT ![col] = value]])
BY DEF Typed, UpdateGroup, Write, Answered, Only

\* delete_access_group removes the bundle, and nothing else.
LEMMA GroupDeleted ==
    ASSUME Typed(db), NEW a, NEW g, DeleteGroup(a, g)
    PROVE  Only("groups", Without(db.groups, {g}))
BY DEF Typed, DeleteGroup, Write, Answered, Only

\* create_workspace adds an empty workspace.
LEMMA SpaceCreated ==
    ASSUME Typed(db), NEW a, NEW w, CreateSpace(a, w)
    PROVE  Only("spaces", With(db.spaces, w, Space("active", {}, {})))
BY DEF Typed, CreateSpace, Write, Answered, Only

\* add_members writes enrolments only.
LEMMA MembersAdded ==
    ASSUME Typed(db), NEW a, NEW w, NEW U, AddMembers(a, w, U)
    PROVE  Only("members", db.members \cup ({u \in U : ~IsMember(db, u, w)} \X {w}))
BY DEF Typed, AddMembers, Write, Answered, Only

\* leave removes one enrolment; the keys bound to the workspace keep their rows.
LEMMA MemberLeft ==
    ASSUME Typed(db), NEW a, NEW w, NEW u, Leave(a, w, u)
    PROVE  Only("members", db.members \ {<<u, w>>})
BY DEF Typed, Leave, Answered, Only

\* set_workspace_status writes the status of one workspace.
LEMMA StatusSet ==
    ASSUME Typed(db), NEW a, NEW w, NEW status, SetStatus(a, w, status)
    PROVE  Only("spaces", [db.spaces EXCEPT ![w] = [@ EXCEPT !.status = status]])
BY DEF Typed, SetStatus, Write, Answered, Only

\* set_workspace_models writes one row of the workspaces.
LEMMA ModelsSet ==
    ASSUME Typed(db), NEW a, NEW w, NEW M, NEW G, NEW D, SetSpaceModels(a, w, M, G, D)
    PROVE  Only("spaces", [db.spaces EXCEPT
                  ![w] = [@ EXCEPT !.models = M,
                                   !.groups = IF G = None THEN db.spaces[w].groups ELSE G,
                                   !.defaults = IF D = None THEN db.spaces[w].defaults ELSE D]])
BY DEF Typed, SetSpaceModels, Write, Answered, Only

\* create_api_key adds one key under an unused id.
LEMMA KeyIssued ==
    ASSUME Typed(db), NEW a, NEW u, NEW w, NEW M, NEW G, IssueKey(a, u, w, M, G)
    PROVE  Only("keys", With(db.keys, NextKey,
                  [Key(u, w, IF M = None THEN Defaults(u, w).models ELSE M,
                             IF G = None THEN Defaults(u, w).groups ELSE G)
                     EXCEPT !.filled = (G = None)]))
BY DEF Typed, IssueKey, Write, Answered, Only

\* amend_api_key writes the list of one key.
LEMMA KeyAmended ==
    ASSUME Typed(db), NEW a, NEW i, NEW M, AmendKey(a, i, M)
    PROVE  Only("keys", [db.keys EXCEPT ![i] = [@ EXCEPT !.models = M]])
BY DEF Typed, AmendKey, Write, Answered, Only

\* extend_api_key writes the expiry of one key.
LEMMA KeyExtended ==
    ASSUME Typed(db), NEW a, NEW i, ExtendKey(a, i)
    PROVE  Only("keys", [db.keys EXCEPT ![i] = [@ EXCEPT !.lapsed = FALSE]])
BY DEF Typed, ExtendKey, Write, Answered, Only

\* revoke_api_key and revoke_my_key write one mark on one key.
LEMMA KeyRevoked ==
    ASSUME Typed(db), NEW a, NEW i, RevokeKey(a, i) \/ RevokeMine(a, i)
    PROVE  Only("keys", [db.keys EXCEPT ![i] = [@ EXCEPT !.revoked = TRUE]])
BY DEF Typed, RevokeKey, RevokeMine, Write, Answered, Only

\* create_my_key adds one key, of its owner, with no list and in no workspace.
LEMMA MineIssued ==
    ASSUME Typed(db), NEW a, IssueMine(a)
    PROVE  Only("keys", With(db.keys, NextKey, Key(a.user, None, {}, {})))
BY DEF Typed, IssueMine, Write, Answered, Only

\* create_quota_policy adds one policy.
LEMMA PolicyCreated ==
    ASSUME Typed(db), NEW a, NEW i, NEW t, NEW window, CreatePolicy(a, i, t, window)
    PROVE  Only("policies", With(db.policies, i, Policy(t[1], t[2], t[3], window)))
BY DEF Typed, CreatePolicy, Write, Answered, Only

\* update_quota_policy writes one column of one policy.
LEMMA PolicyUpdated ==
    ASSUME Typed(db), NEW a, NEW i, NEW col \in {"live", "window"}, NEW value, UpdatePolicy(a, i, col, value)
    PROVE  Only("policies", [db.policies EXCEPT ![i] = [@ EXCEPT ![col] = value]])
BY DEF Typed, UpdatePolicy, Write, Answered, Only

\* delete_quota_policy removes one policy.
LEMMA PolicyDeleted ==
    ASSUME Typed(db), NEW a, NEW i, DeletePolicy(a, i)
    PROVE  Only("policies", Without(db.policies, {i}))
BY DEF Typed, DeletePolicy, Write, Answered, Only

\* Time ends one key or one policy.
LEMMA RunsOut ==
    ASSUME Typed(db), Lapse
    PROVE  \/ \E i \in DOMAIN db.keys : Only("keys", [db.keys EXCEPT ![i] = [@ EXCEPT !.lapsed = TRUE]])
           \/ \E p \in DOMAIN db.policies :
                 Only("policies", [db.policies EXCEPT ![p] = [@ EXCEPT !.live = FALSE]])
BY DEF Typed, Lapse, Write, Answered, Only

(***************************************************************************)
(* When one written table leaves the database good.                        *)
(***************************************************************************)
Distinct(t) ==
    \A p, o \in DOMAIN t :
        p # o /\ t[p].live /\ t[o].live => Target(t[p]) # Target(t[o]) \/ t[p].window # t[o].window

\* NoneHidden, said pair by pair of the policies table alone.
LEMMA NoneHiddenIsDistinct == ASSUME NEW d PROVE NoneHidden(d) <=> Distinct(d.policies)
BY DEF NoneHidden, Distinct, Duplicate

\* Enrolments in existing workspaces leave the database good.
LEMMA GoodMembers ==
    ASSUME Good(db), NEW m \in SUBSET (Users \X Spaces), Only("members", m),
           \A x \in m : x[2] \in DOMAIN db.spaces
    PROVE  Good(db')
<1>1. Typed(db')
  BY DEF Good, Only, Typed
<1>2. ForeignKeys(db') /\ BundlesExist(db')
  BY DEF Good, Only, ForeignKeys, BundlesExist
<1>3. NoneHidden(db')
  BY DEF Good, Only, NoneHidden, Duplicate
<1>. QED
  BY <1>1, <1>2, <1>3 DEF Good

\* So do workspaces whose bundles exist, when none is removed.
LEMMA GoodSpaces ==
    ASSUME Good(db), NEW s, Only("spaces", s), IsTable(s, Spaces, SpaceRows),
           DOMAIN db.spaces \subseteq DOMAIN s,
           \A w \in DOMAIN s : s[w].groups \subseteq DOMAIN db.groups
    PROVE  Good(db')
<1>1. Typed(db')
  BY DEF Good, Only, Typed
<1>2. ForeignKeys(db') /\ BundlesExist(db')
  BY DEF Good, Only, ForeignKeys, BundlesExist
<1>3. NoneHidden(db')
  BY DEF Good, Only, NoneHidden, Duplicate
<1>. QED
  BY <1>1, <1>2, <1>3 DEF Good

\* So do bundles, when those that somebody refers to stay.
LEMMA GoodGroups ==
    ASSUME Good(db), NEW t, Only("groups", t), IsTable(t, Groups, GroupRows),
           \A w \in DOMAIN db.spaces : db.spaces[w].groups \subseteq DOMAIN t,
           \A p \in DOMAIN db.policies : db.policies[p].group \in DOMAIN t \cup {None},
           \A i \in DOMAIN db.keys :
              ~db.keys[i].revoked /\ ~db.keys[i].filled => db.keys[i].groups \subseteq DOMAIN t
    PROVE  Good(db')
<1>1. Typed(db')
  BY DEF Good, Only, Typed
<1>2. ForeignKeys(db') /\ BundlesExist(db')
  BY DEF Good, Only, ForeignKeys, BundlesExist
<1>3. NoneHidden(db')
  BY DEF Good, Only, NoneHidden, Duplicate
<1>. QED
  BY <1>1, <1>2, <1>3 DEF Good

\* So do keys whose workspace and bundles exist, when none is removed.
LEMMA GoodKeys ==
    ASSUME Good(db), NEW t, Only("keys", t), IsTable(t, Keys, KeyRows),
           DOMAIN db.keys \subseteq DOMAIN t,
           \A i \in DOMAIN t : t[i].space \in DOMAIN db.spaces \cup {None},
           \A i \in DOMAIN t :
              ~t[i].revoked /\ ~t[i].filled => t[i].groups \subseteq DOMAIN db.groups
    PROVE  Good(db')
<1>1. Typed(db')
  BY DEF Good, Only, Typed
<1>2. ForeignKeys(db') /\ BundlesExist(db')
  BY DEF Good, Only, ForeignKeys, BundlesExist
<1>3. NoneHidden(db')
  BY DEF Good, Only, NoneHidden, Duplicate
<1>. QED
  BY <1>1, <1>2, <1>3 DEF Good

\* So do policies that point at existing rows and are distinct.
LEMMA GoodPolicies ==
    ASSUME Good(db), NEW t, Only("policies", t), IsTable(t, PolicyIds, PolicyRows),
           Distinct(t),
           \A p \in DOMAIN t :
              /\ t[p].scope = "workspace" => t[p].at \in DOMAIN db.spaces
              /\ t[p].scope = "key" => t[p].at \in DOMAIN db.keys
              /\ t[p].group \in DOMAIN db.groups \cup {None}
    PROVE  Good(db')
<1>1. Typed(db')
  BY DEF Good, Only, Typed
<1>2. ForeignKeys(db') /\ BundlesExist(db')
  BY DEF Good, Only, ForeignKeys, BundlesExist
<1>3. NoneHidden(db')
  BY NoneHiddenIsDistinct DEF Only
<1>. QED
  BY <1>1, <1>2, <1>3 DEF Good

(***************************************************************************)
(* Every request on workspaces and bundles leaves the database good.       *)
(***************************************************************************)
LEMMA GroupsKept ==
    ASSUME Good(db), NEW a, NEW g \in Groups,
           \/ DeleteGroup(a, g)
           \/ \E M \in SUBSET Models : CreateGroup(a, g, M) \/ UpdateGroup(a, g, "models", M)
           \/ \E on \in BOOLEAN : UpdateGroup(a, g, "on", on)
    PROVE  Good(db')
<1>0. Typed(db) /\ IsTable(db.groups, Groups, GroupRows)
  BY DEF Good, Typed
<1>1. ASSUME DeleteGroup(a, g) PROVE Good(db')
  <2>. DEFINE t == Without(db.groups, {g})
  <2>1. Only("groups", t) /\ ~HeldGroup(g)
    BY <1>0, <1>1, GroupDeleted DEF DeleteGroup
  <2>2. IsTable(t, Groups, GroupRows) /\ DOMAIN t = DOMAIN db.groups \ {g}
    BY <1>0 DEF IsTable, Without
  <2>. HIDE DEF t
  <2>. QED
    BY <2>1, <2>2, GoodGroups DEF Good, ForeignKeys, BundlesExist, HeldGroup
<1>2. ASSUME NEW M \in SUBSET Models, CreateGroup(a, g, M) PROVE Good(db')
  <2>. DEFINE row == Group(M, TRUE)
              t == With(db.groups, g, row)
  <2>1. Only("groups", t)
    BY <1>0, <1>2, GroupCreated
  <2>2. row \in GroupRows
    BY DEF Group, GroupRows
  <2>. HIDE DEF row
  <2>3. IsTable(t, Groups, GroupRows) /\ DOMAIN t = DOMAIN db.groups \cup {g}
    BY <1>0, <2>2 DEF IsTable, With
  <2>. HIDE DEF t
  <2>. QED
    BY <2>1, <2>3, GoodGroups DEF Good, ForeignKeys, BundlesExist
<1>3. ASSUME NEW row \in GroupRows, g \in DOMAIN db.groups,
             Only("groups", [db.groups EXCEPT ![g] = row])
      PROVE  Good(db')
  <2>. DEFINE t == [db.groups EXCEPT ![g] = row]
  <2>1. IsTable(t, Groups, GroupRows) /\ DOMAIN t = DOMAIN db.groups
    BY <1>0, <1>3, TableExcept
  <2>. HIDE DEF t
  <2>2. Only("groups", t)
    BY <1>3 DEF t
  <2>. QED
    BY <2>1, <2>2, GoodGroups DEF Good, ForeignKeys, BundlesExist
<1>4. ASSUME NEW col \in {"models", "on"}, NEW value,
             col = "models" => value \in SUBSET Models, col = "on" => value \in BOOLEAN,
             UpdateGroup(a, g, col, value)
      PROVE  Good(db')
  <2>1. Only("groups", [db.groups EXCEPT ![g] = [@ EXCEPT ![col] = value]]) /\ g \in DOMAIN db.groups
    BY <1>0, <1>4, GroupUpdated DEF UpdateGroup
  <2>2. [db.groups[g] EXCEPT ![col] = value] \in GroupRows
    BY <1>0, <1>4, <2>1 DEF IsTable, GroupRows
  <2>. QED
    BY <1>3, <2>1, <2>2
<1>. QED
  BY <1>1, <1>2, <1>4

\* Creating a workspace, its status and its models.
LEMMA SpacesKept ==
    ASSUME Good(db), AccessAssumption, NEW a, NEW w \in Spaces,
           \/ CreateSpace(a, w)
           \/ \E status \in {"active", "suspended"} : SetStatus(a, w, status)
           \/ \E l \in Lists : \E G \in {l.groups, None}, D \in {l, None} :
                 SetSpaceModels(a, w, l.models, G, D)
    PROVE  Good(db')
<1>0. /\ Typed(db) /\ IsTable(db.spaces, Spaces, SpaceRows)
      /\ \A v \in DOMAIN db.spaces : db.spaces[v].groups \subseteq DOMAIN db.groups
      /\ DOMAIN db.groups \subseteq Groups
  BY DEF Good, Typed, ForeignKeys, IsTable
<1>1. ASSUME CreateSpace(a, w) PROVE Good(db')
  <2>. DEFINE row == Space("active", {}, {})
              s == With(db.spaces, w, row)
  <2>1. Only("spaces", s)
    BY <1>0, <1>1, SpaceCreated
  <2>2. row \in SpaceRows /\ row.groups = {}
    BY DEF Space, SpaceRows, Limits, Nothing
  <2>. HIDE DEF row
  <2>3. /\ IsTable(s, Spaces, SpaceRows) /\ DOMAIN s = DOMAIN db.spaces \cup {w}
        /\ s[w] = row /\ \A v \in DOMAIN db.spaces : v # w => s[v] = db.spaces[v]
    BY <1>0, <2>2 DEF IsTable, With
  <2>4. \A v \in DOMAIN s : s[v].groups \subseteq DOMAIN db.groups
    BY <1>0, <2>2, <2>3
  <2>. HIDE DEF s
  <2>. QED
    BY <2>1, <2>3, <2>4, GoodSpaces
<1>2. ASSUME NEW row \in SpaceRows, row.groups \subseteq DOMAIN db.groups, w \in DOMAIN db.spaces,
             Only("spaces", [db.spaces EXCEPT ![w] = row])
      PROVE  Good(db')
  <2>. DEFINE s == [db.spaces EXCEPT ![w] = row]
  <2>1. /\ IsTable(s, Spaces, SpaceRows) /\ DOMAIN s = DOMAIN db.spaces
        /\ s[w] = row /\ \A v \in DOMAIN db.spaces : v # w => s[v] = db.spaces[v]
    BY <1>0, <1>2, TableExcept
  <2>2. \A v \in DOMAIN s : s[v].groups \subseteq DOMAIN db.groups
    BY <1>0, <1>2, <2>1
  <2>. HIDE DEF s
  <2>3. Only("spaces", s)
    BY <1>2 DEF s
  <2>. QED
    BY <2>1, <2>2, <2>3, GoodSpaces
<1>3. ASSUME NEW status \in {"active", "suspended"}, SetStatus(a, w, status) PROVE Good(db')
  <2>1. w \in DOMAIN db.spaces /\ Only("spaces", [db.spaces EXCEPT ![w] = [@ EXCEPT !.status = status]])
    BY <1>0, <1>3, StatusSet DEF SetStatus
  <2>2. [db.spaces[w] EXCEPT !.status = status] \in SpaceRows
    BY <1>0, <2>1 DEF IsTable, SpaceRows
  <2>3. [db.spaces[w] EXCEPT !.status = status].groups \subseteq DOMAIN db.groups
    BY <1>0, <2>1 DEF IsTable, SpaceRows
  <2>. QED
    BY <1>2, <2>1, <2>2, <2>3
<1>4. ASSUME NEW l \in Lists, NEW G \in {l.groups, None}, NEW D \in {l, None},
             SetSpaceModels(a, w, l.models, G, D)
      PROVE  Good(db')
  <2>. DEFINE groups == IF G = None THEN db.spaces[w].groups ELSE G
              defaults == IF D = None THEN db.spaces[w].defaults ELSE D
              row == [db.spaces[w] EXCEPT !.models = l.models, !.groups = groups,
                                          !.defaults = defaults]
  <2>1. w \in DOMAIN db.spaces /\ Only("spaces", [db.spaces EXCEPT ![w] = row])
    BY <1>0, <1>4, ModelsSet DEF SetSpaceModels
  <2>2. groups \subseteq DOMAIN db.groups
    BY <1>0, <1>4, <2>1 DEF SetSpaceModels
  <2>3. defaults \in Limits /\ l.models \in SUBSET Models
    BY <1>0, <1>4, <2>1 DEF AccessAssumption, IsTable, SpaceRows, Limits
  <2>. HIDE DEF groups, defaults
  <2>4. row \in SpaceRows /\ row.groups = groups
    BY <1>0, <2>1, <2>2, <2>3 DEF IsTable, SpaceRows
  <2>. QED
    BY <1>2, <2>1, <2>2, <2>4
<1>. QED
  BY <1>1, <1>3, <1>4

\* Enrolling and taking out.
LEMMA MembersKept ==
    ASSUME Good(db), NEW a, NEW w \in Spaces,
           \/ \E U \in {Users} \cup {{u} : u \in Users} : AddMembers(a, w, U)
           \/ \E u \in Users : Leave(a, w, u)
    PROVE  Good(db')
<1>0. /\ Typed(db) /\ db.members \in SUBSET (Users \X Spaces)
      /\ \A x \in db.members : x[2] \in DOMAIN db.spaces
  BY DEF Good, Typed, ForeignKeys
<1>1. ASSUME NEW U \in SUBSET Users, AddMembers(a, w, U) PROVE Good(db')
  <2>. DEFINE added == {u \in U : ~IsMember(db, u, w)}
              m == db.members \cup (added \X {w})
  <2>1. Only("members", m) /\ w \in DOMAIN db.spaces
    BY <1>0, <1>1, MembersAdded DEF AddMembers
  <2>2. added \subseteq Users
    OBVIOUS
  <2>. HIDE DEF added
  <2>3. m \in SUBSET (Users \X Spaces) /\ \A x \in m : x[2] \in DOMAIN db.spaces
    BY <1>0, <2>1, <2>2
  <2>. HIDE DEF m
  <2>. QED
    BY <2>1, <2>3, GoodMembers
<1>2. ASSUME NEW u \in Users, Leave(a, w, u) PROVE Good(db')
  <2>1. Only("members", db.members \ {<<u, w>>})
    BY <1>0, <1>2, MemberLeft
  <2>. QED
    BY <1>0, <2>1, GoodMembers
<1>. QED
  BY <1>1, <1>2

(***************************************************************************)
(* Every request on keys leaves the database good.                         *)
(***************************************************************************)
LEMMA NextKeyIsNew ==
    ASSUME RoomForRow
    PROVE  NextKey \in Keys /\ NextKey \notin DOMAIN db.keys
BY DEF RoomForRow, NextKey

\* What a workspace writes on a key that names no list.
LEMMA DefaultsAreTyped ==
    ASSUME Typed(db), NEW u, NEW w
    PROVE  Defaults(u, w) \in Limits
<1>. DEFINE home == Home(u, w) \cap DOMAIN db.spaces
<1>1. CASE home = {}
  BY <1>1 DEF Defaults, Nothing, Limits
<1>2. CASE home # {}
  <2>1. (CHOOSE h \in home : TRUE) \in DOMAIN db.spaces
    BY <1>2
  <2>2. Defaults(u, w) = db.spaces[CHOOSE h \in home : TRUE].defaults
    BY <1>2 DEF Defaults
  <2>3. \A h \in DOMAIN db.spaces : db.spaces[h].defaults \in Limits
    BY RowsAreTyped DEF SpaceRows
  <2>. QED
    BY <2>1, <2>2, <2>3
<1>. QED
  BY <1>1, <1>2

\* A key added under an unused id.
LEMMA KeyAdded ==
    ASSUME Good(db), NEW k \in Keys \ DOMAIN db.keys, NEW row \in KeyRows,
           Only("keys", With(db.keys, k, row)),
           row.space \in DOMAIN db.spaces \cup {None},
           ~row.filled => row.groups \subseteq DOMAIN db.groups
    PROVE  Good(db')
<1>. DEFINE t == With(db.keys, k, row)
<1>0. IsTable(db.keys, Keys, KeyRows)
  BY DEF Good, Typed
<1>1. /\ IsTable(t, Keys, KeyRows) /\ DOMAIN t = DOMAIN db.keys \cup {k}
      /\ t[k] = row /\ \A x \in DOMAIN db.keys : x # k => t[x] = db.keys[x]
  BY <1>0 DEF IsTable, With
<1>. HIDE DEF t
<1>2. Only("keys", t)
  BY DEF t
<1>3. \A i \in DOMAIN t : /\ t[i].space \in DOMAIN db.spaces \cup {None}
                          /\ ~t[i].revoked /\ ~t[i].filled => t[i].groups \subseteq DOMAIN db.groups
  BY <1>1 DEF Good, ForeignKeys, BundlesExist
<1>. QED
  BY <1>1, <1>2, <1>3, GoodKeys

\* What happens to a key later changes neither its workspace nor its bundles, and a key
\* that was revoked stays so.
LEMMA KeyChanged ==
    ASSUME Good(db), NEW i \in DOMAIN db.keys, NEW row \in KeyRows,
           Only("keys", [db.keys EXCEPT ![i] = row]),
           row.space = db.keys[i].space, row.groups = db.keys[i].groups,
           row.filled = db.keys[i].filled, db.keys[i].revoked => row.revoked
    PROVE  Good(db')
<1>. DEFINE t == [db.keys EXCEPT ![i] = row]
<1>0. IsTable(db.keys, Keys, KeyRows)
  BY DEF Good, Typed
<1>1. /\ IsTable(t, Keys, KeyRows) /\ DOMAIN t = DOMAIN db.keys
      /\ t[i] = row /\ \A x \in DOMAIN db.keys : x # i => t[x] = db.keys[x]
  BY <1>0, TableExcept
<1>. HIDE DEF t
<1>2. Only("keys", t)
  BY DEF t
<1>3. \A x \in DOMAIN t : /\ t[x].space \in DOMAIN db.spaces \cup {None}
                          /\ ~t[x].revoked /\ ~t[x].filled => t[x].groups \subseteq DOMAIN db.groups
  BY <1>1 DEF Good, ForeignKeys, BundlesExist
<1>. QED
  BY <1>1, <1>2, <1>3, GoodKeys

\* A key whose row keeps its workspace and its bundles.
LEMMA KeyRowExcept ==
    ASSUME NEW r \in KeyRows
    PROVE  /\ \A b \in BOOLEAN :
                LET n == [r EXCEPT !.lapsed = b] IN
                /\ n \in KeyRows /\ n.space = r.space /\ n.groups = r.groups
                /\ n.filled = r.filled /\ n.revoked = r.revoked
           /\ LET n == [r EXCEPT !.revoked = TRUE] IN
              /\ n \in KeyRows /\ n.space = r.space /\ n.groups = r.groups
              /\ n.filled = r.filled /\ n.revoked
           /\ \A M \in SUBSET Models :
                LET n == [r EXCEPT !.models = M] IN
                /\ n \in KeyRows /\ n.space = r.space /\ n.groups = r.groups
                /\ n.filled = r.filled /\ n.revoked = r.revoked
BY DEF KeyRows

\* Issuing, amending, extending and revoking.
LEMMA KeysKept ==
    ASSUME Good(db), AccessAssumption, NEW a \in Actors,
           \/ \E i \in Keys : \/ ExtendKey(a, i) \/ RevokeKey(a, i) \/ RevokeMine(a, i)
                              \/ \E l \in Lists : AmendKey(a, i, l.models)
           \/ IssueMine(a)
           \/ \E u \in Users, w \in {None} \cup Spaces :
                 IssueKey(a, u, w, None, None) \/ \E l \in Lists : IssueKey(a, u, w, l.models, l.groups)
    PROVE  Good(db')
<1>0. /\ Typed(db)
      /\ \A i \in DOMAIN db.keys : i \in Keys /\ db.keys[i] \in KeyRows
  BY RowsAreTyped DEF Good
<1>1. ASSUME NEW i \in Keys, ExtendKey(a, i) PROVE Good(db')
  <2>. DEFINE row == [db.keys[i] EXCEPT !.lapsed = FALSE]
  <2>1. i \in DOMAIN db.keys /\ Only("keys", [db.keys EXCEPT ![i] = row])
    BY <1>0, <1>1, KeyExtended DEF ExtendKey
  <2>2. /\ row \in KeyRows /\ row.space = db.keys[i].space /\ row.groups = db.keys[i].groups
        /\ row.filled = db.keys[i].filled /\ row.revoked = db.keys[i].revoked
    BY <1>0, <2>1, KeyRowExcept
  <2>. QED
    BY <2>1, <2>2, KeyChanged
<1>2. ASSUME NEW i \in Keys, RevokeKey(a, i) \/ RevokeMine(a, i) PROVE Good(db')
  <2>. DEFINE row == [db.keys[i] EXCEPT !.revoked = TRUE]
  <2>1. i \in DOMAIN db.keys /\ Only("keys", [db.keys EXCEPT ![i] = row])
    BY <1>0, <1>2, KeyRevoked DEF RevokeKey, RevokeMine
  <2>2. /\ row \in KeyRows /\ row.space = db.keys[i].space /\ row.groups = db.keys[i].groups
        /\ row.filled = db.keys[i].filled /\ row.revoked
    BY <1>0, <2>1, KeyRowExcept
  <2>. QED
    BY <2>1, <2>2, KeyChanged
<1>3. ASSUME NEW i \in Keys, NEW l \in Lists, AmendKey(a, i, l.models) PROVE Good(db')
  <2>. DEFINE row == [db.keys[i] EXCEPT !.models = l.models]
  <2>1. i \in DOMAIN db.keys /\ Only("keys", [db.keys EXCEPT ![i] = row])
    BY <1>0, <1>3, KeyAmended DEF AmendKey
  <2>2. l.models \in SUBSET Models
    BY DEF AccessAssumption, Limits
  <2>3. /\ row \in KeyRows /\ row.space = db.keys[i].space /\ row.groups = db.keys[i].groups
        /\ row.filled = db.keys[i].filled /\ row.revoked = db.keys[i].revoked
    BY <1>0, <2>1, <2>2, KeyRowExcept
  <2>. QED
    BY <2>1, <2>3, KeyChanged
<1>4. ASSUME IssueMine(a) PROVE Good(db')
  <2>. DEFINE row == Key(a.user, None, {}, {})
  <2>1. RoomForRow /\ Only("keys", With(db.keys, NextKey, row))
    BY <1>0, <1>4, MineIssued DEF IssueMine
  <2>2. row \in KeyRows /\ row.space = None /\ row.groups = {}
    BY DEF Key, KeyRows, AccessAssumption
  <2>. QED
    BY <2>1, <2>2, NextKeyIsNew, KeyAdded
<1>5. ASSUME NEW u \in Users, NEW w \in {None} \cup Spaces, NEW M, NEW G,
             IssueKey(a, u, w, M, G),
             M # None => M \subseteq Models
      PROVE  Good(db')
  <2>. DEFINE models == IF M = None THEN Defaults(u, w).models ELSE M
              groups == IF G = None THEN Defaults(u, w).groups ELSE G
              filled == G = None
              row == [Key(u, w, models, groups) EXCEPT !.filled = filled]
  <2>1. RoomForRow /\ Only("keys", With(db.keys, NextKey, row))
    BY <1>0, <1>5, KeyIssued DEF IssueKey
  <2>2. w \in DOMAIN db.spaces \cup {None}
    BY <1>5 DEF IssueKey
  <2>3. models \in SUBSET Models
    BY <1>0, <1>5, DefaultsAreTyped DEF Limits
  <2>4. groups \in SUBSET Groups /\ (~filled => groups \subseteq DOMAIN db.groups)
    <3>1. CASE filled
      BY <1>0, <3>1, DefaultsAreTyped DEF Limits
    <3>2. CASE ~filled
      BY <1>0, <1>5, <3>2, RowsAreTyped DEF IssueKey
    <3>. QED
      BY <3>1, <3>2
  <2>5. filled \in BOOLEAN
    OBVIOUS
  <2>. HIDE DEF models, groups, filled
  <2>6. row \in KeyRows /\ row.space = w /\ row.groups = groups /\ row.filled = filled
    BY <2>3, <2>4, <2>5 DEF Key, KeyRows
  <2>. QED
    BY <2>1, <2>2, <2>4, <2>6, NextKeyIsNew, KeyAdded
<1>6. \A l \in Lists : l.models \subseteq Models
  BY DEF AccessAssumption, Limits
<1>. QED
  BY <1>1, <1>2, <1>3, <1>4, <1>5, <1>6

(***************************************************************************)
(* Policies.                                                               *)
(***************************************************************************)
LEMMA PoliciesKept ==
    ASSUME Good(db), AccessAssumption, NEW a, NEW i \in PolicyIds,
           \/ DeletePolicy(a, i)
           \/ UpdatePolicy(a, i, "live", TRUE)
           \/ \E v \in Windows : \/ UpdatePolicy(a, i, "window", v)
                                 \/ \E t \in Targets : CreatePolicy(a, i, t, v)
    PROVE  Good(db')
<1>0. /\ Typed(db) /\ IsTable(db.policies, PolicyIds, PolicyRows) /\ Distinct(db.policies)
      /\ \A p \in DOMAIN db.policies :
            /\ db.policies[p] \in PolicyRows
            /\ db.policies[p].scope = "workspace" => db.policies[p].at \in DOMAIN db.spaces
            /\ db.policies[p].scope = "key" => db.policies[p].at \in DOMAIN db.keys
            /\ db.policies[p].group \in DOMAIN db.groups \cup {None}
  BY NoneHiddenIsDistinct, RowsAreTyped DEF Good, Typed, ForeignKeys
<1>1. ASSUME DeletePolicy(a, i) PROVE Good(db')
  <2>. DEFINE t == Without(db.policies, {i})
  <2>1. Only("policies", t)
    BY <1>0, <1>1, PolicyDeleted
  <2>2. /\ IsTable(t, PolicyIds, PolicyRows) /\ DOMAIN t = DOMAIN db.policies \ {i}
        /\ \A p \in DOMAIN db.policies \ {i} : t[p] = db.policies[p]
    BY <1>0 DEF IsTable, Without
  <2>. HIDE DEF t
  <2>3. Distinct(t)
    BY <1>0, <2>2 DEF Distinct
  <2>. QED
    BY <1>0, <2>1, <2>2, <2>3, GoodPolicies
<1>2. ASSUME NEW row \in PolicyRows, i \in DOMAIN db.policies,
             Only("policies", [db.policies EXCEPT ![i] = row]),
             row.scope = db.policies[i].scope, row.at = db.policies[i].at,
             row.group = db.policies[i].group, ~Duplicate(db, i, row)
      PROVE  Good(db')
  <2>. DEFINE t == [db.policies EXCEPT ![i] = row]
  <2>1. /\ IsTable(t, PolicyIds, PolicyRows) /\ DOMAIN t = DOMAIN db.policies
        /\ t[i] = row /\ \A p \in DOMAIN db.policies : p # i => t[p] = db.policies[p]
    BY <1>0, <1>2, TableExcept
  <2>. HIDE DEF t
  <2>2. Only("policies", t)
    BY <1>2 DEF t
  <2>3. Distinct(t)
    BY <1>0, <1>2, <2>1 DEF Distinct, Duplicate
  <2>. QED
    BY <1>0, <1>2, <2>1, <2>2, <2>3, GoodPolicies
<1>3. ASSUME NEW col \in {"live", "window"}, NEW value, UpdatePolicy(a, i, col, value),
             col = "live" => value = TRUE, col = "window" => value \in Windows
      PROVE  Good(db')
  <2>. DEFINE row == [db.policies[i] EXCEPT ![col] = value]
  <2>1. /\ i \in DOMAIN db.policies /\ Only("policies", [db.policies EXCEPT ![i] = row])
        /\ ~Duplicate(db, i, row)
    BY <1>0, <1>3, PolicyUpdated DEF UpdatePolicy, ComparedPolicy
  <2>2. /\ row \in PolicyRows /\ row.scope = db.policies[i].scope /\ row.at = db.policies[i].at
        /\ row.group = db.policies[i].group
    BY <1>0, <1>3, <2>1 DEF PolicyRows
  <2>. QED
    BY <1>2, <2>1, <2>2
<1>4. ASSUME NEW v \in Windows, NEW g \in Targets, CreatePolicy(a, i, g, v) PROVE Good(db')
  <2>. DEFINE row == Policy(g[1], g[2], g[3], v)
              t == With(db.policies, i, row)
  <2>1. /\ Only("policies", t) /\ i \notin DOMAIN db.policies
        /\ Exists(g) /\ ~Duplicate(db, i, row)
    BY <1>0, <1>4, PolicyCreated DEF CreatePolicy
  <2>2. /\ g[1] \in {"global", "workspace", "key"} /\ g[2] \in Spaces \cup Keys \cup {None}
        /\ g[3] \in Groups \cup {None}
    BY DEF Targets
  <2>3. row \in PolicyRows /\ row.scope = g[1] /\ row.at = g[2] /\ row.group = g[3]
    BY <2>2 DEF Policy, PolicyRows
  <2>. HIDE DEF row
  <2>4. /\ IsTable(t, PolicyIds, PolicyRows) /\ DOMAIN t = DOMAIN db.policies \cup {i}
        /\ t[i] = row /\ \A p \in DOMAIN db.policies : p # i => t[p] = db.policies[p]
    BY <1>0, <2>3 DEF IsTable, With
  <2>. HIDE DEF t
  <2>5. Distinct(t)
    BY <1>0, <2>1, <2>4 DEF Distinct, Duplicate
  <2>6. \A p \in DOMAIN t : /\ t[p].scope = "workspace" => t[p].at \in DOMAIN db.spaces
                            /\ t[p].scope = "key" => t[p].at \in DOMAIN db.keys
                            /\ t[p].group \in DOMAIN db.groups \cup {None}
    BY <1>0, <2>1, <2>3, <2>4 DEF Exists
  <2>. QED
    BY <2>1, <2>4, <2>5, <2>6, GoodPolicies
<1>. QED
  BY <1>1, <1>3, <1>4

(***************************************************************************)
(* What runs out, and the two requests that write several tables.          *)
(***************************************************************************)
LEMMA LapseKeeps ==
    ASSUME Good(db), Lapse
    PROVE  Good(db')
<1>0. /\ Typed(db) /\ IsTable(db.policies, PolicyIds, PolicyRows) /\ Distinct(db.policies)
      /\ \A i \in DOMAIN db.keys : db.keys[i] \in KeyRows
      /\ \A p \in DOMAIN db.policies :
            /\ db.policies[p] \in PolicyRows
            /\ db.policies[p].scope = "workspace" => db.policies[p].at \in DOMAIN db.spaces
            /\ db.policies[p].scope = "key" => db.policies[p].at \in DOMAIN db.keys
            /\ db.policies[p].group \in DOMAIN db.groups \cup {None}
  BY NoneHiddenIsDistinct, RowsAreTyped DEF Good, Typed, ForeignKeys
<1>1. ASSUME NEW i \in DOMAIN db.keys, Only("keys", [db.keys EXCEPT ![i] = [@ EXCEPT !.lapsed = TRUE]])
      PROVE  Good(db')
  <2>. DEFINE row == [db.keys[i] EXCEPT !.lapsed = TRUE]
  <2>1. /\ row \in KeyRows /\ row.space = db.keys[i].space /\ row.groups = db.keys[i].groups
        /\ row.filled = db.keys[i].filled /\ row.revoked = db.keys[i].revoked
    BY <1>0, KeyRowExcept
  <2>2. Only("keys", [db.keys EXCEPT ![i] = row])
    BY <1>1
  <2>. HIDE DEF row
  <2>. QED
    BY <2>1, <2>2, KeyChanged
<1>2. ASSUME NEW p \in DOMAIN db.policies,
             Only("policies", [db.policies EXCEPT ![p] = [@ EXCEPT !.live = FALSE]])
      PROVE  Good(db')
  <2>. DEFINE row == [db.policies[p] EXCEPT !.live = FALSE]
              t == [db.policies EXCEPT ![p] = row]
  <2>1. Only("policies", t)
    BY <1>2
  <2>2. /\ row \in PolicyRows /\ ~row.live /\ row.scope = db.policies[p].scope
        /\ row.at = db.policies[p].at /\ row.group = db.policies[p].group
    BY <1>0 DEF PolicyRows
  <2>. HIDE DEF row
  <2>3. /\ IsTable(t, PolicyIds, PolicyRows) /\ DOMAIN t = DOMAIN db.policies
        /\ t[p] = row /\ \A o \in DOMAIN db.policies : o # p => t[o] = db.policies[o]
    BY <1>0, <2>2 DEF IsTable
  <2>. HIDE DEF t
  <2>4. Distinct(t)
    BY <1>0, <2>2, <2>3 DEF Distinct
  <2>. QED
    BY <1>0, <2>1, <2>2, <2>3, <2>4, GoodPolicies
<1>. QED
  BY <1>0, <1>1, <1>2, RunsOut

\* Purged keys take their ceilings with them.
LEMMA PurgeKeeps ==
    ASSUME Good(db), NEW a, NEW I \in SUBSET Keys, PurgeKeys(a, I)
    PROVE  Good(db')
<1>. DEFINE keys == Without(db.keys, I)
            policies == Without(db.policies, PoliciesOf(db, "key", I))
<1>0. /\ Typed(db) /\ IsTable(db.keys, Keys, KeyRows)
      /\ IsTable(db.policies, PolicyIds, PolicyRows) /\ Distinct(db.policies)
  BY NoneHiddenIsDistinct DEF Good, Typed
<1>1. /\ db' = [members |-> db.members, spaces |-> db.spaces, groups |-> db.groups,
                keys |-> keys, policies |-> policies]
  BY <1>0 DEF Typed, PurgeKeys, Write, Answered
<1>2. /\ IsTable(keys, Keys, KeyRows) /\ DOMAIN keys = DOMAIN db.keys \ I
      /\ \A i \in DOMAIN keys : keys[i] = db.keys[i]
  BY <1>0 DEF IsTable, Without
<1>3. /\ IsTable(policies, PolicyIds, PolicyRows)
      /\ DOMAIN policies = DOMAIN db.policies \ PoliciesOf(db, "key", I)
      /\ \A p \in DOMAIN policies : policies[p] = db.policies[p]
  BY <1>0 DEF IsTable, Without
<1>. HIDE DEF keys, policies
<1>4. Typed(db')
  BY <1>1, <1>2, <1>3 DEF Good, Typed
<1>5. ForeignKeys(db')
  BY <1>1, <1>2, <1>3 DEF Good, ForeignKeys, PoliciesOf
<1>6. BundlesExist(db')
  BY <1>1, <1>2 DEF Good, BundlesExist
<1>7. Distinct(policies)
  BY <1>0, <1>3 DEF Distinct
<1>8. NoneHidden(db')
  BY <1>1, <1>7, NoneHiddenIsDistinct
<1>. QED
  BY <1>4, <1>5, <1>6, <1>8 DEF Good

\* A deleted workspace takes its policies with it, and its revoked keys are unbound first.
LEMMA DeleteSpaceKeeps ==
    ASSUME Good(db), NEW a, NEW w \in Spaces, DeleteSpace(a, w)
    PROVE  Good(db')
<1>. DEFINE keys == [i \in DOMAIN db.keys |-> IF db.keys[i].space = w /\ db.keys[i].revoked
                                              THEN [db.keys[i] EXCEPT !.space = None] ELSE db.keys[i]]
            policies == Without(db.policies, PoliciesOf(db, "workspace", {w}))
            spaces == Without(db.spaces, {w})
<1>0. /\ Typed(db) /\ IsTable(db.keys, Keys, KeyRows) /\ IsTable(db.spaces, Spaces, SpaceRows)
      /\ IsTable(db.policies, PolicyIds, PolicyRows) /\ Distinct(db.policies)
  BY NoneHiddenIsDistinct DEF Good, Typed
<1>1. /\ db' = [members |-> db.members, spaces |-> spaces, groups |-> db.groups,
                keys |-> keys, policies |-> policies]
  BY <1>0 DEF Typed, DeleteSpace, Write, Answered
<1>2. /\ \A u \in Users : <<u, w>> \notin db.members
      /\ \A k \in DOMAIN db.keys : db.keys[k].space = w => db.keys[k].revoked
  BY DEF DeleteSpace, IsMember
<1>3. /\ IsTable(spaces, Spaces, SpaceRows) /\ DOMAIN spaces = DOMAIN db.spaces \ {w}
      /\ \A v \in DOMAIN spaces : spaces[v] = db.spaces[v]
  BY <1>0 DEF IsTable, Without
<1>4. /\ IsTable(policies, PolicyIds, PolicyRows)
      /\ DOMAIN policies = DOMAIN db.policies \ PoliciesOf(db, "workspace", {w})
      /\ \A p \in DOMAIN policies : policies[p] = db.policies[p]
  BY <1>0 DEF IsTable, Without
<1>5. \A r \in KeyRows : LET n == [r EXCEPT !.space = None] IN
         n \in KeyRows /\ n.space = None /\ n.groups = r.groups /\ n.revoked = r.revoked
         /\ n.filled = r.filled
  BY DEF KeyRows
<1>6. /\ DOMAIN keys = DOMAIN db.keys
      /\ \A i \in DOMAIN keys : /\ keys[i] \in KeyRows /\ keys[i].groups = db.keys[i].groups
                                /\ keys[i].revoked = db.keys[i].revoked
                                /\ keys[i].filled = db.keys[i].filled
                                /\ keys[i].space = IF db.keys[i].space = w THEN None ELSE db.keys[i].space
  BY <1>0, <1>2, <1>5 DEF IsTable
<1>7. IsTable(keys, Keys, KeyRows)
  BY <1>0, <1>6 DEF IsTable
<1>. HIDE DEF keys, policies, spaces
<1>8. Typed(db')
  BY <1>1, <1>3, <1>4, <1>7 DEF Good, Typed
<1>9. ForeignKeys(db')
  <2>1. \A m \in db.members : m[2] \in DOMAIN db.spaces /\ m[2] # w
    BY <1>2 DEF Good, Typed, ForeignKeys
  <2>2. \A v \in DOMAIN spaces : spaces[v].groups \subseteq DOMAIN db.groups
    BY <1>3 DEF Good, ForeignKeys
  <2>3. \A k \in DOMAIN keys : keys[k].space \in DOMAIN spaces \cup {None}
    BY <1>3, <1>6 DEF Good, ForeignKeys
  <2>4. \A p \in DOMAIN policies :
          /\ policies[p].scope = "workspace" => policies[p].at \in DOMAIN spaces
          /\ policies[p].scope = "key" => policies[p].at \in DOMAIN keys
          /\ policies[p].group \in DOMAIN db.groups \cup {None}
    BY <1>3, <1>4, <1>6 DEF Good, ForeignKeys, PoliciesOf
  <2>. QED
    BY <1>1, <1>3, <2>1, <2>2, <2>3, <2>4 DEF ForeignKeys
<1>10. BundlesExist(db')
  BY <1>1, <1>6 DEF Good, BundlesExist
<1>11. Distinct(policies)
  BY <1>0, <1>4 DEF Distinct
<1>12. NoneHidden(db')
  BY <1>1, <1>11, NoneHiddenIsDistinct
<1>. QED
  BY <1>8, <1>9, <1>10, <1>12 DEF Good

(***************************************************************************)
(* RowsConsistent: nothing refers to a row that has gone, and no policy in *)
(* force hides another, after any sequence of requests.                    *)
(***************************************************************************)
LEMMA GoodIsKept ==
    ASSUME AccessAssumption, Good(db), Next
    PROVE  Good(db')
<1>1. ASSUME NEW a \in Actors, Administer(a) PROVE Good(db')
  <2>. USE <1>1
  <2>1. ASSUME NEW w \in Spaces,
               \/ CreateSpace(a, w) \/ DeleteSpace(a, w)
               \/ \E status \in {"active", "suspended"} : SetStatus(a, w, status)
               \/ \E U \in {Users} \cup {{u} : u \in Users} : AddMembers(a, w, U)
               \/ \E u \in Users : Leave(a, w, u)
               \/ \E l \in Lists : \E G \in {l.groups, None}, D \in {l, None} :
                     SetSpaceModels(a, w, l.models, G, D)
        PROVE  Good(db')
    BY <2>1, SpacesKept, MembersKept, DeleteSpaceKeeps
  <2>. QED
    BY <1>1, <2>1, GroupsKept, PoliciesKept DEF Administer
<1>2. ASSUME NEW a \in Actors, ManageKeys(a) PROVE Good(db')
  BY <1>2, KeysKept, PurgeKeeps DEF ManageKeys
<1>. QED
  BY <1>1, <1>2, LapseKeeps DEF Next

\* Every request counts against the bound, and none writes gateway.yaml.
Counted == changes < MaxChanges /\ changes' = changes + 1 /\ grants' = grants

\* Every step counts one change and leaves the configuration alone.
LEMMA TypesAreKept == TypeOK /\ Next => grants' \in Grants /\ changes' \in 0..MaxChanges
<1>. USE DEF Counted, MayAsk, Write, Answered
<1>1. ASSUME NEW a, Administer(a) PROVE Counted
  <2>1. ASSUME NEW w, NEW x, \/ CreateSpace(a, w) \/ DeleteSpace(a, w) \/ SetStatus(a, w, x)
                             \/ AddMembers(a, w, x) \/ Leave(a, w, x)
        PROVE  Counted
    BY <2>1 DEF CreateSpace, DeleteSpace, SetStatus, AddMembers, Leave
  <2>2. ASSUME NEW w, NEW M, NEW G, NEW D, SetSpaceModels(a, w, M, G, D) PROVE Counted
    BY <2>2 DEF SetSpaceModels
  <2>3. ASSUME NEW g, NEW x, NEW y, \/ DeleteGroup(a, g) \/ CreateGroup(a, g, x)
                                    \/ UpdateGroup(a, g, x, y)
        PROVE  Counted
    BY <2>3 DEF DeleteGroup, CreateGroup, UpdateGroup
  <2>4. ASSUME NEW i, NEW x, NEW y, \/ DeletePolicy(a, i) \/ UpdatePolicy(a, i, x, y)
                                    \/ CreatePolicy(a, i, x, y)
        PROVE  Counted
    BY <2>4 DEF DeletePolicy, UpdatePolicy, CreatePolicy
  <2>. HIDE DEF Counted
  <2>. QED
    BY <1>1, <2>1, <2>2, <2>3, <2>4 DEF Administer
<1>2. ASSUME NEW a, ManageKeys(a) PROVE Counted
  <2>1. ASSUME NEW i, NEW M, \/ ExtendKey(a, i) \/ RevokeKey(a, i) \/ RevokeMine(a, i)
                             \/ AmendKey(a, i, M) \/ PurgeKeys(a, i) \/ IssueMine(a)
        PROVE  Counted
    BY <2>1 DEF ExtendKey, RevokeKey, RevokeMine, AmendKey, PurgeKeys, IssueMine
  <2>2. ASSUME NEW u, NEW w, NEW M, NEW G, IssueKey(a, u, w, M, G) PROVE Counted
    BY <2>2 DEF IssueKey
  <2>. HIDE DEF Counted
  <2>. QED
    BY <1>2, <2>1, <2>2 DEF ManageKeys
<1>3. Lapse => Counted
  BY DEF Lapse
<1>4. Next => Counted
  <2>. HIDE DEF Counted
  <2>. QED
    BY <1>1, <1>2, <1>3 DEF Next
<1>. QED
  BY <1>4, AccessAssumption DEF TypeOK, AccessAssumption

\* In every state what a row refers to exists, and of two policies in force none hides the
\* other: the foreign keys, HeldGroup, the cascades of delete_workspace and purge_api_key, and
\* _refuse_duplicate_policy see to it together.
THEOREM RowsStayConsistent == Spec => []RowsConsistent
<1>1. RowsConsistent <=> grants \in Grants /\ changes \in 0..MaxChanges /\ Good(db)
  BY DEF RowsConsistent, TypeOK, ReferencesKept, OneLivePolicy, Good
<1>2. Init => RowsConsistent
  BY <1>1, AccessAssumption DEF Init, AccessAssumption, Good
<1>3. RowsConsistent /\ [Next]_vars => RowsConsistent'
  <2>. SUFFICES ASSUME RowsConsistent, [Next]_vars PROVE RowsConsistent'
    OBVIOUS
  <2>1. CASE Next
    <3>1. Good(db') /\ grants' \in Grants /\ changes' \in 0..MaxChanges
      BY <1>1, <2>1, GoodIsKept, TypesAreKept, AccessAssumption DEF RowsConsistent
    <3>. QED
      BY <3>1 DEF RowsConsistent, TypeOK, ReferencesKept, OneLivePolicy, Good
  <2>2. CASE UNCHANGED vars
    BY <2>2 DEF vars, RowsConsistent, TypeOK, ReferencesKept, OneLivePolicy
  <2>. QED
    BY <2>1, <2>2
<1>. QED
  BY <1>2, <1>3, PTL DEF Spec

(***************************************************************************)
(* Who did what: the mark that a request leaves, and that all but a few    *)
(* requests are an administrator's.                                        *)
(***************************************************************************)
Watched == {"leave", "amend_api_key", "set_workspace_models"}

\* These requests are signed, and only an administrator makes them.
LEMMA OfAdministrators ==
    ASSUME NEW a, NEW x, NEW y, NEW z,
           \/ CreateSpace(a, x) \/ DeleteSpace(a, x)
           \/ CreateGroup(a, x, y) \/ UpdateGroup(a, x, y, z) \/ DeleteGroup(a, x)
           \/ CreatePolicy(a, x, y, z) \/ UpdatePolicy(a, x, y, z) \/ DeletePolicy(a, x)
           \/ PurgeKeys(a, x)
    PROVE  IsAdmin(a) /\ last'.actor = a /\ last'.doing \notin Watched
<1>. DEFINE Done == IsAdmin(a) /\ last'.actor = a /\ last'.doing \notin Watched
<1>1. CreateSpace(a, x) \/ DeleteSpace(a, x) => Done
  BY DEF CreateSpace, DeleteSpace, Write, Answered, Watched
<1>2. CreateGroup(a, x, y) \/ UpdateGroup(a, x, y, z) \/ DeleteGroup(a, x) => Done
  <2>1. CreateGroup(a, x, y) => Done
    BY DEF CreateGroup, Write, Answered, Watched
  <2>2. UpdateGroup(a, x, y, z) => Done
    BY DEF UpdateGroup, Write, Answered, Watched
  <2>3. DeleteGroup(a, x) => Done
    BY DEF DeleteGroup, Write, Answered, Watched
  <2>. QED
    BY <2>1, <2>2, <2>3
<1>3. CreatePolicy(a, x, y, z) \/ UpdatePolicy(a, x, y, z) \/ DeletePolicy(a, x) => Done
  BY DEF CreatePolicy, UpdatePolicy, DeletePolicy, Write, Answered, Watched
<1>4. PurgeKeys(a, x) => Done
  BY DEF PurgeKeys, Write, Answered, Watched
<1>. QED
  BY <1>1, <1>2, <1>3, <1>4

\* These are signed; a manager may make them, or anybody about their own keys.
LEMMA OfOthers ==
    ASSUME NEW a, NEW x, NEW y, NEW z, NEW b,
           \/ AddMembers(a, x, y) \/ SetStatus(a, x, y) \/ IssueKey(a, x, y, z, b)
           \/ ExtendKey(a, x) \/ RevokeKey(a, x) \/ RevokeMine(a, x) \/ IssueMine(a)
    PROVE  last'.actor = a /\ last'.doing \notin Watched
<1>. DEFINE Done == last'.actor = a /\ last'.doing \notin Watched
<1>1. AddMembers(a, x, y) \/ SetStatus(a, x, y) => Done
  BY DEF AddMembers, SetStatus, Write, Answered, Watched
<1>2. IssueKey(a, x, y, z, b) \/ IssueMine(a) => Done
  <2>1. IssueKey(a, x, y, z, b) => Done
    BY DEF IssueKey, Write, Answered, Watched
  <2>2. IssueMine(a) => Done
    BY DEF IssueMine, Write, Answered, Watched
  <2>. QED
    BY <2>1, <2>2
<1>3. ExtendKey(a, x) \/ RevokeKey(a, x) \/ RevokeMine(a, x) => Done
  BY DEF ExtendKey, RevokeKey, RevokeMine, Write, Answered, Watched
<1>. QED
  BY <1>1, <1>2, <1>3

\* The three requests whose name a property asks for.
LEMMA OfWatched ==
    ASSUME NEW a, NEW x, NEW y, NEW z, NEW b
    PROVE  /\ Leave(a, x, y) => last'.actor = a /\ last'.doing = "leave"
           /\ AmendKey(a, x, y) => last'.actor = a /\ last'.doing = "amend_api_key"
           /\ SetSpaceModels(a, x, y, z, b) => last'.actor = a /\ last'.doing = "set_workspace_models"
BY DEF Leave, AmendKey, SetSpaceModels, Write, Answered

\* Who made a step and which request it was, as the properties read them off `last`.
LEMMA StepsAreSigned ==
    ASSUME Next
    PROVE  \/ Lapse /\ last'.actor = None /\ last'.doing \notin Watched
           \/ \E a \in Actors :
                 /\ last'.actor = a
                 /\ \/ IsAdmin(a) /\ last'.doing \notin Watched
                    \/ /\ last'.doing \notin Watched
                       /\ \/ \E w \in Spaces : \/ \E U \in SUBSET Users : AddMembers(a, w, U)
                                               \/ \E s \in {"active", "suspended"} : SetStatus(a, w, s)
                          \/ \E u, w, M, G : IssueKey(a, u, w, M, G)
                          \/ \E i \in Keys : ExtendKey(a, i) \/ RevokeKey(a, i) \/ RevokeMine(a, i)
                          \/ IssueMine(a)
                    \/ \E w \in Spaces, u \in Users : Leave(a, w, u) /\ last'.doing = "leave"
                    \/ \E i \in Keys, l \in Lists :
                          AmendKey(a, i, l.models) /\ last'.doing = "amend_api_key"
                    \/ \E w \in Spaces, l \in Lists : \E G \in {l.groups, None}, D \in {l, None} :
                          /\ SetSpaceModels(a, w, l.models, G, D)
                          /\ last'.doing = "set_workspace_models"
<1>1. CASE Lapse
  BY <1>1 DEF Lapse, Write, Answered, Watched
<1>2. ASSUME NEW a \in Actors, Administer(a) \/ ManageKeys(a)
      PROVE  /\ last'.actor = a
             /\ \/ IsAdmin(a) /\ last'.doing \notin Watched
                \/ /\ last'.doing \notin Watched
                   /\ \/ \E w \in Spaces : \/ \E U \in SUBSET Users : AddMembers(a, w, U)
                                           \/ \E s \in {"active", "suspended"} : SetStatus(a, w, s)
                      \/ \E u, w, M, G : IssueKey(a, u, w, M, G)
                      \/ \E i \in Keys : ExtendKey(a, i) \/ RevokeKey(a, i) \/ RevokeMine(a, i)
                      \/ IssueMine(a)
                \/ \E w \in Spaces, u \in Users : Leave(a, w, u) /\ last'.doing = "leave"
                \/ \E i \in Keys, l \in Lists :
                      AmendKey(a, i, l.models) /\ last'.doing = "amend_api_key"
                \/ \E w \in Spaces, l \in Lists : \E G \in {l.groups, None}, D \in {l, None} :
                      /\ SetSpaceModels(a, w, l.models, G, D)
                      /\ last'.doing = "set_workspace_models"
  <2>1. CASE Administer(a)
    <3>1. CASE \E w \in Spaces : CreateSpace(a, w) \/ DeleteSpace(a, w)
      BY <3>1, OfAdministrators
    <3>2. CASE \E w \in Spaces, s \in {"active", "suspended"} : SetStatus(a, w, s)
      BY <3>2, OfOthers
    <3>3. CASE \E w \in Spaces, U \in {Users} \cup {{u} : u \in Users} : AddMembers(a, w, U)
      <4>1. PICK w \in Spaces, U \in SUBSET Users : AddMembers(a, w, U)
        BY <3>3
      <4>. QED
        BY <4>1, OfOthers
    <3>4. CASE \E w \in Spaces, u \in Users : Leave(a, w, u)
      BY <3>4, OfWatched
    <3>5. CASE \E w \in Spaces, l \in Lists : \E G \in {l.groups, None}, D \in {l, None} :
                  SetSpaceModels(a, w, l.models, G, D)
      BY <3>5, OfWatched
    <3>6. CASE \E g \in Groups : \/ DeleteGroup(a, g)
                                 \/ \E M \in SUBSET Models : CreateGroup(a, g, M) \/ UpdateGroup(a, g, "models", M)
                                 \/ \E on \in BOOLEAN : UpdateGroup(a, g, "on", on)
      BY <3>6, OfAdministrators
    <3>7. CASE \E i \in PolicyIds : \/ DeletePolicy(a, i)
                                    \/ UpdatePolicy(a, i, "live", TRUE)
                                    \/ \E v \in Windows : \/ UpdatePolicy(a, i, "window", v)
                                                          \/ \E t \in Targets : CreatePolicy(a, i, t, v)
      BY <3>7, OfAdministrators
    <3>. QED
      BY <2>1, <3>1, <3>2, <3>3, <3>4, <3>5, <3>6, <3>7 DEF Administer
  <2>2. CASE ManageKeys(a)
    <3>1. CASE \E i \in Keys : ExtendKey(a, i) \/ RevokeKey(a, i) \/ RevokeMine(a, i)
      BY <3>1, OfOthers
    <3>2. CASE \E i \in Keys, l \in Lists : AmendKey(a, i, l.models)
      BY <3>2, OfWatched
    <3>3. CASE \E I \in SUBSET Keys : PurgeKeys(a, I)
      BY <3>3, OfAdministrators
    <3>4. CASE IssueMine(a)
      BY <3>4, OfOthers
    <3>5. CASE \E u, w, M, G : IssueKey(a, u, w, M, G)
      BY <3>5, OfOthers
    <3>. QED
      BY <2>2, <3>1, <3>2, <3>3, <3>4, <3>5 DEF ManageKeys
  <2>. QED
    BY <1>2, <2>1, <2>2
<1>. QED
  BY <1>1, <1>2 DEF Next

(***************************************************************************)
(* How what a key may call depends on the tables.                          *)
(***************************************************************************)
LEMMA PermittedSame ==
    ASSUME NEW d, NEW e, NEW k,
           e.members = d.members, e.spaces = d.spaces, e.groups = d.groups
    PROVE  Permitted(e, k) = Permitted(d, k)
BY DEF Permitted, ByMembership, ByBinding, List, SpaceModels, GroupModels, SpacesOf, IsMember

\* Everything that a permission is built from is within the models there are.
LEMMA WithinModels ==
    ASSUME NEW d, Typed(d)
    PROVE  /\ \A G : GroupModels(d, G) \subseteq Models
           /\ \A W : SpaceModels(d, W) \subseteq Models
           /\ \A u : ByMembership(d, u) \subseteq Models
           /\ \A k : ByBinding(d, k) \subseteq Models
<1>1. \A G : GroupModels(d, G) \subseteq Models
  BY RowsAreTyped DEF GroupModels, GroupRows
<1>2. \A W : SpaceModels(d, W) \subseteq Models
  BY <1>1, RowsAreTyped DEF SpaceModels, SpaceRows
<1>. QED
  BY <1>1, <1>2 DEF ByMembership, ByBinding

\* Bundles with less in them, or fewer of them, expand to less.
LEMMA GroupsNarrow ==
    ASSUME NEW d, NEW e, TakesAway(d, e), NEW G, NEW H, H \subseteq G
    PROVE  GroupModels(e, H) \subseteq GroupModels(d, G)
BY DEF TakesAway, GroupModels

\* Workspaces that allow less, or fewer of them, allow less together.
LEMMA SpacesNarrow ==
    ASSUME NEW d, NEW e, TakesAway(d, e), NEW V, NEW W, W \subseteq V
    PROVE  SpaceModels(e, W) \subseteq SpaceModels(d, V)
<1>. SUFFICES ASSUME NEW w \in W \cap DOMAIN e.spaces, e.spaces[w].status = "active",
                     NEW x \in e.spaces[w].models \cup GroupModels(e, e.spaces[w].groups)
              PROVE  x \in SpaceModels(d, V)
  BY DEF SpaceModels
<1>1. /\ w \in V \cap DOMAIN d.spaces /\ d.spaces[w].status = "active"
      /\ e.spaces[w].models \subseteq d.spaces[w].models
      /\ e.spaces[w].groups \subseteq d.spaces[w].groups
  BY DEF TakesAway
<1>2. GroupModels(e, e.spaces[w].groups) \subseteq GroupModels(d, d.spaces[w].groups)
  BY <1>1, GroupsNarrow
<1>3. x \in d.spaces[w].models \cup GroupModels(d, d.spaces[w].groups)
  BY <1>1, <1>2
<1>. QED
  BY <1>1, <1>3 DEF SpaceModels

(***************************************************************************)
(* TakingAwayNeverWidens: permissions are unions over what one is in, cut  *)
(* by lists; the one that an emptier table widens is "in no workspace".    *)
(***************************************************************************)
LEMMA TakingAwayNarrows ==
    ASSUME NEW d, NEW e, Typed(d), Typed(e), TakesAway(d, e), NEW i \in DOMAIN e.keys, Live(e, i),
           e.keys[i].owner = d.keys[i].owner, e.keys[i].space = d.keys[i].space,
           e.keys[i].groups = d.keys[i].groups
    PROVE  \/ Reach(e, i) \subseteq Reach(d, i)
           \/ d.keys[i].space = None /\ SpacesOf(e, d.keys[i].owner) = {}
<1>. DEFINE old == d.keys[i]
            new == e.keys[i]
<1>1. /\ Live(d, i)
      /\ \/ new = old
         \/ /\ new.models # {}
            /\ new.models \subseteq old.models \/ (old.models = {} /\ old.groups = {})
  BY DEF TakesAway
<1>2. Reach(d, i) = Permitted(d, old) /\ Reach(e, i) = Permitted(e, new)
  BY <1>1 DEF Reach
<1>3. List(e, new) \cap Models \subseteq List(d, old)
  <2>1. GroupModels(e, new.groups) \subseteq GroupModels(d, old.groups)
    BY GroupsNarrow
  <2>2. CASE old.models = {} /\ old.groups = {}
    BY <2>2 DEF List
  <2>3. CASE ~(old.models = {} /\ old.groups = {})
    <3>1. new.models \subseteq old.models /\ ~(new.models = {} /\ new.groups = {})
      BY <1>1, <2>3
    <3>2. List(e, new) = new.models \cup GroupModels(e, new.groups)
      BY <3>1 DEF List
    <3>3. List(d, old) = old.models \cup GroupModels(d, old.groups)
      BY <2>3 DEF List
    <3>. QED
      BY <2>1, <3>1, <3>2, <3>3
  <2>. QED
    BY <2>2, <2>3
<1>4. SpacesOf(e, old.owner) \subseteq SpacesOf(d, old.owner)
  BY DEF SpacesOf, IsMember, TakesAway
<1>5. CASE old.space = None /\ SpacesOf(e, old.owner) # {}
  <2>1. ByMembership(e, old.owner) \subseteq ByMembership(d, old.owner)
    <3>1. SpacesOf(d, old.owner) # {}
      BY <1>4, <1>5
    <3>2. SpaceModels(e, SpacesOf(e, old.owner)) \subseteq SpaceModels(d, SpacesOf(d, old.owner))
      BY <1>4, SpacesNarrow
    <3>. QED
      BY <1>5, <3>1, <3>2 DEF ByMembership
  <2>2. ByMembership(e, old.owner) \subseteq Models
    BY WithinModels
  <2>. QED
    BY <1>2, <1>3, <1>5, <2>1, <2>2 DEF Permitted
<1>6. CASE old.space # None
  <2>1. ByBinding(e, new) \subseteq ByBinding(d, old)
    <3>1. SpaceModels(e, {old.space}) \subseteq SpaceModels(d, {old.space})
      BY SpacesNarrow
    <3>2. IsMember(e, old.owner, old.space) => IsMember(d, old.owner, old.space)
      BY DEF IsMember, TakesAway
    <3>. QED
      BY <3>1, <3>2 DEF ByBinding
  <2>2. ByBinding(e, new) \subseteq Models
    BY WithinModels
  <2>. QED
    BY <1>2, <1>3, <1>6, <2>1, <2>2 DEF Permitted
<1>. QED
  BY <1>5, <1>6

\* A key that still works is the owner's it was, in the workspace and with the bundles it had.
LEMMA LiveKeysStay ==
    ASSUME AccessAssumption, Good(db), Next, NEW i \in DOMAIN db.keys, i \in DOMAIN db'.keys, Live(db', i)
    PROVE  /\ db'.keys[i].owner = db.keys[i].owner /\ db'.keys[i].space = db.keys[i].space
           /\ db'.keys[i].groups = db.keys[i].groups
<1>. DEFINE Stays == /\ db'.keys[i].owner = db.keys[i].owner /\ db'.keys[i].space = db.keys[i].space
                     /\ db'.keys[i].groups = db.keys[i].groups
<1>0. /\ Typed(db) /\ i \in Keys
      /\ \A j \in DOMAIN db.keys : db.keys[j] \in KeyRows
      /\ db.keys \in [DOMAIN db.keys -> KeyRows]
  BY RowsAreTyped DEF Good, Typed, IsTable
<1>s. db'.keys = db.keys => Stays
  OBVIOUS
<1>w. ASSUME NEW k, k \notin DOMAIN db.keys, NEW row, db'.keys = With(db.keys, k, row) PROVE Stays
  BY <1>w DEF With
<1>e. ASSUME NEW k \in DOMAIN db.keys, NEW row,
             row.owner = db.keys[k].owner, row.space = db.keys[k].space, row.groups = db.keys[k].groups,
             db'.keys = [db.keys EXCEPT ![k] = row]
      PROVE  Stays
  <2>1. CASE k = i
    BY <1>0, <1>e, <2>1
  <2>2. CASE k # i
    BY <1>0, <1>e, <2>2
  <2>. QED
    BY <2>1, <2>2
<1>l. ASSUME NEW k \in DOMAIN db.keys, NEW b, db'.keys = [db.keys EXCEPT ![k] = [@ EXCEPT !.lapsed = b]]
      PROVE  Stays
  <2>. DEFINE row == [db.keys[k] EXCEPT !.lapsed = b]
  <2>1. row.owner = db.keys[k].owner /\ row.space = db.keys[k].space /\ row.groups = db.keys[k].groups
    BY <1>0 DEF KeyRows
  <2>2. db'.keys = [db.keys EXCEPT ![k] = row]
    BY <1>l
  <2>. HIDE DEF row, Stays
  <2>. QED
    BY <1>e, <2>1, <2>2
<1>r. ASSUME NEW k \in DOMAIN db.keys, NEW b, db'.keys = [db.keys EXCEPT ![k] = [@ EXCEPT !.revoked = b]]
      PROVE  Stays
  <2>. DEFINE row == [db.keys[k] EXCEPT !.revoked = b]
  <2>1. row.owner = db.keys[k].owner /\ row.space = db.keys[k].space /\ row.groups = db.keys[k].groups
    BY <1>0 DEF KeyRows
  <2>2. db'.keys = [db.keys EXCEPT ![k] = row]
    BY <1>r
  <2>. HIDE DEF row, Stays
  <2>. QED
    BY <1>e, <2>1, <2>2
<1>m. ASSUME NEW k \in DOMAIN db.keys, NEW M, db'.keys = [db.keys EXCEPT ![k] = [@ EXCEPT !.models = M]]
      PROVE  Stays
  <2>. DEFINE row == [db.keys[k] EXCEPT !.models = M]
  <2>1. row.owner = db.keys[k].owner /\ row.space = db.keys[k].space /\ row.groups = db.keys[k].groups
    BY <1>0 DEF KeyRows
  <2>2. db'.keys = [db.keys EXCEPT ![k] = row]
    BY <1>m
  <2>. HIDE DEF row, Stays
  <2>. QED
    BY <1>e, <2>1, <2>2
<1>1. ASSUME NEW a, Administer(a) PROVE Stays
  <2>1. ASSUME NEW w, NEW x, CreateSpace(a, w) \/ SetStatus(a, w, x) \/ AddMembers(a, w, x) \/ Leave(a, w, x)
        PROVE  Stays
    BY <1>0, <1>s, <2>1, SpaceCreated, StatusSet, MembersAdded, MemberLeft DEF Only
  <2>2. ASSUME NEW w, NEW M, NEW G, NEW D, SetSpaceModels(a, w, M, G, D) PROVE Stays
    BY <1>0, <1>s, <2>2, ModelsSet DEF Only
  <2>3. ASSUME NEW g, NEW x, DeleteGroup(a, g) \/ CreateGroup(a, g, x) PROVE Stays
    BY <1>0, <1>s, <2>3, GroupDeleted, GroupCreated DEF Only
  <2>4. ASSUME NEW g, NEW col \in {"models", "on"}, NEW x, UpdateGroup(a, g, col, x) PROVE Stays
    BY <1>0, <1>s, <2>4, GroupUpdated DEF Only
  <2>5. ASSUME NEW p, NEW col \in {"live", "window"}, NEW x, UpdatePolicy(a, p, col, x) PROVE Stays
    BY <1>0, <1>s, <2>5, PolicyUpdated DEF Only
  <2>6. ASSUME NEW p, NEW x, NEW y, DeletePolicy(a, p) \/ CreatePolicy(a, p, x, y) PROVE Stays
    BY <1>0, <1>s, <2>6, PolicyDeleted, PolicyCreated DEF Only
  <2>7. ASSUME NEW w \in Spaces, DeleteSpace(a, w) PROVE Stays
    <3>1. db'.keys = [j \in DOMAIN db.keys |-> IF db.keys[j].space = w /\ db.keys[j].revoked
                                               THEN [db.keys[j] EXCEPT !.space = None] ELSE db.keys[j]]
      BY <1>0, <2>7 DEF Typed, DeleteSpace, Write, Answered
    <3>2. ~db.keys[i].revoked
      <4>1. CASE db.keys[i].space = w /\ db.keys[i].revoked
        <5>1. db'.keys[i] = [db.keys[i] EXCEPT !.space = None]
          BY <3>1, <4>1
        <5>2. db'.keys[i].revoked
          BY <1>0, <4>1, <5>1 DEF KeyRows
        <5>. QED
          BY <5>2 DEF Live
      <4>2. CASE ~(db.keys[i].space = w /\ db.keys[i].revoked)
        <5>1. db'.keys[i] = db.keys[i]
          BY <3>1, <4>2
        <5>. QED
          BY <5>1 DEF Live
      <4>. QED
        BY <4>1, <4>2
    <3>3. db'.keys[i] = db.keys[i]
      BY <3>1, <3>2
    <3>. QED
      BY <3>3
  <2>. HIDE DEF Stays
  <2>. QED
    BY <1>1, <2>1, <2>2, <2>3, <2>4, <2>5, <2>6, <2>7 DEF Administer
<1>2. ASSUME NEW a, ManageKeys(a) PROVE Stays
  <2>1. ASSUME NEW k, ExtendKey(a, k) PROVE Stays
    <3>1. k \in DOMAIN db.keys /\ db'.keys = [db.keys EXCEPT ![k] = [@ EXCEPT !.lapsed = FALSE]]
      BY <1>0, <2>1, KeyExtended DEF Only, ExtendKey
    <3>. QED
      BY <1>l, <3>1
  <2>2. ASSUME NEW k, RevokeKey(a, k) \/ RevokeMine(a, k) PROVE Stays
    <3>1. k \in DOMAIN db.keys
      BY <2>2 DEF RevokeKey, RevokeMine
    <3>2. db'.keys = [db.keys EXCEPT ![k] = [@ EXCEPT !.revoked = TRUE]]
      BY <1>0, <2>2, KeyRevoked DEF Only
    <3>3. k \in DOMAIN db.keys /\ db'.keys = [db.keys EXCEPT ![k] = [@ EXCEPT !.revoked = TRUE]]
      BY <3>1, <3>2
    <3>. QED
      BY <1>r, <3>3
  <2>3. ASSUME NEW k, NEW M, AmendKey(a, k, M) PROVE Stays
    <3>1. k \in DOMAIN db.keys
      BY <2>3 DEF AmendKey
    <3>2. Only("keys", [db.keys EXCEPT ![k] = [@ EXCEPT !.models = M]])
      BY <1>0, <2>3, KeyAmended
    <3>3. db'.keys = [db.keys EXCEPT ![k] = [@ EXCEPT !.models = M]]
      BY <3>2 DEF Only
    <3>. QED
      BY <1>m, <3>1, <3>3
  <2>4. ASSUME NEW u, NEW w, NEW M, NEW G, IssueKey(a, u, w, M, G) PROVE Stays
    <3>. DEFINE row == [Key(u, w, IF M = None THEN Defaults(u, w).models ELSE M,
                                  IF G = None THEN Defaults(u, w).groups ELSE G)
                          EXCEPT !.filled = (G = None)]
    <3>1. NextKey \notin DOMAIN db.keys
      BY <2>4, NextKeyIsNew DEF IssueKey
    <3>2. Only("keys", With(db.keys, NextKey, row))
      BY <1>0, <2>4, KeyIssued
    <3>. HIDE DEF row, Stays
    <3>3. db'.keys = With(db.keys, NextKey, row)
      BY <3>2 DEF Only
    <3>. QED
      BY <1>w, <3>1, <3>3
  <2>5. ASSUME IssueMine(a) PROVE Stays
    <3>1. RoomForRow
      BY <2>5 DEF IssueMine
    <3>. QED
      BY <1>0, <1>w, <2>5, <3>1, NextKeyIsNew, MineIssued DEF Only
  <2>6. ASSUME NEW I, PurgeKeys(a, I) PROVE Stays
    <3>1. db'.keys = Without(db.keys, I)
      BY <1>0, <2>6 DEF Typed, PurgeKeys, Write, Answered
    <3>. QED
      BY <3>1 DEF Without
  <2>. HIDE DEF Stays
  <2>. QED
    BY <1>2, <2>1, <2>2, <2>3, <2>4, <2>5, <2>6 DEF ManageKeys
<1>3. CASE Lapse
  <2>1. CASE \E k \in DOMAIN db.keys : Only("keys", [db.keys EXCEPT ![k] = [@ EXCEPT !.lapsed = TRUE]])
    <3>1. PICK k \in DOMAIN db.keys : Only("keys", [db.keys EXCEPT ![k] = [@ EXCEPT !.lapsed = TRUE]])
      BY <2>1
    <3>2. db'.keys = [db.keys EXCEPT ![k] = [@ EXCEPT !.lapsed = TRUE]]
      BY <3>1 DEF Only
    <3>. QED
      BY <1>l, <3>2
  <2>2. CASE \E p \in DOMAIN db.policies : Only("policies", [db.policies EXCEPT ![p] = [@ EXCEPT !.live = FALSE]])
    <3>1. PICK p \in DOMAIN db.policies : Only("policies", [db.policies EXCEPT ![p] = [@ EXCEPT !.live = FALSE]])
      BY <2>2
    <3>2. db'.keys = db.keys
      BY <3>1 DEF Only
    <3>. QED
      BY <1>s, <3>2
  <2>3. \/ \E k \in DOMAIN db.keys : Only("keys", [db.keys EXCEPT ![k] = [@ EXCEPT !.lapsed = TRUE]])
        \/ \E p \in DOMAIN db.policies : Only("policies", [db.policies EXCEPT ![p] = [@ EXCEPT !.live = FALSE]])
    BY <1>0, <1>3, RunsOut
  <2>. HIDE DEF Stays
  <2>. QED
    BY <2>1, <2>2, <2>3
<1>4. ASSUME NEW a \in Actors, Administer(a) \/ ManageKeys(a) PROVE Stays
  <2>1. CASE Administer(a)
    BY <1>1, <2>1
  <2>2. CASE ManageKeys(a)
    BY <1>2, <2>2
  <2>. QED
    BY <1>4, <2>1, <2>2
<1>5. CASE \E a \in Actors : Administer(a) \/ ManageKeys(a)
  <2>1. PICK a \in Actors : Administer(a) \/ ManageKeys(a)
    BY <1>5
  <2>. QED
    BY <1>4, <2>1
<1>6. Lapse \/ \E a \in Actors : Administer(a) \/ ManageKeys(a)
  BY DEF Next
<1>. QED
  BY <1>3, <1>5, <1>6

(***************************************************************************)
(* LeaveTells: somebody who is still in another workspace only loses, and  *)
(* a key in a workspace depends on no other.                               *)
(***************************************************************************)
LEMMA LeaveTellsAll ==
    ASSUME AccessAssumption, Good(db), NEW a, NEW w \in Spaces, NEW u \in Users, Leave(a, w, u),
           NEW i \in DOMAIN db'.keys, i \notin last'.told
    PROVE  /\ Reach(db', i) \subseteq Reach(db, i)
           /\ db.keys[i].space # None => Reach(db', i) = Reach(db, i)
<1>. DEFINE k == db.keys[i]
<1>1. /\ db'.members = db.members \ {<<u, w>>}
      /\ db'.spaces = db.spaces /\ db'.groups = db.groups /\ db'.keys = db.keys
  BY MemberLeft DEF Good, Only
<1>2. i \notin Stopped(db, w, u) /\ i \notin Widened(db, w, u)
  BY DEF Leave, Answered
<1>3. Live(db', i) <=> Live(db, i)
  BY <1>1 DEF Live
<1>4. CASE ~Live(db, i)
  BY <1>3, <1>4 DEF Reach
<1>5. CASE Live(db, i)
  <2>1. Reach(db, i) = Permitted(db, k) /\ Reach(db', i) = Permitted(db', k)
    BY <1>1, <1>3, <1>5 DEF Reach
  <2>2. List(db', k) = List(db, k) /\ \A W : SpaceModels(db', W) = SpaceModels(db, W)
    BY <1>1 DEF List, SpaceModels, GroupModels
  <2>3. i \in Keys /\ (k.owner = u => i \in KeysOf(db, u))
    BY <1>1, <1>5, RowsAreTyped DEF KeysOf, Good
  <2>4. CASE k.space # None
    <3>1. ~(Counts(u) /\ k.owner = u /\ k.space = w)
      BY <1>2, <2>3 DEF Stopped
    <3>2. CASE Counts(k.owner)
      <4>1. <<k.owner, k.space>> # <<u, w>>
        BY <3>1, <3>2
      <4>2. IsMember(db', k.owner, k.space) <=> IsMember(db, k.owner, k.space)
        BY <1>1, <4>1 DEF IsMember
      <4>. QED
        BY <2>1, <2>2, <2>4, <4>2 DEF Permitted, ByBinding
    <3>3. CASE ~Counts(k.owner)
      BY <2>1, <2>2, <2>4, <3>3 DEF Permitted, ByBinding
    <3>. QED
      BY <3>2, <3>3
  <2>5. CASE k.space = None
    <3>1. ByMembership(db', k.owner) \subseteq ByMembership(db, k.owner)
      <4>1. CASE ~Counts(k.owner)
        BY <4>1 DEF ByMembership
      <4>2. CASE k.owner # u
        <5>1. SpacesOf(db', k.owner) = SpacesOf(db, k.owner)
          BY <1>1, <4>2 DEF SpacesOf, IsMember
        <5>. QED
          BY <2>2, <5>1 DEF ByMembership
      <4>3. CASE Counts(u) /\ k.owner = u
        <5>1. SpacesOf(db', u) = SpacesOf(db, u) \ {w}
          BY <1>1 DEF SpacesOf, IsMember
        <5>2. w \in SpacesOf(db, u)
          BY DEF Leave, SpacesOf
        <5>3. CASE SpacesOf(db, u) = {w}
          <6>1. SpaceModels(db, {w}) = Models
            BY <1>2, <2>3, <2>5, <4>3, <5>3 DEF Widened
          <6>. QED
            BY <4>3, <5>1, <5>3, <6>1 DEF ByMembership
        <5>4. CASE SpacesOf(db, u) # {w}
          <6>1. SpacesOf(db', u) # {}
            BY <5>1, <5>2, <5>4
          <6>2. SpaceModels(db, SpacesOf(db', u)) \subseteq SpaceModels(db, SpacesOf(db, u))
            BY <5>1 DEF SpaceModels
          <6>. QED
            BY <2>2, <4>3, <5>2, <6>1, <6>2 DEF ByMembership
        <5>. QED
          BY <5>3, <5>4
      <4>. QED
        BY <4>1, <4>2, <4>3
    <3>. QED
      BY <2>1, <2>2, <2>5, <3>1 DEF Permitted
  <2>. QED
    BY <2>4, <2>5
<1>. QED
  BY <1>4, <1>5

(***************************************************************************)
(* NothingWidensUnseen: no step that only takes away leaves a key with     *)
(* more, and `leave` names every key that stops or widens.                 *)
(***************************************************************************)
THEOREM NothingIsWidened == Spec => NothingWidensUnseen
<1>1. RowsConsistent => Good(db)
  BY DEF RowsConsistent, TypeOK, ReferencesKept, OneLivePolicy, Good
<1>2. RowsConsistent /\ [Next]_vars =>
        [db' # db /\ TakesAway(db, db') =>
           \A i \in DOMAIN db'.keys :
              \/ Reach(db', i) \subseteq Reach(db, i)
              \/ db.keys[i].space = None /\ SpacesOf(db', db.keys[i].owner) = {}]_vars
  <2>. SUFFICES ASSUME RowsConsistent, Next, TakesAway(db, db'), NEW i \in DOMAIN db'.keys
                PROVE  \/ Reach(db', i) \subseteq Reach(db, i)
                       \/ db.keys[i].space = None /\ SpacesOf(db', db.keys[i].owner) = {}
    OBVIOUS
  <2>1. Good(db) /\ Good(db') /\ i \in DOMAIN db.keys
    BY <1>1, GoodIsKept, AccessAssumption DEF TakesAway
  <2>2. CASE Live(db', i)
    <3>1. /\ db'.keys[i].owner = db.keys[i].owner /\ db'.keys[i].space = db.keys[i].space
          /\ db'.keys[i].groups = db.keys[i].groups
      BY <2>1, <2>2, LiveKeysStay, AccessAssumption
    <3>2. Typed(db) /\ Typed(db')
      BY <2>1 DEF Good
    <3>. QED
      BY <2>2, <3>1, <3>2, TakingAwayNarrows
  <2>3. CASE ~Live(db', i)
    BY <2>3 DEF Reach
  <2>. QED
    BY <2>2, <2>3
<1>3. RowsConsistent /\ [Next]_vars =>
        [db' # db /\ last'.doing = "leave" =>
           \A i \in DOMAIN db'.keys :
              \/ i \in last'.told
              \/ /\ Reach(db', i) \subseteq Reach(db, i)
                 /\ db.keys[i].space # None => Reach(db', i) = Reach(db, i)]_vars
  <2>. SUFFICES ASSUME RowsConsistent, Next, last'.doing = "leave", NEW i \in DOMAIN db'.keys,
                       i \notin last'.told
                PROVE  /\ Reach(db', i) \subseteq Reach(db, i)
                       /\ db.keys[i].space # None => Reach(db', i) = Reach(db, i)
    OBVIOUS
  <2>1. PICK a \in Actors, w \in Spaces, u \in Users : Leave(a, w, u)
    BY StepsAreSigned DEF Watched
  <2>. QED
    BY <1>1, <2>1, LeaveTellsAll, AccessAssumption
<1>. QED
  BY <1>2, <1>3, RowsStayConsistent, PTL
     DEF Spec, NothingWidensUnseen, TakingAwayNeverWidens, LeaveTells

(***************************************************************************)
(* GrantsWithinReach: a longer list, or a list that is gone, and what a    *)
(* workspace newly allows, add nothing that the manager could not call.    *)
(***************************************************************************)
LEMMA AmendedWithinReach ==
    ASSUME Good(db), NEW a, ~IsAdmin(a), NEW j, NEW M, AmendKey(a, j, M), NEW i \in DOMAIN db'.keys
    PROVE  Reach(db', i) \ Reach(db, i) \subseteq Own(db, a)
<1>. DEFINE k == db.keys[j]
            n == [k EXCEPT !.models = M]
<1>1. Typed(db) /\ j \in DOMAIN db.keys
  BY DEF Good, AmendKey
<1>2. k \in KeyRows /\ db.keys \in [DOMAIN db.keys -> KeyRows]
  BY <1>1 DEF Typed, IsTable
<1>3. Only("keys", [db.keys EXCEPT ![j] = [@ EXCEPT !.models = M]])
  BY <1>1, KeyAmended
<1>4. /\ db'.members = db.members /\ db'.spaces = db.spaces /\ db'.groups = db.groups
      /\ db'.keys = [db.keys EXCEPT ![j] = n]
  BY <1>3 DEF Only
<1>5. \A x : Permitted(db', x) = Permitted(db, x)
  BY <1>4, PermittedSame
<1>6. CASE i # j
  <2>1. i \in DOMAIN db.keys /\ db'.keys[i] = db.keys[i]
    BY <1>4, <1>6
  <2>. QED
    BY <1>5, <2>1 DEF Reach, Live
<1>7. CASE i = j
  <2>1. db'.keys[j] = n
    BY <1>1, <1>4
  <2>2. /\ n.owner = k.owner /\ n.space = k.space /\ n.groups = k.groups /\ n.models = M
        /\ n.revoked = k.revoked /\ n.lapsed = k.lapsed
    BY <1>2 DEF KeyRows
  <2>3. Live(db', j) <=> Live(db, j)
    BY <1>1, <1>4, <2>1, <2>2 DEF Live
  <2>4. Permitted(db, n) \ Permitted(db, k) \subseteq Own(db, a)
    <3>1. /\ M \subseteq Own(db, a)
          /\ k.models # M
          /\ M = {} /\ k.models # {} => Permitted(db, [k EXCEPT !.models = {}]) \subseteq Own(db, a)
      BY DEF AmendKey, MayGrant, MayLift
    <3>2. CASE M = {}
      BY <3>1, <3>2
    <3>3. CASE M # {}
      <4>1. List(db, n) = M \cup GroupModels(db, k.groups)
        BY <2>2, <3>3 DEF List
      <4>2. GroupModels(db, k.groups) \subseteq List(db, k)
        BY <1>1, WithinModels DEF List
      <4>3. Permitted(db, n) \subseteq Permitted(db, k) \cup M
        <5>1. ByBinding(db, n) = ByBinding(db, k)
          BY <2>2 DEF ByBinding
        <5>. HIDE DEF n, k
        <5>. QED
          BY <2>2, <4>1, <4>2, <5>1 DEF Permitted
      <4>. QED
        BY <3>1, <4>3
    <3>. QED
      BY <3>2, <3>3
  <2>. HIDE DEF n
  <2>5. CASE Live(db, j)
    BY <1>5, <1>7, <2>1, <2>3, <2>4, <2>5 DEF Reach
  <2>6. CASE ~Live(db, j)
    BY <1>7, <2>3, <2>6 DEF Reach
  <2>. QED
    BY <2>5, <2>6
<1>. QED
  BY <1>6, <1>7

\* The same of what a workspace allows.
LEMMA ModelsWithinReach ==
    ASSUME Good(db), NEW a, ~IsAdmin(a), NEW w, NEW M, NEW G, NEW D, SetSpaceModels(a, w, M, G, D),
           NEW i \in DOMAIN db'.keys
    PROVE  Reach(db', i) \ Reach(db, i) \subseteq Own(db, a)
<1>. DEFINE old == db.spaces[w]
            new == [old EXCEPT !.models = M,
                               !.groups = IF G = None THEN old.groups ELSE G,
                               !.defaults = IF D = None THEN old.defaults ELSE D]
<1>1. Typed(db) /\ w \in DOMAIN db.spaces
  BY DEF Good, SetSpaceModels
<1>2. old \in SpaceRows /\ db.spaces \in [DOMAIN db.spaces -> SpaceRows]
  BY <1>1 DEF Typed, IsTable
<1>3. Only("spaces", [db.spaces EXCEPT
                  ![w] = [@ EXCEPT !.models = M,
                                   !.groups = IF G = None THEN db.spaces[w].groups ELSE G,
                                   !.defaults = IF D = None THEN db.spaces[w].defaults ELSE D]])
  BY <1>1, ModelsSet
<1>4. /\ db'.members = db.members /\ db'.keys = db.keys /\ db'.groups = db.groups
      /\ db'.spaces = [db.spaces EXCEPT ![w] = new]
  BY <1>3 DEF Only
<1>5. /\ new.status = old.status /\ new.models = M
      /\ new.groups = IF G = None THEN old.groups ELSE G
  BY <1>2 DEF SpaceRows
<1>6. M \subseteq Own(db, a) /\ (G # None => UNION {db.groups[g].models : g \in G} \subseteq Own(db, a))
  BY DEF SetSpaceModels, MayGrant
<1>. HIDE DEF new
<1>7. \A W : SpaceModels(db', W) \subseteq SpaceModels(db, W) \cup Own(db, a)
  <2>. SUFFICES ASSUME NEW W, NEW v \in W \cap DOMAIN db'.spaces, db'.spaces[v].status = "active",
                       NEW x \in db'.spaces[v].models \cup GroupModels(db', db'.spaces[v].groups)
                PROVE  x \in SpaceModels(db, W) \cup Own(db, a)
    BY DEF SpaceModels
  <2>1. GroupModels(db', db'.spaces[v].groups) = GroupModels(db, db'.spaces[v].groups)
    BY <1>4 DEF GroupModels
  <2>2. CASE v # w
    <3>1. v \in W \cap DOMAIN db.spaces /\ db'.spaces[v] = db.spaces[v]
      BY <1>4, <2>2
    <3>. QED
      BY <2>1, <3>1 DEF SpaceModels
  <2>3. CASE v = w
    <3>1. db'.spaces[v] = new
      BY <1>1, <1>4, <2>3
    <3>2. CASE x \in M
      BY <1>6, <3>2
    <3>3. CASE x \in GroupModels(db, new.groups) /\ G = None
      <4>1. w \in W \cap DOMAIN db.spaces /\ db.spaces[w].status = "active"
        BY <1>1, <1>5, <2>3, <3>1
      <4>2. x \in GroupModels(db, db.spaces[w].groups)
        BY <1>5, <3>3
      <4>. QED
        BY <4>1, <4>2 DEF SpaceModels
    <3>4. CASE x \in GroupModels(db, new.groups) /\ G # None
      <4>1. x \in UNION {db.groups[g].models : g \in G}
        BY <1>5, <3>4 DEF GroupModels
      <4>. QED
        BY <1>6, <3>4, <4>1
    <3>. QED
      BY <1>5, <2>1, <3>1, <3>2, <3>3, <3>4
  <2>. QED
    BY <2>2, <2>3
<1>8. ASSUME NEW k PROVE Permitted(db', k) \subseteq Permitted(db, k) \cup Own(db, a)
  <2>1. List(db', k) = List(db, k)
    BY <1>4 DEF List, GroupModels
  <2>2. ByMembership(db', k.owner) \subseteq ByMembership(db, k.owner) \cup Own(db, a)
    <3>1. SpacesOf(db', k.owner) = SpacesOf(db, k.owner)
      BY <1>4 DEF SpacesOf, IsMember
    <3>. QED
      BY <1>7, <3>1 DEF ByMembership
  <2>3. ByBinding(db', k) \subseteq ByBinding(db, k) \cup Own(db, a)
    <3>1. IsMember(db', k.owner, k.space) <=> IsMember(db, k.owner, k.space)
      BY <1>4 DEF IsMember
    <3>. QED
      BY <1>7, <3>1 DEF ByBinding
  <2>. QED
    BY <2>1, <2>2, <2>3 DEF Permitted
<1>9. db'.keys[i] = db.keys[i] /\ (Live(db', i) <=> Live(db, i))
  BY <1>4 DEF Live
<1>. QED
  BY <1>8, <1>9 DEF Reach

(***************************************************************************)
(* RightsAreTheOwners: a step that is not an administrator's writes no key *)
(* of somebody else's that carries, or would carry, rights.                *)
(***************************************************************************)
LEMMA RightsSame ==
    ASSUME NEW i \in DOMAIN db.keys, i \in DOMAIN db'.keys, db'.policies = db.policies,
           db'.keys[i] = db.keys[i]
    PROVE  CarriesRights(db', i) = CarriesRights(db, i)
<1>1. Capped(db', i) <=> Capped(db, i)
  BY DEF Capped
<1>2. Live(db', i) <=> Live(db, i)
  BY DEF Live
<1>3. CarriesRights(db', i) <=> CarriesRights(db, i)
  BY <1>1, <1>2 DEF CarriesRights, Limited
<1>4. CarriesRights(db', i) \in BOOLEAN /\ CarriesRights(db, i) \in BOOLEAN
  BY DEF CarriesRights
<1>. QED
  BY <1>3, <1>4

\* A limited key, or one of somebody with no rights, carries none.
LEMMA LimitedHasNoRights ==
    ASSUME NEW d, NEW i, Role[d.keys[i].owner] = "user" \/ Limited(d.keys[i], Capped(d, i))
    PROVE  ~CarriesRights(d, i)
BY DEF CarriesRights

\* What _assert_may_decide_key leaves to a manager of another person's keys.
LEMMA MayDecideLimits ==
    ASSUME AccessAssumption, NEW a, ~IsAdmin(a), NEW u \in Users, u # a.user, NEW shapes, NEW capped,
           MayDecide(a, u, shapes, capped), NEW k \in shapes
    PROVE  Role[u] = "user" \/ Limited(k, capped)
BY DEF AccessAssumption, MayDecide

\* The requests that a manager may make, one by one.
LEMMA RightsStay ==
    ASSUME AccessAssumption, Good(db), NEW a, ~IsAdmin(a), NEW i \in DOMAIN db'.keys,
           db'.keys[i].owner # a.user,
           \/ \E w, U : AddMembers(a, w, U) \/ SetStatus(a, w, U) \/ Leave(a, w, U)
           \/ \E w, M, G, D : SetSpaceModels(a, w, M, G, D)
           \/ \E u, w, M, G : IssueKey(a, u, w, M, G)
           \/ \E j : ExtendKey(a, j) \/ RevokeKey(a, j) \/ RevokeMine(a, j)
           \/ \E j, M : AmendKey(a, j, M)
           \/ IssueMine(a)
    PROVE  CarriesRights(db', i) = CarriesRights(db, i)
<1>. DEFINE Same == CarriesRights(db', i) = CarriesRights(db, i)
<1>0. Typed(db) /\ db.keys \in [DOMAIN db.keys -> KeyRows]
  BY DEF Good, Typed, IsTable
<1>t. \A j \in DOMAIN db.keys : db.keys[j] \in KeyRows /\ db.keys[j].owner \in Users
  BY <1>0 DEF KeyRows
<1>e. ASSUME NEW j \in DOMAIN db.keys, NEW row, row.owner = db.keys[j].owner,
             db'.keys = [db.keys EXCEPT ![j] = row], db'.policies = db.policies,
             db.keys[j].owner # a.user =>
                /\ Role[row.owner] = "user" \/ Limited(row, Capped(db, j))
                /\ Role[row.owner] = "user" \/ Limited(db.keys[j], Capped(db, j))
      PROVE  Same
  <2>1. CASE i # j
    <3>1. i \in DOMAIN db.keys /\ db'.keys[i] = db.keys[i]
      BY <1>e, <2>1
    <3>. QED
      BY <1>e, <3>1, RightsSame
  <2>2. CASE i = j
    <3>1. db'.keys[j] = row
      BY <1>e
    <3>2. Capped(db', j) <=> Capped(db, j)
      BY <1>e DEF Capped
    <3>3. ~CarriesRights(db', j)
      BY <1>e, <2>2, <3>1, <3>2, LimitedHasNoRights DEF Limited
    <3>4. ~CarriesRights(db, j)
      BY <1>e, <2>2, <3>1, LimitedHasNoRights
    <3>. QED
      BY <2>2, <3>3, <3>4 DEF CarriesRights
  <2>. QED
    BY <2>1, <2>2
<1>w. ASSUME NEW row, NEW k \in Keys, k \notin DOMAIN db.keys,
             db'.keys = With(db.keys, k, row), db'.policies = db.policies,
             row.owner # a.user => Role[row.owner] = "user" \/ Limited(row, FALSE)
      PROVE  Same
  <2>1. CASE i # k
    <3>1. i \in DOMAIN db.keys /\ db'.keys[i] = db.keys[i]
      BY <1>w, <2>1 DEF With
    <3>. QED
      BY <1>w, <3>1, RightsSame
  <2>2. CASE i = k
    <3>1. db'.keys[i] = row
      BY <1>w, <2>2 DEF With
    <3>2. ~CarriesRights(db', i)
      BY <1>w, <3>1, LimitedHasNoRights DEF Limited
    <3>3. ~CarriesRights(db, i)
      BY <1>w, <2>2 DEF CarriesRights, Live
    <3>. QED
      BY <3>2, <3>3 DEF CarriesRights
  <2>. QED
    BY <2>1, <2>2
<1>s. db'.keys = db.keys /\ db'.policies = db.policies => Same
  BY RightsSame
<1>1. ASSUME NEW w, NEW U, AddMembers(a, w, U) \/ SetStatus(a, w, U) \/ Leave(a, w, U) PROVE Same
  <2>1. db'.keys = db.keys /\ db'.policies = db.policies
    BY <1>0, <1>1, MembersAdded, StatusSet, MemberLeft DEF Only
  <2>. QED
    BY <1>s, <2>1
<1>2. ASSUME NEW w, NEW M, NEW G, NEW D, SetSpaceModels(a, w, M, G, D) PROVE Same
  <2>1. db'.keys = db.keys /\ db'.policies = db.policies
    BY <1>0, <1>2, ModelsSet DEF Only
  <2>. QED
    BY <1>s, <2>1
<1>3. ASSUME NEW u, NEW w, NEW M, NEW G, IssueKey(a, u, w, M, G) PROVE Same
  <2>. DEFINE row == [Key(u, w, IF M = None THEN Defaults(u, w).models ELSE M,
                                IF G = None THEN Defaults(u, w).groups ELSE G)
                        EXCEPT !.filled = (G = None)]
  <2>1. NextKey \in Keys /\ NextKey \notin DOMAIN db.keys
    BY <1>3, NextKeyIsNew DEF IssueKey
  <2>2. Only("keys", With(db.keys, NextKey, row))
    BY <1>0, <1>3, KeyIssued
  <2>3. row.owner = u
    BY DEF Key
  <2>4. MayDecide(a, u, {row}, FALSE) /\ u \in Visible(a)
    BY <1>3 DEF IssueKey
  <2>. HIDE DEF row, Same
  <2>5. u # a.user => u \in Users
    BY <2>4 DEF Visible
  <2>6. u # a.user => Role[u] = "user" \/ Limited(row, FALSE)
    BY <2>4, <2>5, MayDecideLimits
  <2>7. db'.keys = With(db.keys, NextKey, row) /\ db'.policies = db.policies
    BY <2>2 DEF Only
  <2>. QED
    BY <1>w, <2>1, <2>3, <2>6, <2>7
<1>4. ASSUME IssueMine(a) PROVE Same
  <2>. DEFINE row == Key(a.user, None, {}, {})
  <2>1. NextKey \in Keys /\ NextKey \notin DOMAIN db.keys
    BY <1>4, NextKeyIsNew DEF IssueMine
  <2>2. Only("keys", With(db.keys, NextKey, row))
    BY <1>0, <1>4, MineIssued
  <2>3. row.owner = a.user
    BY DEF Key
  <2>. HIDE DEF row, Same
  <2>4. db'.keys = With(db.keys, NextKey, row) /\ db'.policies = db.policies
    BY <2>2 DEF Only
  <2>. QED
    BY <1>w, <2>1, <2>3, <2>4
<1>5. ASSUME NEW j, ExtendKey(a, j) PROVE Same
  <2>. DEFINE row == [db.keys[j] EXCEPT !.lapsed = FALSE]
  <2>1. j \in DOMAIN db.keys /\ MayDecide(a, db.keys[j].owner, {db.keys[j]}, Capped(db, j))
    BY <1>5 DEF ExtendKey
  <2>2. Only("keys", [db.keys EXCEPT ![j] = [@ EXCEPT !.lapsed = FALSE]])
    BY <1>0, <1>5, KeyExtended
  <2>3. /\ row.owner = db.keys[j].owner
        /\ Limited(row, Capped(db, j)) <=> Limited(db.keys[j], Capped(db, j))
    BY <1>t, <2>1 DEF KeyRows, Limited
  <2>4. db'.keys = [db.keys EXCEPT ![j] = row] /\ db'.policies = db.policies
    BY <2>2 DEF Only
  <2>. HIDE DEF row, Same
  <2>5. db.keys[j].owner # a.user => Role[db.keys[j].owner] = "user" \/ Limited(db.keys[j], Capped(db, j))
    BY <1>t, <2>1, MayDecideLimits
  <2>. QED
    BY <1>e, <2>1, <2>3, <2>4, <2>5
<1>6. ASSUME NEW j, RevokeKey(a, j) \/ RevokeMine(a, j) PROVE Same
  <2>. DEFINE row == [db.keys[j] EXCEPT !.revoked = TRUE]
  <2>1. /\ j \in DOMAIN db.keys
        /\ \/ db.keys[j].owner = a.user
           \/ MayDecide(a, db.keys[j].owner, {db.keys[j]}, Capped(db, j))
    BY <1>6 DEF RevokeKey, RevokeMine
  <2>2. Only("keys", [db.keys EXCEPT ![j] = [@ EXCEPT !.revoked = TRUE]])
    BY <1>0, <1>6, KeyRevoked
  <2>3. /\ row.owner = db.keys[j].owner
        /\ Limited(row, Capped(db, j)) <=> Limited(db.keys[j], Capped(db, j))
    BY <1>t, <2>1 DEF KeyRows, Limited
  <2>4. db'.keys = [db.keys EXCEPT ![j] = row] /\ db'.policies = db.policies
    BY <2>2 DEF Only
  <2>. HIDE DEF row, Same
  <2>5. db.keys[j].owner # a.user => Role[db.keys[j].owner] = "user" \/ Limited(db.keys[j], Capped(db, j))
    BY <1>t, <2>1, MayDecideLimits
  <2>. QED
    BY <1>e, <2>1, <2>3, <2>4, <2>5
<1>7. ASSUME NEW j, NEW M, AmendKey(a, j, M) PROVE Same
  <2>. DEFINE k == db.keys[j]
              row == [k EXCEPT !.models = M]
  <2>1. j \in DOMAIN db.keys /\ MayDecide(a, k.owner, {k, row}, Capped(db, j))
    BY <1>7 DEF AmendKey
  <2>2. Only("keys", [db.keys EXCEPT ![j] = [@ EXCEPT !.models = M]])
    BY <1>0, <1>7, KeyAmended
  <2>3. row.owner = k.owner /\ k.owner \in Users
    BY <1>t, <2>1 DEF KeyRows
  <2>4. db'.keys = [db.keys EXCEPT ![j] = row] /\ db'.policies = db.policies
    BY <2>2 DEF Only
  <2>. HIDE DEF row, Same
  <2>5. k.owner # a.user => /\ Role[k.owner] = "user" \/ Limited(k, Capped(db, j))
                            /\ Role[k.owner] = "user" \/ Limited(row, Capped(db, j))
    BY <2>1, <2>3, MayDecideLimits
  <2>. QED
    BY <1>e, <2>1, <2>3, <2>4, <2>5
<1>. HIDE DEF Same
<1>8. Same
  BY <1>1, <1>2, <1>3, <1>4, <1>5, <1>6, <1>7
<1>. QED
  BY <1>8 DEF Same

(***************************************************************************)
(* ManagersStayWithin: what a manager hands out they can call themselves   *)
(* (_assert_may_grant, _assert_may_lift_key_list), and the rights          *)
(* that other people's keys carry are not theirs to give or take           *)
(* (_assert_may_decide_key).                                               *)
(***************************************************************************)
THEOREM ManagersKeepWithin == Spec => ManagersStayWithin
<1>1. RowsConsistent => Good(db)
  BY DEF RowsConsistent, TypeOK, ReferencesKept, OneLivePolicy, Good
<1>2. RowsConsistent /\ [Next]_vars =>
        [LET a == last'.actor IN
         ByManager(a) /\ last'.doing \in {"amend_api_key", "set_workspace_models"}
         => \A i \in DOMAIN db'.keys : Reach(db', i) \ Reach(db, i) \subseteq Own(db, a)]_vars
  <2>. SUFFICES ASSUME RowsConsistent, Next, ByManager(last'.actor),
                       last'.doing \in {"amend_api_key", "set_workspace_models"}, NEW i \in DOMAIN db'.keys
                PROVE  Reach(db', i) \ Reach(db, i) \subseteq Own(db, last'.actor)
    OBVIOUS
  <2>1. PICK a \in Actors :
           /\ last'.actor = a
           /\ \/ \E j \in Keys, l \in Lists : AmendKey(a, j, l.models)
              \/ \E w \in Spaces, l \in Lists : \E G \in {l.groups, None}, D \in {l, None} :
                    SetSpaceModels(a, w, l.models, G, D)
    BY StepsAreSigned DEF Watched
  <2>2. ~IsAdmin(a) /\ Good(db)
    BY <1>1, <2>1 DEF ByManager
  <2>3. CASE \E j \in Keys, l \in Lists : AmendKey(a, j, l.models)
    BY <2>1, <2>2, <2>3, AmendedWithinReach
  <2>4. CASE \E w \in Spaces, l \in Lists : \E G \in {l.groups, None}, D \in {l, None} :
                SetSpaceModels(a, w, l.models, G, D)
    BY <2>1, <2>2, <2>4, ModelsWithinReach
  <2>. QED
    BY <2>1, <2>3, <2>4
<1>3. RowsConsistent /\ [Next]_vars =>
        [LET a == last'.actor IN
         ByManager(a)
         => \A i \in DOMAIN db'.keys :
               db'.keys[i].owner # a.user => CarriesRights(db', i) = CarriesRights(db, i)]_vars
  <2>. SUFFICES ASSUME RowsConsistent, Next, ByManager(last'.actor), NEW i \in DOMAIN db'.keys,
                       db'.keys[i].owner # last'.actor.user
                PROVE  CarriesRights(db', i) = CarriesRights(db, i)
    OBVIOUS
  <2>1. PICK a \in Actors :
           /\ last'.actor = a
           /\ \/ \E w, U : AddMembers(a, w, U) \/ SetStatus(a, w, U) \/ Leave(a, w, U)
              \/ \E w, M, G, D : SetSpaceModels(a, w, M, G, D)
              \/ \E u, w, M, G : IssueKey(a, u, w, M, G)
              \/ \E j : ExtendKey(a, j) \/ RevokeKey(a, j) \/ RevokeMine(a, j)
              \/ \E j, M : AmendKey(a, j, M)
              \/ IssueMine(a)
    BY StepsAreSigned DEF ByManager
  <2>2. ~IsAdmin(a) /\ Good(db)
    BY <1>1, <2>1 DEF ByManager
  <2>. QED
    BY <2>1, <2>2, RightsStay, AccessAssumption
<1>. QED
  BY <1>2, <1>3, RowsStayConsistent, PTL
     DEF Spec, ManagersStayWithin, GrantsWithinReach, RightsAreTheOwners
=============================================================================
