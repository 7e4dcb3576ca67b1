--------------------------- MODULE AccessControl ---------------------------
(***************************************************************************)
(* Workspaces, bundles of models, API keys and quota policies: the handlers *)
(* of app/api/admin.py and app/api/auth.py that change them, and the rules  *)
(* of app/core/auth.py that say who may do what.  Requests that overlap are *)
(* not modelled: what is asked here is where any sequence of them leads.    *)
(***************************************************************************)
EXTENDS Integers, FiniteSets

CONSTANTS
    Users, Spaces, Groups, Models, Keys, PolicyIds,
    Role,           \* user -> "admin", "manager" or "user"
    Actors,         \* who sends requests: [user, key], the key `None` for a console session
    Databases,      \* the databases to start from
    Lists,          \* the lists somebody may send: [models, groups]
    Grants,         \* the values of membership_grants_models of gateway.yaml
    KeyCap,         \* max_keys_per_member
    MaxChanges,     \* bound: requests, and keys and policies that ran out
    None

VARIABLES
    grants,
    db,         \* the tables: members, spaces, groups, keys, policies; the enrolments, and id -> row
    last,       \* the last change: by whom, which, and the keys it told of
    changes

vars == <<grants, db, last, changes>>

Windows == {"day", "month"}

Nothing == [models |-> {}, groups |-> {}]
Space(status, models, groups) ==
    [status |-> status, models |-> models, groups |-> groups, defaults |-> Nothing]
Group(models, on) == [models |-> models, on |-> on]
Key(owner, space, models, groups) ==
    [owner |-> owner, space |-> space, models |-> models, groups |-> groups,
     revoked |-> FALSE, lapsed |-> FALSE,
     filled |-> FALSE]       \* ghost: its bundles came from a workspace's defaults
Policy(scope, at, group, window) ==
    [scope |-> scope, at |-> at, group |-> group, window |-> window, live |-> TRUE]

---------------------------------------------------------------------------
(* app/core/auth.py: what a key may call and whose rights it carries *)

IsMember(d, u, w) == <<u, w>> \in d.members
SpacesOf(d, u) == {w \in Spaces : IsMember(d, u, w)}

\* membership_counts
Counts(u) == Role[u] # "admin" /\ grants

\* A bundle that is switched off expands to nothing.
GroupModels(d, G) == UNION {d.groups[g].models : g \in {h \in G \cap DOMAIN d.groups : d.groups[h].on}}

\* A suspended workspace grants nothing.
SpaceModels(d, W) ==
    UNION {d.spaces[w].models \cup GroupModels(d, d.spaces[w].groups) :
              w \in {v \in W \cap DOMAIN d.spaces : d.spaces[v].status = "active"}}

\* Somebody in no workspace is not limited by membership.
ByMembership(d, u) ==
    IF ~Counts(u) \/ SpacesOf(d, u) = {} THEN Models ELSE SpaceModels(d, SpacesOf(d, u))

ByBinding(d, k) ==
    IF Counts(k.owner) /\ ~IsMember(d, k.owner, k.space) THEN {} ELSE SpaceModels(d, {k.space})

\* A plausible bug: a list that expands to nothing is no list.
ListExpanded(d, k) ==
    LET listed == k.models \cup GroupModels(d, k.groups)
    IN IF listed = {} THEN Models ELSE listed

\* What was written on the key, bundle or list, narrows even when it expands to nothing.
List(d, k) ==
    IF k.models = {} /\ k.groups = {} THEN Models ELSE k.models \cup GroupModels(d, k.groups)

\* permitted_aliases
Permitted(d, k) ==
    (IF k.space = None THEN ByMembership(d, k.owner) ELSE ByBinding(d, k)) \cap List(d, k)

Live(d, i) == i \in DOMAIN d.keys /\ ~d.keys[i].revoked /\ ~d.keys[i].lapsed
Reach(d, i) == IF Live(d, i) THEN Permitted(d, d.keys[i]) ELSE {}

\* has_cap_in_force
Capped(d, i) ==
    \E p \in DOMAIN d.policies : /\ d.policies[p].scope = "key" /\ d.policies[p].at = i
                                 /\ d.policies[p].live

\* limits_on_key, of a key as it stands or as it would be.
Limited(k, capped) == k.models # {} \/ k.groups # {} \/ k.space # None \/ capped

\* The rights of the owner that a live key carries.
CarriesRights(d, i) ==
    Live(d, i) /\ Role[d.keys[i].owner] # "user" /\ ~Limited(d.keys[i], Capped(d, i))

---------------------------------------------------------------------------
(* Who is asking *)

\* authenticate: a session, or a key that is neither revoked nor expired.
Authenticated(a) ==
    a.key # None => Live(db, a.key) /\ db.keys[a.key].owner = a.user
HasRights(a) == a.key # None => ~Limited(db.keys[a.key], Capped(db, a.key))
IsAdmin(a) == Authenticated(a) /\ Role[a.user] = "admin" /\ HasRights(a)
IsManager(a) == Authenticated(a) /\ Role[a.user] # "user" /\ HasRights(a)

\* The actor's own permission, of permitted_aliases.
Own(d, a) == Permitted(d, IF a.key = None THEN Key(a.user, None, {}, {}) ELSE d.keys[a.key])

Owns(a, w) == IsAdmin(a) \/ (IsManager(a) /\ IsMember(db, a.user, w))
Visible(a) ==
    IF IsAdmin(a) THEN Users
    ELSE {a.user} \cup {u \in Users : \E w \in SpacesOf(db, a.user) : IsMember(db, u, w)}
MayEnrol(a, U) == IsAdmin(a) \/ \A u \in U : Role[u] # "admin"
MayGrant(a, M) == IsAdmin(a) \/ M \subseteq Own(db, a)

\* _assert_may_decide_key: `shapes` are the key before and after.
MayDecide(a, u, shapes, capped) ==
    \/ IsAdmin(a)
    \/ /\ Role[u] # "admin"
       /\ Role[u] = "manager" /\ u # a.user => \A k \in shapes : Limited(k, capped)

\* A plausible bug: an empty list names no model, so nothing is asked of it.
MayLiftAny(a, k) == TRUE

\* _assert_may_lift_key_list
MayLift(a, k) == IsAdmin(a) \/ Permitted(db, [k EXCEPT !.models = {}]) \subseteq Own(db, a)

---------------------------------------------------------------------------
(* Tables *)

With(rows, i, row) == [x \in DOMAIN rows \cup {i} |-> IF x = i THEN row ELSE rows[x]]
Without(rows, I) == [x \in DOMAIN rows \ I |-> rows[x]]

\* DELETE FROM quota_policies WHERE the target is this workspace, or these keys.
PoliciesOf(d, scope, at) ==
    {p \in DOMAIN d.policies : d.policies[p].scope = scope /\ d.policies[p].at \in at}

\* The foreign keys of app/db/models.py; a bundle named on a key is JSON and has none.
ForeignKeys(d) ==
    /\ \A m \in d.members : m[2] \in DOMAIN d.spaces
    /\ \A w \in DOMAIN d.spaces : d.spaces[w].groups \subseteq DOMAIN d.groups
    /\ \A k \in DOMAIN d.keys : d.keys[k].space \in DOMAIN d.spaces \cup {None}
    /\ \A p \in DOMAIN d.policies :
          /\ d.policies[p].scope = "workspace" => d.policies[p].at \in DOMAIN d.spaces
          /\ d.policies[p].scope = "key" => d.policies[p].at \in DOMAIN d.keys
          /\ d.policies[p].group \in DOMAIN d.groups \cup {None}

\* A request was answered: the database it leaves, and the keys it told of.
Answered(a, doing, d, told) ==
    /\ changes' = changes + 1
    /\ db' = d
    /\ last' = [actor |-> a, doing |-> doing, told |-> told]
    /\ UNCHANGED grants

Write(a, doing, d) == Answered(a, doing, d, {})

\* A key or a policy runs out.
MayAsk == changes < MaxChanges

Lapse ==
    /\ MayAsk
    /\ \/ \E i \in DOMAIN db.keys :
             ~db.keys[i].lapsed /\ Write(None, "lapse", [db EXCEPT !.keys[i].lapsed = TRUE])
       \/ \E p \in DOMAIN db.policies :
             db.policies[p].live /\ Write(None, "lapse", [db EXCEPT !.policies[p].live = FALSE])

---------------------------------------------------------------------------
(* Workspaces and bundles *)

CreateSpace(a, w) ==
    /\ MayAsk /\ IsAdmin(a) /\ w \notin DOMAIN db.spaces
    /\ Write(a, "create_workspace", [db EXCEPT !.spaces = With(@, w, Space("active", {}, {}))])

CreateGroup(a, g, M) ==
    /\ MayAsk /\ IsAdmin(a) /\ g \notin DOMAIN db.groups
    /\ Write(a, "create_access_group", [db EXCEPT !.groups = With(@, g, Group(M, TRUE))])

UpdateGroup(a, g, col, value) ==
    /\ MayAsk /\ IsAdmin(a) /\ g \in DOMAIN db.groups
    /\ db.groups[g][col] # value
    /\ Write(a, "update_access_group", [db EXCEPT !.groups[g][col] = value])

\* A plausible bug: an expired key does not hold a bundle.
HeldByLiveKeys(g) ==
    \/ \E w \in DOMAIN db.spaces : g \in db.spaces[w].groups
    \/ \E p \in DOMAIN db.policies : db.policies[p].group = g
    \/ \E k \in DOMAIN db.keys : Live(db, k) /\ g \in db.keys[k].groups

\* Workspaces, policies and keys that are not revoked hold a bundle.
HeldGroup(g) ==
    \/ \E w \in DOMAIN db.spaces : g \in db.spaces[w].groups
    \/ \E p \in DOMAIN db.policies : db.policies[p].group = g
    \/ \E k \in DOMAIN db.keys : ~db.keys[k].revoked /\ g \in db.keys[k].groups

DeleteGroup(a, g) ==
    /\ MayAsk /\ IsAdmin(a) /\ g \in DOMAIN db.groups
    /\ ~HeldGroup(g)
    /\ Write(a, "delete_access_group", [db EXCEPT !.groups = Without(@, {g})])

\* add_members and join: those who are in already are left as they are.
AddMembers(a, w, U) ==
    LET added == {u \in U : ~IsMember(db, u, w)} IN
    /\ MayAsk /\ IsManager(a) /\ w \in DOMAIN db.spaces /\ Owns(a, w)
    /\ added # {} /\ MayEnrol(a, added)
    /\ Write(a, "add_members", [db EXCEPT !.members = @ \cup (added \X {w})])

\* leave: the keys it says have stopped, and those that have become wider.
KeysOf(d, u) == {k \in Keys : Live(d, k) /\ d.keys[k].owner = u}
Stopped(d, w, u) == {k \in KeysOf(d, u) : Counts(u) /\ d.keys[k].space = w}
Widened(d, w, u) ==
    IF Counts(u) /\ SpacesOf(d, u) = {w} /\ SpaceModels(d, {w}) # Models
    THEN {k \in KeysOf(d, u) : d.keys[k].space = None} ELSE {}

Leave(a, w, u) ==
    /\ MayAsk /\ IsManager(a) /\ Owns(a, w) /\ IsMember(db, u, w)
    /\ Answered(a, "leave", [db EXCEPT !.members = @ \ {<<u, w>>}],
                Stopped(db, w, u) \cup Widened(db, w, u))

SetStatus(a, w, status) ==
    /\ MayAsk /\ IsManager(a) /\ w \in DOMAIN db.spaces /\ Owns(a, w)
    /\ db.spaces[w].status # status
    /\ Write(a, "set_workspace_status", [db EXCEPT !.spaces[w].status = status])

\* The models are replaced, and so are the bundles `G` and the defaults `D` of keys to come
\* unless they are left out (`None`).  The default models must be within what the workspace
\* will allow; nothing is asked of the default bundles.
SetSpaceModels(a, w, M, G, D) ==
    LET bundles == IF G = None THEN db.spaces[w].groups ELSE G
        defaults == IF D = None THEN db.spaces[w].defaults ELSE D
    IN
    /\ MayAsk /\ IsManager(a) /\ w \in DOMAIN db.spaces /\ Owns(a, w)
    /\ MayGrant(a, M)
    /\ G # None => /\ G \subseteq DOMAIN db.groups
                   /\ MayGrant(a, UNION {db.groups[g].models : g \in G})
    /\ D # None => D.models \subseteq M \cup GroupModels(db, bundles)
    /\ Write(a, "set_workspace_models",
             [db EXCEPT !.spaces[w] = [@ EXCEPT !.models = M, !.groups = bundles,
                                                !.defaults = defaults]])

\* Refused while it has members or keys that are not revoked.
DeleteSpace(a, w) ==
    /\ MayAsk /\ IsAdmin(a) /\ w \in DOMAIN db.spaces
    /\ \A u \in Users : ~IsMember(db, u, w)
    /\ \A k \in DOMAIN db.keys : db.keys[k].space = w => db.keys[k].revoked
    /\ Write(a, "delete_workspace",
             [db EXCEPT !.policies = Without(@, PoliciesOf(db, "workspace", {w})),
                        !.keys = [i \in DOMAIN @ |-> IF @[i].space = w /\ @[i].revoked
                                                     THEN [@[i] EXCEPT !.space = None] ELSE @[i]],
                        !.spaces = Without(@, {w})])

---------------------------------------------------------------------------
(* Keys *)

NextKey == CHOOSE i \in Keys : i \notin DOMAIN db.keys
RoomForRow == Keys \ DOMAIN db.keys # {}

\* _workspace_defaults: of the key's workspace, or of the only one its owner is in.
Home(u, w) == IF w # None THEN {w} ELSE IF Cardinality(SpacesOf(db, u)) = 1 THEN SpacesOf(db, u) ELSE {}
Defaults(u, w) ==
    LET home == Home(u, w) \cap DOMAIN db.spaces IN
    IF home = {} THEN Nothing ELSE db.spaces[CHOOSE h \in home : TRUE].defaults

\* create_api_key; the lists that were left out (`None`) start as the workspace's defaults.
IssueKey(a, u, w, M, G) ==
    LET filled == Defaults(u, w)
        key == [Key(u, w, IF M = None THEN filled.models ELSE M,
                          IF G = None THEN filled.groups ELSE G) EXCEPT !.filled = (G = None)]
    IN
    /\ MayAsk /\ RoomForRow /\ IsManager(a) /\ MayDecide(a, u, {}, FALSE)
    /\ u \in Visible(a)
    /\ w # None => /\ Owns(a, w) /\ w \in DOMAIN db.spaces
                   /\ Counts(u) => IsMember(db, u, w)
    /\ M # None => MayGrant(a, M)
    /\ G # None => /\ G \subseteq DOMAIN db.groups
                   /\ MayGrant(a, UNION {db.groups[g].models : g \in G})
    /\ MayDecide(a, u, {key}, FALSE)
    /\ Write(a, "create_api_key", [db EXCEPT !.keys = With(@, NextKey, key)])

\* amend_api_key: the list is replaced, an empty one lifts it.
AmendKey(a, i, M) ==
    LET k == db.keys[i] IN
    /\ MayAsk /\ IsManager(a) /\ i \in DOMAIN db.keys
    /\ k.owner \in Visible(a) /\ ~k.revoked /\ k.models # M
    /\ MayDecide(a, k.owner, {k}, Capped(db, i))
    /\ MayDecide(a, k.owner, {k, [k EXCEPT !.models = M]}, Capped(db, i))
    /\ MayGrant(a, M)
    /\ M = {} /\ k.models # {} => MayLift(a, k)
    /\ Write(a, "amend_api_key", [db EXCEPT !.keys[i].models = M])

ExtendKey(a, i) ==
    LET k == db.keys[i] IN
    /\ MayAsk /\ IsManager(a) /\ i \in DOMAIN db.keys
    /\ k.owner \in Visible(a) /\ ~k.revoked /\ k.lapsed
    /\ MayDecide(a, k.owner, {k}, Capped(db, i))
    /\ Write(a, "extend_api_key", [db EXCEPT !.keys[i].lapsed = FALSE])

RevokeKey(a, i) ==
    LET k == db.keys[i] IN
    /\ MayAsk /\ IsManager(a) /\ i \in DOMAIN db.keys
    /\ k.owner \in Visible(a) /\ ~k.revoked
    /\ MayDecide(a, k.owner, {k}, Capped(db, i))
    /\ Write(a, "revoke_api_key", [db EXCEPT !.keys[i].revoked = TRUE])

\* purge_api_key and purge_revoked_api_keys: the ceilings go with the keys.
PurgeKeys(a, I) ==
    /\ MayAsk /\ IsAdmin(a) /\ I # {} /\ \A i \in I : i \in DOMAIN db.keys /\ db.keys[i].revoked
    /\ Cardinality(I) > 1 => I = {i \in DOMAIN db.keys : db.keys[i].revoked}
    /\ Write(a, "purge_api_key",
             [db EXCEPT !.keys = Without(@, I), !.policies = Without(@, PoliciesOf(db, "key", I))])

\* create_my_key and revoke_my_key, from the console only.
Active(d, u) == {k \in DOMAIN d.keys : d.keys[k].owner = u /\ ~d.keys[k].revoked}

RoomForKey(u) == Cardinality(Active(db, u)) < KeyCap

IssueMine(a) ==
    /\ MayAsk /\ RoomForRow /\ a.key = None /\ RoomForKey(a.user)
    /\ Write(a, "create_my_key", [db EXCEPT !.keys = With(@, NextKey, Key(a.user, None, {}, {}))])

RevokeMine(a, i) ==
    /\ MayAsk /\ a.key = None /\ i \in DOMAIN db.keys
    /\ db.keys[i].owner = a.user /\ ~db.keys[i].revoked
    /\ Write(a, "revoke_my_key", [db EXCEPT !.keys[i].revoked = TRUE])

---------------------------------------------------------------------------
(* Quota policies *)

\* QuotaService.target_of
Target(p) == <<p.scope, p.at, p.group>>

\* _refuse_duplicate_policy
Duplicate(d, i, p) ==
    p.live /\ \E o \in DOMAIN d.policies \ {i} :
        d.policies[o].live /\ Target(d.policies[o]) = Target(p) /\ d.policies[o].window = p.window

\* What a policy may be set on; one on a key is not narrowed to a bundle.
Targets ==
    {<<"global", None, g>> : g \in {None} \cup Groups}
    \cup ({"workspace"} \X Spaces \X ({None} \cup Groups))
    \cup ({"key"} \X Keys \X {None})
\* _policy_target: what is named exists.
Exists(t) ==
    /\ t[1] = "workspace" => t[2] \in DOMAIN db.spaces
    /\ t[1] = "key" => t[2] \in DOMAIN db.keys
    /\ t[3] \in DOMAIN db.groups \cup {None}

CreatePolicy(a, i, t, window) ==
    LET p == Policy(t[1], t[2], t[3], window) IN
    /\ MayAsk /\ IsAdmin(a) /\ i \notin DOMAIN db.policies
    /\ Exists(t) /\ ~Duplicate(db, i, p)
    /\ Write(a, "create_quota_policy", [db EXCEPT !.policies = With(@, i, p)])

ComparedPolicy(i, col, value) == ~Duplicate(db, i, [db.policies[i] EXCEPT ![col] = value])

\* Another window, or other days: a policy that had run out is in force again.
UpdatePolicy(a, i, col, value) ==
    /\ MayAsk /\ IsAdmin(a) /\ i \in DOMAIN db.policies /\ db.policies[i][col] # value
    /\ ComparedPolicy(i, col, value)
    /\ Write(a, "update_quota_policy", [db EXCEPT !.policies[i][col] = value])

DeletePolicy(a, i) ==
    /\ MayAsk /\ IsAdmin(a) /\ i \in DOMAIN db.policies
    /\ Write(a, "delete_quota_policy", [db EXCEPT !.policies = Without(@, {i})])
---------------------------------------------------------------------------
(* The databases to start from: what the gateway can have left *)

Limits == [models : SUBSET Models, groups : SUBSET Groups]
SpaceRows == [status : {"active", "suspended"}, models : SUBSET Models, groups : SUBSET Groups,
              defaults : Limits]
GroupRows == [models : SUBSET Models, on : BOOLEAN]
KeyRows == [owner : Users, space : Spaces \cup {None}, models : SUBSET Models,
            groups : SUBSET Groups, revoked : BOOLEAN, lapsed : BOOLEAN, filled : BOOLEAN]
PolicyRows == [scope : {"global", "workspace", "key"}, at : Spaces \cup Keys \cup {None},
               group : Groups \cup {None}, window : Windows, live : BOOLEAN]

IsTable(rows, Ids, Rows) == DOMAIN rows \subseteq Ids /\ rows \in [DOMAIN rows -> Rows]

Typed(d) ==
    /\ d = [members |-> d.members, spaces |-> d.spaces, groups |-> d.groups,
            keys |-> d.keys, policies |-> d.policies]
    /\ d.members \subseteq Users \X Spaces
    /\ IsTable(d.spaces, Spaces, SpaceRows)
    /\ IsTable(d.groups, Groups, GroupRows)
    /\ IsTable(d.keys, Keys, KeyRows)
    /\ IsTable(d.policies, PolicyIds, PolicyRows)

\* A bundle that somebody named on a key that is not revoked exists.
BundlesExist(d) ==
    \A i \in DOMAIN d.keys :
        ~d.keys[i].revoked /\ ~d.keys[i].filled => d.keys[i].groups \subseteq DOMAIN d.groups

\* Of the policies in force none has the target and the window of another.
NoneHidden(d) == \A i \in DOMAIN d.policies : ~Duplicate(d, i, d.policies[i])

ASSUME AccessAssumption ==
    /\ Role \in [Users -> {"admin", "manager", "user"}]
    /\ Actors \subseteq [user : Users, key : Keys \cup {None}]
    /\ Lists \subseteq Limits
    /\ Grants \subseteq BOOLEAN /\ MaxChanges \in Nat
    /\ \A d \in Databases : Typed(d) /\ ForeignKeys(d) /\ BundlesExist(d) /\ NoneHidden(d)

Init ==
    /\ grants \in Grants
    /\ db \in Databases
    /\ last = [actor |-> None, doing |-> "nothing", told |-> {}]
    /\ changes = 0

Administer(a) ==
    \/ \E w \in Spaces : \/ CreateSpace(a, w) \/ DeleteSpace(a, w)
                         \/ \E status \in {"active", "suspended"} : SetStatus(a, w, status)
                         \/ \E U \in {Users} \cup {{u} : u \in Users} : AddMembers(a, w, U)
                         \/ \E u \in Users : Leave(a, w, u)
                         \/ \E l \in Lists : \E G \in {l.groups, None}, D \in {l, None} :
                               SetSpaceModels(a, w, l.models, G, D)
    \/ \E g \in Groups : \/ DeleteGroup(a, g)
                         \/ \E M \in SUBSET Models : CreateGroup(a, g, M) \/ UpdateGroup(a, g, "models", M)
                         \/ \E on \in BOOLEAN : UpdateGroup(a, g, "on", on)
    \/ \E i \in PolicyIds : \/ DeletePolicy(a, i)
                            \/ UpdatePolicy(a, i, "live", TRUE)
                            \/ \E v \in Windows : \/ UpdatePolicy(a, i, "window", v)
                                                  \/ \E t \in Targets : CreatePolicy(a, i, t, v)

ManageKeys(a) ==
    \/ \E i \in Keys : \/ ExtendKey(a, i) \/ RevokeKey(a, i) \/ RevokeMine(a, i)
                       \/ \E l \in Lists : AmendKey(a, i, l.models)
    \/ \E I \in SUBSET Keys : PurgeKeys(a, I)
    \/ IssueMine(a)
    \/ \E u \in Users, w \in {None} \cup Spaces :
          IssueKey(a, u, w, None, None) \/ \E l \in Lists : IssueKey(a, u, w, l.models, l.groups)

Next ==
    \/ Lapse
    \/ \E a \in Actors : Administer(a) \/ ManageKeys(a)

Spec == Init /\ [][Next]_vars

---------------------------------------------------------------------------
TypeOK == grants \in Grants /\ changes \in 0..MaxChanges /\ Typed(db)

\* Whatever is handed out, taken back, deleted or purged in any order, nothing refers to a row
\* that has gone, a bundle named on a key that expired and can come back included.  The
\* bundles that a workspace's defaults wrote on a key are another matter.
ReferencesKept == ForeignKeys(db) /\ BundlesExist(db)

\* set_workspace_models: a default outside what the workspace allows makes keys that can call
\* nothing, and the check there "is what keeps them from contradicting".
DefaultsWithinReach ==
    \A w \in DOMAIN db.spaces :
        db.spaces[w].defaults.models \subseteq db.spaces[w].models \cup GroupModels(db, db.spaces[w].groups)

\* Every step that only takes things away - members, models, bundles, switches, lists made
\* shorter, keys ended - leaves no key with more than it had, but for the key of somebody
\* taken out of their last workspace.
TakesAway(d, e) ==
    /\ e.members \subseteq d.members
    /\ DOMAIN e.spaces \subseteq DOMAIN d.spaces
    /\ \A w \in DOMAIN e.spaces : /\ e.spaces[w].models \subseteq d.spaces[w].models
                                  /\ e.spaces[w].groups \subseteq d.spaces[w].groups
                                  /\ e.spaces[w].status = "active" => d.spaces[w].status = "active"
    /\ DOMAIN e.groups \subseteq DOMAIN d.groups
    /\ \A g \in DOMAIN e.groups : /\ e.groups[g].models \subseteq d.groups[g].models
                                  /\ e.groups[g].on => d.groups[g].on
    /\ DOMAIN e.keys \subseteq DOMAIN d.keys
    /\ \A i \in DOMAIN e.keys :
          Live(e, i) => /\ Live(d, i)
                        /\ \/ e.keys[i] = d.keys[i]
                           \/ /\ e.keys[i].models # {}
                              /\ \/ e.keys[i].models \subseteq d.keys[i].models
                                 \/ d.keys[i].models = {} /\ d.keys[i].groups = {}
TakingAwayNeverWidens ==
    [][db' # db /\ TakesAway(db, db') =>
         \A i \in DOMAIN db'.keys :
            \/ Reach(db', i) \subseteq Reach(db, i)
            \/ db.keys[i].space = None /\ SpacesOf(db', db.keys[i].owner) = {}]_vars

\* The last step was a request of this actor, who was not an administrator.
ByManager(a) == db' # db /\ a # None /\ ~IsAdmin(a)

\* A manager hands out, through a key or a workspace, no model they cannot call themselves.
GrantsWithinReach ==
    [][LET a == last'.actor IN
         ByManager(a) /\ last'.doing \in {"amend_api_key", "set_workspace_models"}
         => \A i \in DOMAIN db'.keys : Reach(db', i) \ Reach(db, i) \subseteq Own(db, a)]_vars

\* The rights that a manager's or an administrator's key carries come and go by the hand of its
\* owner or of an administrator.
RightsAreTheOwners ==
    [][LET a == last'.actor IN
         ByManager(a)
         => \A i \in DOMAIN db'.keys :
               db'.keys[i].owner # a.user => CarriesRights(db', i) = CarriesRights(db, i)]_vars

\* Taking somebody out of a workspace names every key that stops and every key that widens.
LeaveTells ==
    [][db' # db /\ last'.doing = "leave"
         => \A i \in DOMAIN db'.keys :
               \/ i \in last'.told
               \/ /\ Reach(db', i) \subseteq Reach(db, i)
                  /\ db.keys[i].space # None => Reach(db', i) = Reach(db, i)]_vars

\* Of the policies in force, no two have the same target and window.
OneLivePolicy == NoneHidden(db)

\* What a row refers to exists, and of two policies in force none hides the other.
RowsConsistent == TypeOK /\ ReferencesKept /\ OneLivePolicy

\* No key gains by what only takes away, and who takes somebody out of a workspace is told
\* of every key that stops or widens.
NothingWidensUnseen == TakingAwayNeverWidens /\ LeaveTells

\* Managers stay within their bounds: they hand out what they can call themselves, and the
\* rights of others are not theirs to give or take.
ManagersStayWithin == GrantsWithinReach /\ RightsAreTheOwners

=============================================================================
