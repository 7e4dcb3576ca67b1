\* The same with one property: what set_workspace_models says of its defaults.
CONSTANTS
    root = root
    ann = ann
    ben = ben
    sam = sam
    w1 = w1
    w2 = w2
    g = g
    m1 = m1
    m2 = m2
    k1 = k1
    k2 = k2
    k3 = k3
    p1 = p1
    p2 = p2
    None = None
    Users = {root, ann, ben, sam}
    Spaces = {w1, w2}
    Groups = {g}
    Models = {m1, m2}
    Keys = {k1, k2, k3}
    PolicyIds = {p1, p2}
    Role <- Roles
    Actors <- Askers
    Databases <- Three
    Grants = {TRUE}
    Lists <- Sent
    KeyCap = 1
    MaxChanges = 3
SPECIFICATION Spec
INVARIANTS DefaultsWithinReach

CHECK_DEADLOCK FALSE
