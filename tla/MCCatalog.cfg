SPECIFICATION Spec
CONSTANTS
    c1 = c1  c2 = c2  u1 = u1  u2 = u2  g1 = g1  d1 = d1  f1 = f1  f2 = f2
    none = none  k1 = k1  k2 = k2  a = a  b = b  w1 = w1  w2 = w2  q1 = q1  q2 = q2
    t1 = t1  t2 = t2  col1 = col1
    Clients = {c1, c2}
    Users = {u1, u2}
    Groups = {g1}
    Departments = {d1}
    Member <- OneGroup
    Files = {f1, f2}
    Kinds <- TwoKinds
    None = none
    QuotaIds = {q1, q2}
    Limits = {3, 4}
    Wallets = {w1, w2}
    MaxQueued = 2
    Budgets <- Scenes
    Attrs = {t1, t2}
    Keys = {k1, k2}
    Vals = {a, b}
    RuleIds = {1}
    Priorities = {1}
    Colls = {col1}
    TagChoices <- SomeTags
    BulkChoices <- TwoBulks
    Selectors <- OneSelector
SYMMETRY ClientSymmetry
CHECK_DEADLOCK FALSE
INVARIANTS QuotaHolds UserTagsSurvive OneDefaultWallet
