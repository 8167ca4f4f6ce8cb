SPECIFICATION MCSpec
CONSTANTS
    Users = {u1, u2, u3}
    e2 = e2
    Emails = {e1, e2}
    AdminEmail = e1
    Subjects = {s1, s2}
    Providers = {p1}
    EmailOf <- MCEmailOf
    Groups = {g1}
    Tokens = {t1}
    Links = {x1}
    Clients = {c1, c2}
    Replicas = {r1, r2}
    RequestSets <- MCRequestSets
    None = None
    MaxOps = 3
    MaxTime = 1
    MaxBootCrashes = 1
    MaxFaults = 1
SYMMETRY MCSymmetry
INVARIANTS SeedsOneAdmin LoginHolds AutoRevocation NeverLinkedByEmail DeletionDropsIdentities
CHECK_DEADLOCK FALSE
