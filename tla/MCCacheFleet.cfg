SPECIFICATION Spec
CONSTANTS
    u1 = u1
    u2 = u2
    k1 = k1
    k2 = k2
    i1 = i1
    p1 = p1
    p2 = p2
    Elsewhere = Elsewhere
    Uploads = {u1}
    Keys = {k1}
    KeyOf <- OneKey
    Size <- Unit
    Instances = {i1}
    Writer = i1
    Visibilities = {"public"}
    Requests = {p1, p2}
    Budget = 2
    MaxObject = 1
    Batch = 2
    SerialDeletes = TRUE
    Faults = {"unlink", "sweepRead"}
    MaxDownloads = 2
    MaxDeletes = 1
    MaxFaults = 2
    MaxRestarts = 1
    MaxToggles = 0
SYMMETRY RequestSymmetry
INVARIANTS PurgeOwed DeletionShreds
PROPERTIES EvictionSparesFresh
CHECK_DEADLOCK FALSE
