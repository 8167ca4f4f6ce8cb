SPECIFICATION Spec
CONSTANTS
    u1 = u1
    u2 = u2
    k1 = k1
    k2 = k2
    i1 = i1
    p1 = p1
    p2 = p2
    Elsewhere = Elsewhere
    Uploads = {u1, u2}
    Keys = {k1, k2}
    KeyOf <- TwoKeys
    Size <- Unit
    Instances = {i1}
    Writer = i1
    Visibilities = {"public"}
    Requests = {p1}
    Budget = 1
    MaxObject = 1
    Batch = 2
    SerialDeletes = TRUE
    Faults = {"unlink", "scan"}
    MaxDownloads = 1
    MaxDeletes = 1
    MaxFaults = 1
    MaxRestarts = 1
    MaxToggles = 0
INVARIANTS Accounted DiskWithinBudget
CHECK_DEADLOCK FALSE
