SPECIFICATION FairSpec
CONSTANTS
    u1 = u1
    u2 = u2
    k1 = k1
    k2 = k2
    i1 = i1
    p1 = p1
    p2 = p2
    Elsewhere = Elsewhere
    Uploads = {u1}
    Keys = {k1}
    KeyOf <- OneKey
    Size <- Unit
    Instances = {i1}
    Writer = i1
    Visibilities = {"private"}
    Requests = {p1}
    Budget = 2
    MaxObject = 1
    Batch = 2
    SerialDeletes = TRUE
    Faults = {"unlink", "sweepRead", "verifyRead", "prune"}
    MaxDownloads = 1
    MaxDeletes = 1
    MaxFaults = 1
    MaxRestarts = 0
    MaxToggles = 2
PROPERTIES Erased OptOutErases DisabledDrains
CHECK_DEADLOCK FALSE
