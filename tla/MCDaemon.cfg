SPECIFICATION FairSpec
CONSTANTS
    c1 = c1
    MaxRestarts = 3
    Threshold = 3
    Checks = {c1}
    External = External
    None = None
    MaxChanges = 4
    MaxBoots = 2
    MaxFaults = 1
INVARIANTS StopLeavesNoDaemon
PROPERTIES StopReturns GateFollows
CHECK_DEADLOCK FALSE
