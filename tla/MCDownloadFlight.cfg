SPECIFICATION FairSpec
CONSTANTS
    Requests = {q1, q2, q3}
    Keys = {k1}
    Limits = {1, 2}
    MaxRounds = 1
    MaxArrivals = 1
    MaxChanges = 1
    MaxEvictions = 1
    None = None
CHECK_DEADLOCK FALSE
INVARIANTS SlotsBounded OneFill
PROPERTIES Answered
