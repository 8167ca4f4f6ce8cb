SPECIFICATION Spec
CONSTANTS
    w1 = w1
    w2 = w2
    Writers = {w1, w2}
    Contents = {"info", "error"}
    Everything = "all"
    Filters = {"all", "error"}
    ExportMaxRows = 2
    NoOne = NoOne
    Legacy = 1
    Limit = 1
    MaxRows = 2
    MaxTampers = 1
    MaxFaults = 1
    MaxChecks = 1
INVARIANTS NoFalseAlarm TrustedPrefix AnchorVouches WalkComplete
PROPERTIES NoPayForStored
CONSTRAINT OneAtATime
CHECK_DEADLOCK FALSE
