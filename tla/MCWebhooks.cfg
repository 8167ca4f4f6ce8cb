SPECIFICATION FairSpec
CONSTANTS
    h1 = h1
    o1 = o1
    o2 = o2
    Events = {"auth.reset"}
    AuthEvents = {"auth.reset"}
    Hooks = {h1}
    TopicLists = {{}, {"auth"}}
    Operators = {o1, o2}
    Retention = 0
    MaxDay = 1
    MaxConfigs = 3
    MaxFaults = 1
    MaxResends = 2
    MaxCrashes = 1
INVARIANTS NoSilentLoss DuplicatesAccounted ResolvedMeansHandled
PROPERTIES DeliverySettles
CHECK_DEADLOCK FALSE
