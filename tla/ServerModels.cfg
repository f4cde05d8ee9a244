SPECIFICATION FairSpec
CONSTANTS
    Models = {m1, m2}
    Clients = {c1, c2}
    ModelsMax = 1
    NoModel = NoModel
    Autoload = {m1}
    MaxRequests = 2
    MaxCrashes = 1
INVARIANTS TypeOK StatusIsTrue LimitKept
PROPERTIES StateDiagram RequestsEnd
CHECK_DEADLOCK FALSE
