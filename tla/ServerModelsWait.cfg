SPECIFICATION FairSpec
CONSTANTS
    Models = {m1, m2}
    Clients = {c1, c2}
    ModelsMax = 1
    Autoload = {m1}
    NoModel = NoModel
    MaxRequests = 2
    MaxCrashes = 1
PROPERTY WaitReturns
CHECK_DEADLOCK FALSE
