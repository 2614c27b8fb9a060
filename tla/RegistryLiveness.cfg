CONSTANTS
    Names = {1, 2}
    Clients = {c1}
    MaxOperations = 1
    MaxActive = 1
    Shutdown = Shutdown
    None = None
SPECIFICATION FairSpec
CHECK_DEADLOCK FALSE
PROPERTY CallersReturn
