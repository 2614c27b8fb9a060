CONSTANTS
    Turso = Turso
    Connections = {pg}
    Limits = {l}
    Versions = {1}
    Requests = {r1, r2}
    None = None
SPECIFICATION FairSpec
PROPERTIES
    OperationsEnd
