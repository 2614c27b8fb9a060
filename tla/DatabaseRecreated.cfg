CONSTANTS
    Turso = Turso
    Connections = {pg}
    Limits = {l}
    Versions = {1}
    Requests = {r1}
    None = None
SPECIFICATION FairSpec
PROPERTY NeverRecreateData
