CONSTANTS
    Turso = Turso
    Connections = {pg}
    Limits = {l1, l2}
    Versions = {1, 2}
    Requests = {r1}
    None = None
SPECIFICATION Spec
SYMMETRY Symmetry
INVARIANTS
    ServiceIsCoherent
    SchemaIsStableForRequests
    PartialBatchIsNotServed
    BlockerCoversMigration
    RecordMirrorsDisk
    DataBeforeRecord
    FailureKeepsService
    SuccessIsDurable
    ProgressIsTruthful
    ClosedIsQuiet
PROPERTIES
    RecreatedDataIsRefused
    ForwardOnly
    ImplementsService
