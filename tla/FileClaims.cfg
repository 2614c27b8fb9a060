CONSTANTS
    Registrations = {r1, r2}
    Paths = {p1, p2}
    Files = {f1, f2, f3}
    MaxMoves = 3
    None = None
SPECIFICATION Spec
INVARIANTS
    OneOwnerPerFile
