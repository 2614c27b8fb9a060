CONSTANTS
    Numbers = {0, 1, 2, 3}
    MaxVersion = 2
    Labels = {a, b}
    Sources = {s, t}
    MaxFiles = 2
    MaxEdits = 1
SPECIFICATION Spec
SYMMETRY Symmetry
INVARIANTS
    HistoryIsPrefix
    CompletedIsThePlan
    NothingOnCorruptHistory
    RetryIsAccepted
