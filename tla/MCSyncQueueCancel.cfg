CONSTANTS
    File = {f1, f2}
    Python = {}
    NoOwner = NoOwner
    MaxEdits = 2
    MaxOutages = 1
    MaxFailures = 0
SPECIFICATION Spec
INVARIANTS
    UnchangedMeansCurrent
