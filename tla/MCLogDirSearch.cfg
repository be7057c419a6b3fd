SPECIFICATION Spec
CONSTANTS
    Pending = Pending
    None = None
    Disks <- MCDisks
    MaxDepths = {0, 1, 2, 3}
    MaxDirs = {0, 1, 2, 3, 4}
INVARIANTS
    TypeOK
    SearchFindsFirst
CHECK_DEADLOCK FALSE
