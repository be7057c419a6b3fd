SPECIFICATION Spec
CONSTANTS
    run1 = run1  run2 = run2  run3 = run3  run4 = run4
    None = None
    Procs = {run1, run2, run3, run4}
    Trays = {run1, run2}
    Killed = {run4}
    UnlinkOpen = FALSE
    Mishaps = {"race", "launch", "create", "write"}
SYMMETRY Symmetry
INVARIANTS
    TypeOK
    HolderOwnsFile
    OneRuns
    SomeoneWins
PROPERTY
    RefusedForCause
CHECK_DEADLOCK FALSE
