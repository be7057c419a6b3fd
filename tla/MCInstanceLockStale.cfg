SPECIFICATION Spec
CONSTANTS
    run1 = run1  run2 = run2  run3 = run3  run4 = run4
    None = None
    Procs = {run1, run2, run4}
    Trays = {}
    Killed = {run4}
    UnlinkOpen = FALSE
    Mishaps = {"race"}
INVARIANT
    TakenOverOnce
CHECK_DEADLOCK FALSE
