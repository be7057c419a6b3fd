SPECIFICATION Spec
CONSTANTS
    p1 = p1
    c1 = c1  c2 = c2
    r1 = r1  r2 = r2  r3 = r3
    desktop = desktop
    alice = alice
    None = None
    Paths = {p1}
    MaxAttempts = 2
    MaxChurn = 1
    Faults = {"crash"}
    MaxWrites = 1
    MaxTroubles = 1
    MaxStarts = 2
    Requests = {r1, r2}
    Agents = {desktop}
    Users = {alice}
    OwnerOf <- MCOwnerOf
    Months = {"2026-04", "2026-05"}
    FileTypes = {"dat"}
    CommitFaults = {"unheard"}
    MaxCrashes = 1
    Contents = {c1, c2}
    SizeOf <- MCSizeOf
    Self = desktop
    MonthOf <- MCMonthOf
    FileType = "dat"
CONSTRAINTS OneDies C1First
SYMMETRY Symmetry
INVARIANT
    RecordedIsStored
PROPERTY
    ShipperSpec
CHECK_DEADLOCK FALSE
