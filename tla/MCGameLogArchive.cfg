SPECIFICATION Spec
CONSTANTS
    r1 = r1  r2 = r2  r3 = r3
    desktop = desktop  phone = phone
    alice = alice  bob = bob
    c1 = c1  c2 = c2
    None = None
    Requests = {r1, r2}
    Agents = {desktop, phone}
    Users = {alice, bob}
    OwnerOf <- MCTwoUsers
    Contents = {c1, c2}
    SizeOf <- MCSizeOf
    Months = {"2026-04", "2026-05"}
    FileTypes = {"dat"}
    CommitFaults = {"refused", "unheard"}
    MaxCrashes = 1
SYMMETRY Symmetry
INVARIANTS
    TypeOK
    RowHasFile
    SuccessIsSeen
    DeviceIsOwners
    OneRowPerSha
    AnswersAgree
    OrphansExplained
PROPERTY
    Contract
CHECK_DEADLOCK FALSE
