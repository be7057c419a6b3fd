SPECIFICATION Spec
CONSTANTS
    r1 = r1  r2 = r2  r3 = r3
    desktop = desktop  phone = phone
    alice = alice  bob = bob
    c1 = c1  c2 = c2
    None = None
    Requests = {r1, r2}
    Agents = {desktop}
    Users = {alice}
    OwnerOf <- MCOneUser
    Contents = {c1}
    SizeOf <- MCOneSize
    Months = {"2026-04"}
    FileTypes = {"dat"}
    CommitFaults = {"refused"}
    MaxCrashes = 0
INVARIANT
    RemovedFileIsOrphan
CHECK_DEADLOCK FALSE
