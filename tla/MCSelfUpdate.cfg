SPECIFICATION FairSpec
CONSTANTS
    m1 = m1  m2 = m2  loop = loop
    None = None
    Corrupt = Corrupt
    Manual = {m1, m2}
    Scheduled = loop
    MaxVersion = 2
    Platforms = {"win32", "linux"}
    Faults = {"network", "corrupt", "unlink"}
    MaxFaults = 1
    MaxStarts = 1
INVARIANTS
    TypeOK
    StagedIsGenuine
    FailedIsNotStaged
PROPERTIES
    
    RestartIsUpgrade
    ManualTries
    FailedNeedsClick
CHECK_DEADLOCK FALSE
