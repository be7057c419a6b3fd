SPECIFICATION Spec
CONSTANTS
    m1 = m1  m2 = m2  loop = loop
    None = None
    Corrupt = Corrupt
    Manual = {}
    Scheduled = loop
    MaxVersion = 2
    Platforms = {"win32"}
    Faults = {"corrupt"}
    MaxFaults = 1
    MaxStarts = 0
INVARIANT
    OnlyVerifiedRuns
