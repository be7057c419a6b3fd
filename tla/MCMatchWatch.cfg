SPECIFICATION Spec
CONSTANTS
    p1 = p1  p2 = p2
    rival = rival
    None = None
    Paths = {p1, p2}
    Names = {rival}
    Contents <- MCContents
    Debounce = 2
    MaxTime = 4
    MaxWrites = 3
INVARIANTS
    TypeOK
    QuietMeansReported
    ReadAtMostTwice
CHECK_DEADLOCK FALSE
