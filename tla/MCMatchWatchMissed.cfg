SPECIFICATION FairSpec
CONSTANTS
    p1 = p1  p2 = p2
    rival = rival
    None = None
    Paths = {p1}
    Names = {rival}
    Contents <- MCContents
    Debounce = 2
    MaxTime = 3
    MaxWrites = 1
PROPERTY
    ChangeIsParsed
CHECK_DEADLOCK FALSE
