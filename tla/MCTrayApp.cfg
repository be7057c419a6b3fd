SPECIFICATION FairSpec
CONSTANTS
    t1 = t1  t2 = t2  d1 = d1
    None = None
    Broken = Broken
    Tokens = {t1, t2}
    Dirs = {d1}
    Faults = {"save", "watch"}
    MaxEdits = 1
    MaxStarts = 2
    MaxBuilt = 1
    MaxTroubles = 1
CONSTRAINT OverlapOnce
INVARIANTS
    TypeOK
    WatchersAreOwned
    SendersAreOwned
    CopiesAgree
PROPERTIES
    TokenIsKept
    RevocationShows
    ConnectsAgain
CHECK_DEADLOCK FALSE
