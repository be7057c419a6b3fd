SPECIFICATION FairSpec
CONSTANTS
    p1 = p1  p2 = p2
    c1 = c1  c2 = c2
    None = None
    Paths = {p1}
    Contents = {c1, c2}
    MaxAttempts = 2
    MaxChurn = 1
    Faults = {"read", "record", "scan", "observer", "crash"}
    MaxWrites = 2
    MaxTroubles = 2
    MaxStarts = 2
INVARIANTS
    TypeOK
    UploadedIsArchived
    QuietMeansShipped
PROPERTIES
    EventuallyShipped
    WorkerObeysStop
    NeverForgotten
CHECK_DEADLOCK FALSE
