\* Two talons, one retry; the semaphore may not exist and waits may time out.
CONSTANTS
    t1 = t1
    t2 = t2
    Talons <- MCTalons
    Scripts <- MCScripts
    Options <- MCOptions
    MaxRetries = 1
    BlockSize = 2
    PipeSize = 1
    NoSema = NoSema
SPECIFICATION Spec
INVARIANTS
    TypeOK
    Unscrambled
    LogTellsAttempts
    ExitMatchesStatus
PROPERTY
    TalonsEnd
