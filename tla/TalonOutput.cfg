\* A recipe that writes two pieces and ends: talon reads one after the hang-up.
CONSTANTS
    t1 = t1
    t2 = t2
    Talons <- MCTalons
    Scripts <- MCLongOutput
    Options <- MCOptions
    MaxRetries = 1
    BlockSize = 2
    PipeSize = 2
    NoSema = NoSema
SPECIFICATION Spec
INVARIANT
    OutputComplete
