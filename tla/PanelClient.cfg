SPECIFICATION Spec
CONSTANTS
    None = None
    Error = Error
    NotModified = NotModified
    Panic = Panic
    Again = Again
    Uint32 = 8
    Kinds <- AllKinds
    Cfgs <- SomeCfgs
    Nodes <- AllNodes
    FirstNodes <- GoodNodes
    Limits = {2}
    Dues <- SomeDues
    MaxDevices = 2
    MaxEdits = 1
    MaxFaults = 1
INVARIANTS
    TypeOK
    StaleOnlyIfDropped
    DeathHasCause
    OneRacerLost
PROPERTIES
    NilMeansBooked
    NoOvergrant
    LeavesForCause
CHECK_DEADLOCK FALSE
