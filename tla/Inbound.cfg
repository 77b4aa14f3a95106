SPECIFICATION Spec
CONSTANTS
    None = None
    Error = Error
    NotModified = NotModified
    Panic = Panic
    Again = Again
    Uint32 = 8
    Kinds <- AllKinds
    Cfgs <- AllCfgs
    Locals <- SomeLocals
    Nodes <- SomeNodes
    MaxEdits = 1
INVARIANTS
    TypeOK
    ClearOnlyForCause
    AccountsMatchInbound
    AccountsJoin
    CrashHasCause
    RenewedUnlessLate
CHECK_DEADLOCK FALSE
