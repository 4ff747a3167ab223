CONSTANTS
    None = None
    UnsafeKeys <- MCUnsafeKeys
    Machines <- AllMachines
    RdRetry = 2
SPECIFICATION FairSpec
INVARIANTS
    TypeOK
    FinishedMeansReady
    PcrDiscipline
    MountedOnce
    NotOursIsUntouched
PROPERTIES
    LaterPassesDoNothing
    KeepsHandoverPromise
    BootEnds
    LateDeviceIsPickedUp
