CONSTANTS
    None = None
    UnsafeKeys <- MCUnsafeKeys
    Machines <- LateMachines
    RdRetry = 1
SPECIFICATION Spec
INVARIANT
    ExtendedAsAnnounced
