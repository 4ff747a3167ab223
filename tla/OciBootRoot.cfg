SPECIFICATION Spec
CONSTANTS
    Requests <- BootRequests
INVARIANT
    BootLayerIsTheRoot
