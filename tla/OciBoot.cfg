SPECIFICATION Spec
CONSTANTS
    Requests <- AllRequests
INVARIANTS
    TypeOK
    OnlyKnownLeaks
    MountIsUndone
    KitIsItsOverlay
    ImageAsRequested
    ShimBootFindsItsFiles
    LayersReadBack
    CommandLineFitsImage
PROPERTIES
    OutputIsWrittenLast
    KeepsPublishPromise
