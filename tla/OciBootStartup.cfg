SPECIFICATION Spec
CONSTANTS
    Requests <- KernelRequests
INVARIANT
    StartupFindsItsFiles
