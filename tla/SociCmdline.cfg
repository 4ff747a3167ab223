CONSTANTS
    Unset = Unset
    UnsafeKeys <- MCUnsafeKeys
    Inputs <- MCInputs
SPECIFICATION Spec
INVARIANTS
    ComputesSetVars
    OrderIsNotImportant
