SPECIFICATION Spec
CONSTANTS
    Sizes <- MCSizes
INVARIANTS
    LargeTreesFit
    SuccessFits
