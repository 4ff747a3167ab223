CONSTANTS
    Jobs <- ByHand
    MaxParts = 3
    Sources <- MCSources
    Commands <- MCCommands
    MaxEdits = 2
SPECIFICATION Spec
INVARIANT SuccessIsComplete
