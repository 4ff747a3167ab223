CONSTANTS
    Jobs <- MCJobs
    MaxParts = 3
    Sources <- MCSources
    Commands <- MCCommands
    MaxEdits = 2
SPECIFICATION Spec
INVARIANTS BuildTypeOK BuiltIsNew ListsAreFresh KitIsOfOneKernel
PROPERTY ArchivesAreFinal
