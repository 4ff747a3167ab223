CONSTANTS
    GzNames <- MCGzNames
    Jobs <- MCJobs
SPECIFICATION Spec
INVARIANTS TypeOK OthersAreUntouched
PROPERTIES CommandsAreAtomic SuccessFindsItsInput
