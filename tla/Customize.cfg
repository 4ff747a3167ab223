CONSTANTS
    GzNames <- MCGzNames
    Inputs <- MCInputs
    Jobs <- MCJobs
SPECIFICATION Spec
INVARIANTS ChainOfTrust ArtifactsAsDocumented OnlyTheTarIsLeft
PROPERTIES SignedIsFinal KeepsPublishPromise
