CONSTANTS
    W <- MCW
    Jobs <- MCJobs
SPECIFICATION Spec
INVARIANTS TypeOK TrustsNoOther TrustsAll
