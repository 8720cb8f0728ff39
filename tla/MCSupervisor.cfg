\* A threshold of two; handles that notice the exit of a process and the one that
\* does not.
SPECIFICATION Spec
CONSTANTS
    Handles = {"child", "watched"}
    MaxCount = 3
    FailureThreshold = 2
    ResetTimeout = 2
INVARIANTS TypeOK OpenIsReported
PROPERTIES ClosesWithRuntime OnlySlotOrChildBlocksRestarts
