\* Safety: three calls against a queue of one, two failures open the breaker.
SPECIFICATION SafeSpec
CONSTANTS
    c1 = c1
    c2 = c2
    c3 = c3
    Calls = {c1, c2, c3}
    NoCall = NoCall
    MaxQueueDepth = 1
    RequestTimeout = 1
    FailureThreshold = 2
    ResetTimeout = 1
    TransportKinds = {"RpcResponse", "Error", "OtherMessage", "Err"}
    MayMisaddress = TRUE
    MayPanic = TRUE
SYMMETRY CallSymmetry
INVARIANTS TypeOK ProbeHasOwner NoCallIsLost OwnAnswer FailuresAreRecorded
CHECK_DEADLOCK FALSE
