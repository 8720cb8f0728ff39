\* Liveness and the refinement of CallService, without symmetry: three calls,
\* a transport that succeeds or fails, hangs or panics.
SPECIFICATION Spec
CONSTANTS
    c1 = c1
    c2 = c2
    c3 = c3
    Calls = {c1, c2, c3}
    NoCall = NoCall
    MaxQueueDepth = 1
    RequestTimeout = 1
    FailureThreshold = 1
    ResetTimeout = 1
    TransportKinds = {"RpcResponse", "Err"}
    MayMisaddress = FALSE
    MayPanic = TRUE
PROPERTIES ServiceHolds ProbeIsSettled
CHECK_DEADLOCK FALSE
