\* Three frames of five, four and six bytes, cut anywhere.
SPECIFICATION Spec
CONSTANTS
    r1 = r1
    r2 = r2
    r3 = r3
    Requests <- MCRequests
    PayloadOf <- MCPayloadOf
    Kinds = {"rpc", "ping", "shutdown", "refused", "badPayload", "malformed"}
INVARIANTS FramesAreExact AnswersAreOwn MetricsAreHonest
 
CHECK_DEADLOCK FALSE
