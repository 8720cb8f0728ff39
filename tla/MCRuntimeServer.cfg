\* An Init, two calls and a frame that has no handler; one thread in the pool.
SPECIFICATION Spec
CONSTANTS
    Inits = {i1}
    Calls = {c1, c2}
    Unhandled = {u}
    NoRequest = NoRequest
    Workers = {w1}
    HasTimeout = TRUE
    Pipelining = TRUE
INVARIANTS TypeOK ConfigWasAccepted
PROPERTIES ServiceIsSafe EveryRequestIsAnswered
CHECK_DEADLOCK FALSE
