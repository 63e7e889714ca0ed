\* The topic topology (the wallet service's user queue).
CONSTANTS
    Messages = {m1}
    Workers = {w1}
    MaxRetry = 3
    Prefetch = 10
    Topology = "topic"
    MaxInterruptions = 0
    NoMessage = NoMessage
SPECIFICATION Spec
INVARIANTS NoMessageLost
CHECK_DEADLOCK FALSE
