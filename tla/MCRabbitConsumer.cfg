\* The direct topology (notification queue): two messages, two workers, under fairness.
CONSTANTS
    Messages = {m1, m2}
    Workers = {w1, w2}
    MaxRetry = 2
    Prefetch = 2
    Topology = "direct"
    MaxInterruptions = 2
    NoMessage = NoMessage
SPECIFICATION FairSpec
INVARIANTS ConsumerInv NoMessageLost OnceWithoutInterruption
PROPERTIES EventuallySettled
CHECK_DEADLOCK FALSE
