\* Every service, two publishers, a lost connection and a lost channel.
CONSTANTS
    Services = {"auth", "wallet", "notification", "docs"}
    Batch = batch
    Request = request
    Callers = {batch, request}
    Channels = {c1, c2, c3}
    NoChannel = NoChannel
    MaxLosses = 1
    MaxExceptions = 1
SPECIFICATION FairSpec
INVARIANTS LifecycleIInv OneMessagePerPublish ClosedIsFinal LeakBounded CrashHasCause ConsumerMatchesLifecycle
PROPERTIES ShutdownEnds PublisherHeals
CHECK_DEADLOCK FALSE
