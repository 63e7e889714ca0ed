\* One service process and batches of one event, under fairness.
CONSTANTS
    Events = {1, 2}
    Procs = {p1}
    BatchSize = 1
    Concurrency = 1
    MaxOverruns = 1
    MaxCrashes = 1
    MaxPublishes = 1
SPECIFICATION FairSpec
PROPERTIES EventuallyPublished
CHECK_DEADLOCK FALSE
