\* Two events, two service processes: batches of up to two events, published one at a time.
CONSTANTS
    Events = {1, 2}
    Procs = {p1, p2}
    BatchSize = 2
    Concurrency = 1
    MaxOverruns = 1
    MaxCrashes = 1
    MaxPublishes = 2
SPECIFICATION Spec
SYMMETRY ProcSymmetry
INVARIANTS IInv ExclusiveClaim DuplicatesExplained
PROPERTIES ReopenedOnlyAfterOverrun ImplementsRelay
CHECK_DEADLOCK FALSE
