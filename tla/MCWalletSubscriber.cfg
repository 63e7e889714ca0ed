\* One registration published twice, two workers, deliveries taken back twice.
CONSTANTS
    m1 = m1
    m2 = m2
    u1 = u1
    Messages = {m1, m2}
    Users = {u1}
    Events = {u1}
    UserOf <- MCUserOf
    Workers = {w1, w2}
    MaxRedeliveries = 2
    NoMessage = NoMessage
    NoWorker = NoWorker
SPECIFICATION Spec
SYMMETRY WorkerSymmetry
INVARIANTS WalletIInv MissingWalletExplained
PROPERTIES CompletedIsFinal
CHECK_DEADLOCK FALSE
