\* Condvar::Signal wakes the longest waiter; two batches' worth of items.
CONSTANTS
    Clients = {c1, c2}
    Worker = worker
    Owner = owner
    NoThread = none
    NoFlush = noflush
    MaxBatchSize = 1
    MaxPushes = 2
    FifoWake = TRUE
SPECIFICATION FairSpec
INVARIANTS
    WorkerAwake
PROPERTIES
    ImplementsChannel
    DestructorReturns
