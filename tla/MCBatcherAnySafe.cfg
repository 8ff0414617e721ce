\* Condvar::Signal wakes any waiter; a batch is smaller than the queue may get.
CONSTANTS
    Clients = {c1, c2, c3}
    Worker = worker
    Owner = owner
    NoThread = none
    NoFlush = noflush
    MaxBatchSize = 2
    MaxPushes = 1
    FifoWake = FALSE
SYMMETRY Symmetry
SPECIFICATION Spec
INVARIANTS
    TypeOK
    Delivery
    BatchLimit
    FlushersAwake
    DrainedWhenDestroyed
    IInv
PROPERTIES
    FlushBarrier
    ImplementsChannelSafely
