CONSTANTS
    Clients = {c1, c2}
    Worker = worker
    Owner = owner
    NoThread = none
    NoFlush = noflush
    MaxBatchSize = 0
    MaxPushes = 1
    FifoWake = FALSE
SPECIFICATION FairSpec
PROPERTIES
    EventuallyConsumed
