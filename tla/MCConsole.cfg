\* One sink, two threads that emit and move it between the streams.
CONSTANTS
    Threads = {t1, t2}
    Consoles = {k1}
    Formatters = {"gmtime", "reentrant", "none"}
    NoThread = nobody
    MayFail = TRUE
    MaxEmits = 1
    MaxRestreams = 2
SPECIFICATION FairSpec
INVARIANTS
    TypeOK
    LineIntegrity
PROPERTIES
    EmitReturns
