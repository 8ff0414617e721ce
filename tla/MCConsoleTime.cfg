\* Two threads, one sink whose formatter asks gmtime.
CONSTANTS
    Threads = {t1, t2}
    Consoles = {k1}
    Formatters = {"gmtime"}
    NoThread = nobody
    MayFail = FALSE
    MaxEmits = 1
    MaxRestreams = 0
SPECIFICATION Spec
INVARIANTS
    OwnTime
