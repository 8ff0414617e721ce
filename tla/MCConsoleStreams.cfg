\* One thread sets the sink up, then emits.
CONSTANTS
    Threads = {t1}
    Consoles = {k1}
    Formatters = {"reentrant"}
    NoThread = nobody
    MayFail = FALSE
    MaxEmits = 1
    MaxRestreams = 2
SPECIFICATION Spec
INVARIANTS
    NothingLost
