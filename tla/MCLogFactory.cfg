\* Every kind of sink, and a sink of its own for each thread.
CONSTANTS
    Threads = {t1, t2}
    Names = {n1}
    SyncSinks = {console}
    AsyncSinks = {otel}
    Adders = {t1, t2}
    Levels = {2, 6}
    Texts = {"literal"}
    NoThread = nobody
    NoLogger = nologger
    NoFlush = noflush
    MaxRecords = 1
    MaxInits = 1
SYMMETRY Symmetry
SPECIFICATION Spec
INVARIANTS
    TypeOK
    FanOut
    NamesAlive
PROPERTIES
    SinksAreChannels
