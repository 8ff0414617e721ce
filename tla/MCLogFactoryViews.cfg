\* Messages that outlive the statement and messages that do not.
CONSTANTS
    Threads = {t1}
    Names = {n1}
    SyncSinks = {console}
    AsyncSinks = {otel}
    Adders = {}
    Levels = {2, 6}
    Texts = {"literal", "temporary"}
    NoThread = nobody
    NoLogger = nologger
    NoFlush = noflush
    MaxRecords = 1
    MaxInits = 1
SPECIFICATION Spec
INVARIANTS
    RecordsIntact
