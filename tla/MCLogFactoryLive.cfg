\* The factory is shut down and built again; its loggers have two sinks.
CONSTANTS
    Threads = {t1, t2}
    Names = {n1}
    SyncSinks = {}
    AsyncSinks = {otel, http}
    Adders = {}
    Levels = {2, 6}
    Texts = {"literal"}
    NoThread = nobody
    NoLogger = nologger
    NoFlush = noflush
    MaxRecords = 1
    MaxInits = 2
SPECIFICATION FairSpec
PROPERTIES
    FlushTerminates
    FlushedOnReturn
