\* Two levels below and above the factory's.
CONSTANTS
    Threads = {t1}
    Names = {n1}
    SyncSinks = {console}
    AsyncSinks = {otel}
    Adders = {}
    Levels = {0, 2, 6}
    Texts = {"literal"}
    NoThread = nobody
    NoLogger = nologger
    NoFlush = noflush
    MaxRecords = 1
    MaxInits = 1
SPECIFICATION Spec
INVARIANTS
    LevelRespected
