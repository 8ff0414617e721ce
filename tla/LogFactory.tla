----------------------------- MODULE LogFactory -----------------------------
(***************************************************************************)
(* logrin::LogFactory, Logger and LogEntry: the factory hands out copies   *)
(* of the loggers it stores, a logger fans every entry out to its sinks    *)
(* when the entry is destroyed, and flushes its sinks when it is destroyed *)
(* itself. Asynchronous sinks are used through the promise AsyncChannel    *)
(* makes, which Batcher keeps.                                             *)
(*                                                                         *)
(* A thread holds at most one logger at a time. The factory's functions    *)
(* are not synchronised, so they are called one at a time (factoryUser);   *)
(* loggers are used and destroyed while such a call runs. Sink s = t, for  *)
(* an adder t, is the asynchronous sink t adds to its own logger.          *)
(***************************************************************************)
EXTENDS Selections, SequencesExt

CONSTANTS Threads,     \* the application's threads
          Names,       \* the names loggers are asked for
          SyncSinks,   \* the synchronous sinks handed to Init
          AsyncSinks,  \* the asynchronous sinks handed to Init
          Adders,      \* the threads that add a sink of their own
          Levels,      \* the LogLevels in use
          NoThread,    \* nobody is in the factory
          NoLogger,    \* a thread holds no logger
          NoFlush,     \* a thread waits for no sink
          Texts,       \* the messages: "literal" or "temporary"
          MaxRecords,  \* bound: records logged per thread
          MaxInits     \* bound: factory life cycles

Off == 6

ASSUME LevelsAssumption == Levels \subseteq 0 .. Off /\ Off \in Levels
ASSUME SinksAssumption ==
    /\ SyncSinks \cap AsyncSinks = {}
    /\ (SyncSinks \cup AsyncSinks) \cap Threads = {}
    /\ Adders \subseteq Threads
ASSUME FiniteAssumption == IsFiniteSet(SyncSinks) /\ IsFiniteSet(AsyncSinks)
ASSUME BoundsAssumption == MaxRecords \in Nat /\ MaxInits \in Nat
ASSUME NoThreadAssumption == NoThread \notin Threads
ASSUME NoFlushAssumption == NoFlush \notin Nat

Async == AsyncSinks \cup Adders
Sinks == SyncSinks \cup Async

VARIABLES instance,    \* the static instance: [up, level, loggers]
          inits,       \* how often Init built an instance
          factoryUser, \* the thread inside a function of LogFactory
          pc,          \* idle, emit (in ~LogEntry) or flush (in Logger::flush)
          job,         \* what a flushing thread is doing: get, destroy, shutdown
          todo,        \* the sinks a thread has still to emit to or to flush
          logger,      \* the logger each thread holds
          logged,      \* history: the records each thread has logged
          accepted,    \* the records each sink was given
          delivered,   \* the records each asynchronous sink has processed
          waiting,     \* inside AsyncSink::Flush: how many records it owes
          due          \* history: Len(accepted[s]) when the flushing call began

vars == <<instance, inits, factoryUser, pc, job, todo, logger, logged, accepted,
          delivered, waiting, due>>

NoInstance == [up |-> FALSE, level |-> Off, loggers |-> {}]
NoJob == [kind |-> "none", name |-> "none"]

\* What a logger consists of; a thread without one has none of these.
Loggers == [name : Names \cup {"dummy"}, level : Levels,
            sync : Seq(SyncSinks), async : Seq(Async)]

ASSUME NoLoggerAssumption == NoLogger \notin Loggers

\* The logger an instance builds for a name, and every copy of it.
StoredLogger(n) ==
    [name |-> n, level |-> instance.level,
     sync |-> SetToSeq(SyncSinks), async |-> SetToSeq(AsyncSinks)]

DummyLogger == [name |-> "dummy", level |-> Off, sync |-> <<>>, async |-> <<>>]

Init ==
    /\ instance = NoInstance
    /\ inits = 0
    /\ factoryUser = NoThread
    /\ pc = [t \in Threads |-> "idle"]
    /\ job = [t \in Threads |-> NoJob]
    /\ todo = [t \in Threads |-> <<>>]
    /\ logger = [t \in Threads |-> NoLogger]
    /\ logged = [t \in Threads |-> <<>>]
    /\ accepted = [s \in Sinks |-> <<>>]
    /\ delivered = [s \in Async |-> <<>>]
    /\ waiting = [t \in Threads |-> NoFlush]
    /\ due = [t \in Threads |-> [s \in Async |-> 0]]

\* A thread begins to flush the sinks in list, for the purpose kind.
BeginFlush(t, kind, name, list) ==
    /\ pc' = [pc EXCEPT ![t] = "flush"]
    /\ job' = [job EXCEPT ![t] = [kind |-> kind, name |-> name]]
    /\ todo' = [todo EXCEPT ![t] = list]
    /\ due' = [due EXCEPT ![t] = [s \in Async |-> Len(accepted[s])]]

-----------------------------------------------------------------------------
(* LogFactory::Init, Get and Shutdown                                      *)

\* The static instance is built once; a second Init is ignored.
InitFactory(t, level) ==
    /\ factoryUser = NoThread /\ pc[t] = "idle"
    /\ inits < MaxInits
    /\ ~instance.up
    /\ instance' = [up |-> TRUE, level |-> level, loggers |-> {}]
    /\ inits' = inits + 1
    /\ UNCHANGED <<factoryUser, pc, job, todo, logger, logged, accepted,
                   delivered, waiting, due>>

CanGet(t) == factoryUser = NoThread /\ pc[t] = "idle" /\ logger[t] = NoLogger

\* No instance, or one that is off: a copy of the dummy logger.
GetDummy(t) ==
    /\ CanGet(t)
    /\ instance.level = Off
    /\ logger' = [logger EXCEPT ![t] = DummyLogger]
    /\ UNCHANGED <<instance, inits, factoryUser, pc, job, todo, logged, accepted,
                   delivered, waiting, due>>

\* A copy of the stored logger.
GetStored(t, n) ==
    /\ CanGet(t)
    /\ instance.level # Off
    /\ n \in instance.loggers
    /\ logger' = [logger EXCEPT ![t] = StoredLogger(n)]
    /\ UNCHANGED <<instance, inits, factoryUser, pc, job, todo, logged, accepted,
                   delivered, waiting, due>>

\* Mutant: Get forgets that an instance may be off.
GetNewAtAnyLevel(t, n) ==
    /\ CanGet(t)
    /\ instance.up
    /\ n \notin instance.loggers
    /\ instance' = [instance EXCEPT !.loggers = @ \cup {n}]
    /\ factoryUser' = t
    /\ BeginFlush(t, "get", n, StoredLogger(n).async)
    /\ UNCHANGED <<inits, logger, logged, accepted, delivered, waiting>>

\* A new logger is stored; the temporary it is copied from flushes its sinks.
GetNew(t, n) ==
    /\ CanGet(t)
    /\ instance.level # Off
    /\ n \notin instance.loggers
    /\ instance' = [instance EXCEPT !.loggers = @ \cup {n}]
    /\ factoryUser' = t
    /\ BeginFlush(t, "get", n, StoredLogger(n).async)
    /\ UNCHANGED <<inits, logger, logged, accepted, delivered, waiting>>

\* Mutant: Shutdown deletes the instance without flushing its loggers.
RepeatNothing(list, k) == <<>>

\* k loggers flush the same sinks one after the other.
Repeat(list, k) == FlattenSeq([i \in 1 .. k |-> list])

\* Every stored logger is flushed, and flushes again in its destructor.
ShutdownCall(t) ==
    /\ factoryUser = NoThread /\ pc[t] = "idle"
    /\ instance.up
    /\ factoryUser' = t
    /\ BeginFlush(t, "shutdown", "none",
                  Repeat(SetToSeq(AsyncSinks),
                         2 * Cardinality(instance.loggers)))
    /\ UNCHANGED <<instance, inits, logger, logged, accepted, delivered, waiting>>

-----------------------------------------------------------------------------
(* Logger and LogEntry                                                     *)

\* Logger::Enabled.
Enabled(l, level) == level # Off /\ level >= l.level

\* The record a thread logs next through its logger. Message and logger name
\* are views: text says whether the message outlives the statement. least is
\* the level below which the call made is documented to log nothing.
NewRecord(t, level, least, text) ==
    [by |-> t, n |-> Len(logged[t]) + 1, level |-> level, least |-> least,
     text |-> text, name |-> logger[t].name,
     sinks |-> ToSet(logger[t].sync \o logger[t].async)]

CanLog(t) == pc[t] = "idle" /\ logger[t] # NoLogger /\ Len(logged[t]) < MaxRecords

\* The entry of thread t goes on with the sinks in list, or is gone.
EmitTo(t, list) ==
    /\ todo' = [todo EXCEPT ![t] = list]
    /\ pc' = [pc EXCEPT ![t] = IF list = <<>> THEN "idle" ELSE "emit"]

\* The entry for a record is built; it is emitted when it is destroyed.
BeginEntry(t, level, least, text) ==
    /\ CanLog(t)
    /\ logged' = [logged EXCEPT ![t] = Append(@, NewRecord(t, level, least, text))]
    /\ EmitTo(t, logger[t].sync \o logger[t].async)
    /\ UNCHANGED <<instance, inits, factoryUser, job, logger, accepted, delivered,
                   waiting, due>>

\* Logger::Log(LogRecord): any level, nothing is promised to be dropped.
LogRecord(t, level, text) == BeginEntry(t, level, level, text)

\* Logger::Log(level, message) asks Enabled first.
LogMessage(t, level, text) ==
    /\ CanLog(t)
    /\ Enabled(logger[t], level)
    /\ BeginEntry(t, level, logger[t].level, text)

\* Logger::Trace .. Logger::Fatal.
LogConvenience(t, level, text) ==
    /\ CanLog(t)
    /\ level # Off
    /\ BeginEntry(t, level, logger[t].level, text)

\* Mutant: the entry is spent as soon as one asynchronous sink has it.
EmitNextAndStop(t) ==
    /\ pc[t] = "emit"
    /\ accepted' = [accepted EXCEPT ![Head(todo[t])] = Append(@, Last(logged[t]))]
    /\ EmitTo(t, IF Head(todo[t]) \in Async THEN <<>> ELSE Tail(todo[t]))
    /\ UNCHANGED <<instance, inits, factoryUser, job, logger, logged, delivered,
                   waiting, due>>

\* ~LogEntry gives the record to the next sink: Emit or Enqueue.
EmitNext(t) ==
    /\ pc[t] = "emit"
    /\ accepted' = [accepted EXCEPT ![Head(todo[t])] = Append(@, Last(logged[t]))]
    /\ EmitTo(t, Tail(todo[t]))
    /\ UNCHANGED <<instance, inits, factoryUser, job, logger, logged, delivered,
                   waiting, due>>

\* Logger::AddAsyncSink<S>(): the sink is built in place, for this logger only.
AddAsyncSink(t) ==
    /\ pc[t] = "idle" /\ logger[t] # NoLogger
    /\ t \in Adders \ ToSet(logger[t].async)
    /\ logger' = [logger EXCEPT ![t].async = Append(@, t)]
    /\ UNCHANGED <<instance, inits, factoryUser, pc, job, todo, logged, accepted,
                   delivered, waiting, due>>

\* Logger::WithName overwrites the string that queued records still view.
WithName(t, n) ==
    /\ pc[t] = "idle" /\ logger[t] # NoLogger
    /\ logger' = [logger EXCEPT ![t].name = n]
    /\ UNCHANGED <<instance, inits, factoryUser, pc, job, todo, logged, accepted,
                   delivered, waiting, due>>

\* Mutant: a logger is destroyed without flushing.
DestroyUnflushed(t) ==
    /\ pc[t] = "idle" /\ logger[t] # NoLogger
    /\ logger' = [logger EXCEPT ![t] = NoLogger]
    /\ UNCHANGED <<instance, inits, factoryUser, pc, job, todo, logged, accepted,
                   delivered, waiting, due>>

\* ~Logger: flush, then the name and the sinks go.
DestroyLogger(t) ==
    /\ pc[t] = "idle" /\ logger[t] # NoLogger
    /\ BeginFlush(t, "destroy", "none", logger[t].async)
    /\ UNCHANGED <<instance, inits, factoryUser, logger, logged, accepted, delivered,
                   waiting>>

\* Mutant: Flush waits for one record more than it was asked to.
FlushNextOffByOne(t) ==
    /\ pc[t] = "flush" /\ todo[t] # <<>> /\ waiting[t] = NoFlush
    /\ waiting' = [waiting EXCEPT ![t] = Len(accepted[Head(todo[t])]) + 1]
    /\ UNCHANGED <<instance, inits, factoryUser, pc, job, todo, logger, logged,
                   accepted, delivered, due>>

\* AsyncSink::Flush of the next sink is called.
FlushNext(t) ==
    /\ pc[t] = "flush" /\ todo[t] # <<>> /\ waiting[t] = NoFlush
    /\ waiting' = [waiting EXCEPT ![t] = Len(accepted[Head(todo[t])])]
    /\ UNCHANGED <<instance, inits, factoryUser, pc, job, todo, logger, logged,
                   accepted, delivered, due>>

\* Mutant: AsyncSink::Flush is a hint that does not wait.
FlushHint(t) ==
    /\ pc[t] = "flush" /\ waiting[t] # NoFlush
    /\ waiting' = [waiting EXCEPT ![t] = NoFlush]
    /\ todo' = [todo EXCEPT ![t] = Tail(@)]
    /\ UNCHANGED <<instance, inits, factoryUser, pc, job, logger, logged, accepted,
                   delivered, due>>

\* AsyncSink::Flush returns.
FlushReturns(t) ==
    /\ pc[t] = "flush" /\ waiting[t] # NoFlush
    /\ waiting[t] <= Len(delivered[Head(todo[t])])
    /\ waiting' = [waiting EXCEPT ![t] = NoFlush]
    /\ todo' = [todo EXCEPT ![t] = Tail(@)]
    /\ UNCHANGED <<instance, inits, factoryUser, pc, job, logger, logged, accepted,
                   delivered, due>>

\* Every sink is flushed: Get returns, the logger is gone, or the instance is.
FlushDone(t) ==
    /\ pc[t] = "flush" /\ todo[t] = <<>>
    /\ pc' = [pc EXCEPT ![t] = "idle"]
    /\ job' = [job EXCEPT ![t] = NoJob]
    /\ \/ /\ job[t].kind = "get"
          /\ logger' = [logger EXCEPT ![t] = StoredLogger(job[t].name)]
          /\ factoryUser' = NoThread
          /\ UNCHANGED instance
       \/ /\ job[t].kind = "destroy"
          /\ logger' = [logger EXCEPT ![t] = NoLogger]
          /\ UNCHANGED <<factoryUser, instance>>
       \/ /\ job[t].kind = "shutdown"
          /\ instance' = NoInstance
          /\ factoryUser' = NoThread
          /\ UNCHANGED logger
    /\ due' = [due EXCEPT ![t] = [s \in Async |-> 0]]
    /\ UNCHANGED <<inits, todo, logged, accepted, delivered, waiting>>

\* The worker of an asynchronous sink processes its oldest record.
Deliver(s) ==
    /\ Len(delivered[s]) < Len(accepted[s])
    /\ delivered' = [delivered EXCEPT ![s] = Append(@, accepted[s][Len(@) + 1])]
    /\ UNCHANGED <<instance, inits, factoryUser, pc, job, todo, logger, logged,
                   accepted, waiting, due>>

-----------------------------------------------------------------------------
FactoryCall(t) ==
    \/ \E l \in Levels : InitFactory(t, l)
    \/ GetDummy(t)
    \/ \E n \in Names : GetStored(t, n) \/ GetNew(t, n)
    \/ ShutdownCall(t)

LoggerCall(t) ==
    \/ \E l \in Levels, text \in Texts :
          LogRecord(t, l, text) \/ LogMessage(t, l, text) \/ LogConvenience(t, l, text)
    \/ AddAsyncSink(t)
    \/ \E n \in Names : WithName(t, n)
    \/ DestroyLogger(t)

\* A thread goes on with what it has begun.
Progress(t) ==
    EmitNext(t) \/ FlushNext(t) \/ FlushReturns(t) \/ FlushDone(t)

Next ==
    \/ \E t \in Threads : FactoryCall(t) \/ LoggerCall(t) \/ Progress(t)
    \/ \E s \in Async : Deliver(s)

Spec == Init /\ [][Next]_vars

(* Threads go on with a call they have begun, and the worker of every      *)
(* asynchronous sink goes on with what it was given.                       *)
Fairness ==
    /\ \A t \in Threads : WF_vars(Progress(t))
    /\ \A s \in Async : WF_vars(Deliver(s))

FairSpec == Spec /\ Fairness

-----------------------------------------------------------------------------
(* Type invariant                                                          *)

Records == [by : Threads, n : 1 .. MaxRecords, level : Levels, least : Levels,
            text : Texts, name : Names \cup {"dummy"}, sinks : SUBSET Sinks]

\* Every variable has the type its declaration gives it; an instance that is
\* not there or is off has no loggers.
TypeOK ==
    /\ instance \in [up : BOOLEAN, level : Levels, loggers : SUBSET Names]
    /\ ~instance.up => instance = NoInstance
    /\ instance.level = Off => instance.loggers = {}
    /\ inits \in 0 .. MaxInits
    /\ factoryUser \in Threads \cup {NoThread}
    /\ pc \in [Threads -> {"idle", "emit", "flush"}]
    /\ job \in [Threads -> [kind : {"none", "get", "destroy", "shutdown"},
                            name : Names \cup {"none"}]]
    /\ todo \in [Threads -> Seq(Sinks)]
    /\ logger \in [Threads -> Loggers \cup {NoLogger}]
    /\ logged \in [Threads -> Seq(Records)]
    /\ accepted \in [Sinks -> Seq(Records)]
    /\ delivered \in [Async -> Seq(Records)]
    /\ waiting \in [Threads -> Nat \cup {NoFlush}]
    /\ due \in [Threads -> [Async -> Nat]]

-----------------------------------------------------------------------------
(* Safety                                                                  *)

RecordsBy(t) == {r \in Records : r.by = t}
RecordsFor(s) == {r \in Records : s \in r.sinks}

\* The records of thread t that are owed to sink s: all it has logged through
\* a logger with that sink, except one whose entry has not got there yet.
Owed(t, s) ==
    LET done == IF pc[t] = "emit" /\ s \in ToSet(todo[t]) THEN Front(logged[t])
                ELSE logged[t]
    IN  Selected(done, RecordsFor(s))

(* ~LogEntry: every sink of the logger gets every record, once, and in the *)
(* order its thread logged them, whichever loggers the thread has held and *)
(* however the threads interleave.                                         *)
FanOut ==
    \A t \in Threads, s \in Sinks :
        Selected(accepted[s], RecordsBy(t)) = Owed(t, s)

\* The records sink s has still to process.
Pending(s) == {accepted[s][i] : i \in Len(delivered[s]) + 1 .. Len(accepted[s])}

(* ~Logger and LogRecord::Logger, a view into Logger::n_name: while a sink *)
(* has a record to process, the logger it was logged through is alive. It  *)
(* holds because ~Logger flushes every sink the logger ever had.           *)
NamesAlive ==
    \A s \in Async : \A r \in Pending(s) : logger[r.by] # NoLogger

\* The sinks a call that flushes answers for.
Answers(t) ==
    CASE job[t].kind = "destroy" -> ToSet(logger[t].async)
      [] job[t].kind = "get" -> AsyncSinks
      [] job[t].kind = "shutdown" -> IF instance.loggers = {} THEN {} ELSE AsyncSinks
      [] OTHER -> {}

(* ~Logger, Get and Shutdown: what any thread had given to the sinks when  *)
(* the call began is processed when it returns. Shutdown only reaches the  *)
(* sinks through the loggers it stores: with none stored it flushes none.  *)
FlushedOnReturn ==
    [][\A t \in Threads :
         pc[t] = "flush" /\ pc'[t] = "idle" =>
             \A s \in Answers(t) : due[t][s] <= Len(delivered[s])]_vars

(* "minimum log level", "global log level for all loggers" (Logger.h,      *)
(* LogFactory.h): no sink is given a record below the level of its logger. *)
LevelRespected ==
    \A s \in Sinks : \A i \in DOMAIN accepted[s] :
        accepted[s][i].level >= accepted[s][i].least

\* The message a record views still exists.
MessageAlive(r) ==
    r.text = "literal" \/ (pc[r.by] = "emit" /\ r = Last(logged[r.by]))

(* "copied or moved into an internal queue for later processing"           *)
(* (AsyncSink.h): what a queued record says is still what was logged.      *)
RecordsIntact ==
    \A s \in Async : \A r \in Pending(s) :
        MessageAlive(r) /\ logger[r.by].name = r.name

-----------------------------------------------------------------------------
(* Liveness, under FairSpec                                                *)

\* A call that flushes returns, although other threads go on logging.
FlushTerminates == \A t \in Threads : pc[t] = "flush" ~> pc[t] = "idle"

-----------------------------------------------------------------------------
(* Asynchronous sinks are used, and behave, as AsyncChannel says           *)

\* What thread t waits for at sink s.
Flushing(t, s) ==
    IF waiting[t] # NoFlush /\ Head(todo[t]) = s THEN waiting[t] ELSE NoFlush

\* The records of a sequence, told apart as Batcher's items are.
Identities(records) == [i \in DOMAIN records |-> <<records[i].by, records[i].n>>]

Channel(s) == INSTANCE AsyncChannel WITH
                 Clients <- Threads,
                 Items <- Threads \X (1 .. MaxRecords),
                 accepted <- Identities(accepted[s]),
                 delivered <- Identities(delivered[s]),
                 flushing <- [t \in Threads |-> Flushing(t, s)],
                 open <- TRUE

\* Each sink lives through a behaviour of the channel that Batcher implements.
SinksAreChannels ==
    /\ \A s \in Async : Channel(s)!Init
    /\ [][\A s \in Async : [Channel(s)!Next]_(Channel(s)!vars)]_vars
=============================================================================
