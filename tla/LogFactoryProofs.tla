--------------------------- MODULE LogFactoryProofs ---------------------------
(***************************************************************************)
(* Proofs about LogFactory, for any threads, sinks, levels and bounds.     *)
(***************************************************************************)
EXTENDS LogFactory, SequenceLemmas

\* The sinks of a logger, in the order in which a record reaches them.
SinksOf(l) == l.sync \o l.async

\* A logger has no sink twice.
Distinct == \A t \in Threads : logger[t] # NoLogger => IsInjective(SinksOf(logger[t]))

\* What a thread inside a call that flushes has still to do.
Calls ==
    \A t \in Threads :
        /\ pc[t] # "flush" => job[t] = NoJob /\ waiting[t] = NoFlush
        /\ pc[t] = "flush" => /\ job[t].kind # "none"
                              /\ ToSet(todo[t]) \subseteq Answers(t)
        /\ job[t].kind = "get" => job[t].name \in Names /\ logger[t] = NoLogger
        /\ job[t].kind = "destroy" => logger[t] # NoLogger
        /\ job[t].kind \in {"get", "shutdown"} => factoryUser = t
        /\ waiting[t] # NoFlush => todo[t] # <<>>

\* What a thread inside ~LogEntry has still to do.
Emitting ==
    \A t \in Threads :
        pc[t] = "emit" =>
            /\ todo[t] # <<>> /\ IsInjective(todo[t])
            /\ logger[t] # NoLogger /\ logged[t] # <<>>
            /\ Last(logged[t]).sinks = ToSet(SinksOf(logger[t]))
            /\ ToSet(todo[t]) \subseteq Last(logged[t]).sinks

\* Whose records are whose.
Authors == \A t \in Threads : \A i \in DOMAIN logged[t] : logged[t][i].by = t

\* The places of the records a sink has still to process.
PendingAt(s) == Len(delivered[s]) + 1 .. Len(accepted[s])

\* How far the sinks are with what a flushing thread waits for.
Debts ==
    \A s \in Async :
        /\ Len(delivered[s]) <= Len(accepted[s])
        /\ \A t \in Threads :
              /\ due[t][s] <= Len(accepted[s])
              /\ pc[t] = "flush" /\ s \in Answers(t) \ ToSet(todo[t]) =>
                     due[t][s] <= Len(delivered[s])
              /\ waiting[t] # NoFlush /\ s = Head(todo[t]) =>
                     due[t][s] <= waiting[t] /\ waiting[t] <= Len(accepted[s])

\* A record that is pending at a sink was logged through a logger that is
\* still held and has that sink; one that is being destroyed has no record
\* beyond those its flushes wait for.
Held ==
    \A s \in Async :
        /\ \A i \in PendingAt(s) :
              /\ logger[accepted[s][i].by] # NoLogger
              /\ s \in ToSet(logger[accepted[s][i].by].async)
        /\ \A t \in Threads :
              job[t].kind = "destroy" =>
                  /\ waiting[t] # NoFlush /\ s = Head(todo[t]) =>
                        \A i \in DOMAIN accepted[s] :
                            accepted[s][i].by = t => i <= waiting[t]
                  /\ s \notin ToSet(todo[t]) =>
                        \A i \in PendingAt(s) : accepted[s][i].by # t

\* The instance stores a finite number of loggers.
Stored == IsFiniteSet(instance.loggers)

IInv ==
    /\ TypeOK /\ Stored /\ Distinct /\ Calls /\ Emitting
    /\ Authors /\ Debts /\ Held /\ FanOut

-----------------------------------------------------------------------------
(* The loggers of the factory                                              *)

(* The list a shutdown flushes: the sinks, as often as there are loggers.  *)
LEMMA RepeatElements ==
    ASSUME NEW S, NEW list \in Seq(S), NEW n \in Nat
    PROVE  /\ Repeat(list, n) \in Seq(S)
           /\ ToSet(Repeat(list, n)) = IF n = 0 THEN {} ELSE ToSet(list)
<1> DEFINE Good(k) == /\ Repeat(list, k) \in Seq(S)
                      /\ ToSet(Repeat(list, k)) = IF k = 0 THEN {} ELSE ToSet(list)
           T == {k \in Nat : ~Good(k)}
<1>1. SUFFICES ASSUME T # {} PROVE FALSE
  OBVIOUS
<1>2. PICK k \in T : \A m \in T : k <= m
  <2>1. T \subseteq Nat
    OBVIOUS
  <2> HIDE DEF T
  <2> QED BY <1>1, <2>1, LeastNat
<1>3. CASE k = 0
  <2>1. [i \in 1 .. 0 |-> list] = <<>>
    OBVIOUS
  <2>2. Repeat(list, 0) = <<>>
    BY <2>1 DEF Repeat, FlattenSeq
  <2>3. ToSet(<<>>) = {}
    BY InToSet
  <2> QED BY <1>2, <1>3, <2>2, <2>3, EmptySeq
<1>4. CASE k # 0
  <2> DEFINE before == [i \in 1 .. k - 1 |-> list]
  <2>1. k - 1 \in Nat /\ Good(k - 1)
    <3>1. k \in Nat /\ k - 1 \in Nat /\ ~(k <= k - 1)
      BY <1>2, <1>4
    <3> HIDE DEF Good
    <3>2. k - 1 \notin T
      BY <1>2, <3>1
    <3> QED BY <3>1, <3>2
  <2>2. before \in Seq(Seq(S)) /\ [i \in 1 .. k |-> list] = Append(before, list)
    BY <2>1
  <2>3. Repeat(list, k) = Repeat(list, k - 1) \o list
    BY <2>2, FlattenAppend DEF Repeat
  <2>4. /\ Repeat(list, k) \in Seq(S)
        /\ ToSet(Repeat(list, k)) = ToSet(Repeat(list, k - 1)) \cup ToSet(list)
    BY <2>1, <2>3, ConcatElements, ConcatProperties
  <2>5. Good(k)
    BY <1>4, <2>1, <2>4
  <2> QED BY <1>2, <2>5
<1> QED BY <1>3, <1>4

(* A stored logger has every sink of the factory, once.                    *)
LEMMA StoredLoggerIsGood ==
    ASSUME TypeOK, NEW n \in Names
    PROVE  /\ StoredLogger(n) \in Loggers
           /\ IsInjective(SinksOf(StoredLogger(n)))
           /\ SetToSeq(AsyncSinks) \in Seq(Async)
           /\ ToSet(SetToSeq(AsyncSinks)) = AsyncSinks
<1> DEFINE sync == SetToSeq(SyncSinks)
           async == SetToSeq(AsyncSinks)
<1>1. /\ sync \in Seq(SyncSinks) /\ ToSet(sync) = SyncSinks /\ IsInjective(sync)
      /\ async \in Seq(AsyncSinks) /\ ToSet(async) = AsyncSinks /\ IsInjective(async)
  BY FiniteAssumption, SetToSeqElements
<1>2. sync \in Seq(Sinks) /\ async \in Seq(Sinks) /\ async \in Seq(Async)
  <2>1. SyncSinks \subseteq Sinks /\ AsyncSinks \subseteq Sinks /\ AsyncSinks \subseteq Async
    BY DEF Sinks, Async
  <2> QED BY <1>1, <2>1, SeqMonotonic
<1>3. ToSet(sync) \cap ToSet(async) = {}
  BY <1>1, SinksAssumption
<1> HIDE DEF sync, async
<1>4. IsInjective(sync \o async)
  BY <1>1, <1>2, <1>3, ConcatElements
<1>5. StoredLogger(n) = [name |-> n, level |-> instance.level, sync |-> sync, async |-> async]
  BY DEF StoredLogger, sync, async
<1>6. StoredLogger(n) \in Loggers
  BY <1>1, <1>2, <1>5 DEF Loggers, TypeOK
<1> QED BY <1>1, <1>2, <1>4, <1>5, <1>6 DEF SinksOf, async

(* The dummy logger has none.                                              *)
LEMMA DummyLoggerIsGood ==
    DummyLogger \in Loggers /\ IsInjective(SinksOf(DummyLogger))
<1>1. SinksOf(DummyLogger) = <<>>
  BY DEF SinksOf, DummyLogger
<1> QED BY <1>1, EmptySeq, LevelsAssumption DEF DummyLogger, Loggers, IsInjective

(* The sinks of a logger are sinks.                                        *)
LEMMA SinksOfType ==
    ASSUME NEW l \in Loggers
    PROVE  /\ SinksOf(l) \in Seq(Sinks)
           /\ l.async \in Seq(Async)
           /\ ToSet(l.async) \subseteq ToSet(SinksOf(l))
           /\ ToSet(SinksOf(l)) \cap Async = ToSet(l.async)
<1>1. l.sync \in Seq(SyncSinks) /\ l.async \in Seq(Async)
  BY DEF Loggers
<1>2. SyncSinks \subseteq Sinks /\ Async \subseteq Sinks
  BY DEF Sinks
<1>3. l.sync \in Seq(Sinks) /\ l.async \in Seq(Sinks)
  BY <1>1, <1>2, SeqMonotonic
<1>4. SinksOf(l) \in Seq(Sinks) /\ ToSet(SinksOf(l)) = ToSet(l.sync) \cup ToSet(l.async)
  BY <1>3, ConcatElements, ConcatProperties DEF SinksOf
<1>5. ToSet(l.sync) \subseteq SyncSinks /\ ToSet(l.async) \subseteq Async
  BY <1>1, LenProperties, ElementOfSeq DEF ToSet
<1>6. SyncSinks \cap Async = {}
  BY SinksAssumption DEF Async
<1> QED BY <1>1, <1>4, <1>5, <1>6

-----------------------------------------------------------------------------
(* The steps that leave the invariant, part by part                        *)

(* What every sink has had of every thread changes only with an entry.     *)
LEMMA FanOutKept ==
    ASSUME FanOut, accepted' = accepted, logged' = logged,
           \A t \in Threads : /\ pc'[t] = "emit" <=> pc[t] = "emit"
                              /\ pc[t] = "emit" => todo'[t] = todo[t]
    PROVE  FanOut'
<1> SUFFICES ASSUME NEW t \in Threads, NEW s \in Sinks
             PROVE  Selected(accepted'[s], RecordsBy(t)) = Owed(t, s)'
  BY DEF FanOut, RecordsBy, Records
<1>1. Owed(t, s)' = Owed(t, s)
  BY DEF Owed, RecordsFor, Records
<1> QED BY <1>1 DEF FanOut

(* Init.                                                                   *)
LEMMA InitIInv == Init => IInv
<1> SUFFICES ASSUME Init PROVE IInv
  OBVIOUS
<1>1. TypeOK
  <2>1. instance = NoInstance /\ Off \in Levels
    BY LevelsAssumption DEF Init
  <2>2. job \in [Threads -> [kind : {"none", "get", "destroy", "shutdown"},
                             name : Names \cup {"none"}]]
    BY DEF Init, NoJob
  <2>3. /\ todo \in [Threads -> Seq(Sinks)] /\ logged \in [Threads -> Seq(Records)]
        /\ accepted \in [Sinks -> Seq(Records)] /\ delivered \in [Async -> Seq(Records)]
    BY EmptySeq DEF Init
  <2> QED BY <2>1, <2>2, <2>3, BoundsAssumption DEF Init, TypeOK, NoInstance
<1>2. Stored /\ Distinct /\ Emitting
  BY FS_EmptySet DEF Init, Stored, NoInstance, Distinct, Emitting
<1>3. Calls
  BY DEF Init, Calls, NoJob
<1>4. Authors
  BY DEF Init, Authors
<1>5. Debts
  BY DEF Init, Debts, Sinks
<1>6. Held
  BY DEF Init, Held, PendingAt, NoJob, Sinks
<1>7. FanOut
  <2> SUFFICES ASSUME NEW t \in Threads, NEW s \in Sinks
               PROVE  Selected(accepted[s], RecordsBy(t)) = Owed(t, s)
    BY DEF FanOut
  <2>1. accepted[s] = <<>> /\ logged[t] = <<>> /\ pc[t] = "idle"
    BY DEF Init
  <2> QED BY <2>1, SelectedEmpty DEF Owed
<1> QED BY <1>1, <1>2, <1>3, <1>4, <1>5, <1>6, <1>7 DEF IInv

(* Get, AddAsyncSink, WithName: an idle thread's logger changes, without   *)
(* losing a sink.                                                          *)
LEMMA LoggerChanges ==
    ASSUME IInv, NEW t \in Threads, NEW l \in Loggers,
           pc[t] = "idle", IsInjective(SinksOf(l)),
           logger[t] # NoLogger => ToSet(logger[t].async) \subseteq ToSet(l.async),
           logger' = [logger EXCEPT ![t] = l],
           UNCHANGED <<instance, inits, factoryUser, pc, job, todo, logged, accepted,
                       delivered, waiting, due>>
    PROVE  IInv'
<1>1. TypeOK'
  BY DEF IInv, TypeOK
<1>2. Stored' /\ Distinct'
  BY DEF IInv, TypeOK, Stored, Distinct
<1>3. Calls'
  BY DEF IInv, TypeOK, Calls, Answers, NoJob
<1>4. Emitting'
  BY DEF IInv, TypeOK, Emitting
<1>5. Authors' /\ FanOut'
  BY FanOutKept DEF IInv, Authors
<1>6. Debts'
  BY DEF IInv, TypeOK, Calls, Debts, Answers, NoJob
<1>7. Held'
  BY NoLoggerAssumption, SMTT(40) DEF IInv, TypeOK, Calls, Held, PendingAt, NoJob
<1> QED BY <1>1, <1>2, <1>3, <1>4, <1>5, <1>6, <1>7 DEF IInv

(* Init builds the instance.                                               *)
LEMMA FactoryBuilt ==
    ASSUME IInv, NEW t \in Threads, NEW level \in Levels, InitFactory(t, level)
    PROVE  IInv'
<1>1. TypeOK'
  BY BoundsAssumption DEF IInv, TypeOK, InitFactory
<1>2. \A u \in Threads : job[u].kind # "shutdown"
  BY NoThreadAssumption DEF IInv, TypeOK, Calls, InitFactory
<1>3. \A u \in Threads : Answers(u)' = Answers(u)
  BY <1>2 DEF InitFactory, Answers
<1>4. Stored' /\ Distinct' /\ Emitting' /\ Authors'
  BY FS_EmptySet DEF IInv, InitFactory, Stored, Distinct, Emitting, Authors
<1>5. Calls'
  BY <1>3 DEF IInv, InitFactory, Calls
<1>6. Debts'
  BY <1>3 DEF IInv, InitFactory, Debts
<1>7. Held'
  BY DEF IInv, InitFactory, Held, PendingAt
<1>8. FanOut'
  BY FanOutKept DEF IInv, InitFactory
<1> QED BY <1>1, <1>4, <1>5, <1>6, <1>7, <1>8 DEF IInv

(* Get, Shutdown, ~Logger: a thread begins to flush all it answers for.    *)
LEMMA FlushBegins ==
    ASSUME IInv, NEW t \in Threads, NEW kind \in {"get", "destroy", "shutdown"},
           NEW name \in Names \cup {"none"}, NEW list \in Seq(Sinks),
           pc[t] = "idle", BeginFlush(t, kind, name, list),
           instance' \in [up : BOOLEAN, level : Levels, loggers : SUBSET Names],
           ~instance'.up => instance' = NoInstance,
           instance'.level = Off => instance'.loggers = {},
           IsFiniteSet(instance'.loggers),
           kind = "get" => name \in Names /\ logger[t] = NoLogger,
           kind = "destroy" => logger[t] # NoLogger /\ UNCHANGED <<instance, factoryUser>>,
           kind \in {"get", "shutdown"} => factoryUser = NoThread /\ factoryUser' = t,
           ToSet(list) = Answers(t)',
           UNCHANGED <<inits, logger, logged, accepted, delivered, waiting>>
    PROVE  IInv'
<1>1. /\ pc' = [pc EXCEPT ![t] = "flush"]
      /\ job' = [job EXCEPT ![t] = [kind |-> kind, name |-> name]]
      /\ todo' = [todo EXCEPT ![t] = list]
      /\ due' = [due EXCEPT ![t] = [s \in Async |-> Len(accepted[s])]]
  BY DEF BeginFlush
<1>2. \A s \in Async : Len(accepted[s]) \in Nat /\ Len(delivered[s]) \in Nat
  BY DEF IInv, TypeOK, Sinks
<1>3. TypeOK'
  <2>1. due' \in [Threads -> [Async -> Nat]]
    BY <1>1, <1>2 DEF IInv, TypeOK
  <2>2. job' \in [Threads -> [kind : {"none", "get", "destroy", "shutdown"},
                              name : Names \cup {"none"}]]
    BY <1>1 DEF IInv, TypeOK
  <2>3. factoryUser' \in Threads \cup {NoThread}
    BY DEF IInv, TypeOK
  <2>4. pc' \in [Threads -> {"idle", "emit", "flush"}] /\ todo' \in [Threads -> Seq(Sinks)]
    BY <1>1 DEF IInv, TypeOK
  <2> QED BY <2>1, <2>2, <2>3, <2>4 DEF IInv, TypeOK
<1>4. ASSUME NEW u \in Threads, u # t
      PROVE  /\ pc'[u] = pc[u] /\ job'[u] = job[u] /\ todo'[u] = todo[u]
             /\ due'[u] = due[u] /\ Answers(u)' = Answers(u)
             /\ kind \in {"get", "shutdown"} => job[u].kind \notin {"get", "shutdown"}
  <2>1. pc'[u] = pc[u] /\ job'[u] = job[u] /\ todo'[u] = todo[u] /\ due'[u] = due[u]
    BY <1>1, <1>4 DEF IInv, TypeOK
  <2>2. kind \in {"get", "shutdown"} => job[u].kind \notin {"get", "shutdown"}
    BY NoThreadAssumption DEF IInv, Calls
  <2> QED BY <2>1, <2>2 DEF Answers
<1>5. /\ pc'[t] = "flush" /\ job'[t] = [kind |-> kind, name |-> name] /\ todo'[t] = list
      /\ due'[t] = [s \in Async |-> Len(accepted[s])] /\ waiting[t] = NoFlush
  BY <1>1 DEF IInv, TypeOK, Calls
<1>6. Stored' /\ Distinct' /\ Authors'
  BY DEF IInv, Stored, Distinct, Authors
<1>7. Calls'
  BY <1>4, <1>5 DEF IInv, Calls
<1>8. Emitting'
  BY <1>4, <1>5 DEF IInv, Emitting
<1>9. Debts'
  BY <1>2, <1>4, <1>5 DEF IInv, Debts
<1>10. Held'
  <2> SUFFICES ASSUME NEW s \in Async, NEW u \in Threads, job'[u].kind = "destroy"
               PROVE  /\ waiting'[u] # NoFlush /\ s = Head(todo'[u]) =>
                           \A i \in DOMAIN accepted'[s] :
                               accepted'[s][i].by = u => i <= waiting'[u]
                      /\ s \notin ToSet(todo'[u]) =>
                           \A i \in PendingAt(s)' : accepted'[s][i].by # u
    BY DEF IInv, Held, PendingAt
  <2>1. CASE u = t
    <3>1. Answers(t)' = ToSet(logger[t].async)
      BY <1>5, <2>1 DEF Answers
    <3> QED BY <1>5, <2>1, <3>1 DEF IInv, Held, PendingAt
  <2>2. CASE u # t
    BY <1>4, <2>2 DEF IInv, Held, PendingAt
  <2> QED BY <2>1, <2>2
<1>11. FanOut'
  BY <1>4, <1>5, FanOutKept DEF IInv
<1> QED BY <1>3, <1>6, <1>7, <1>8, <1>9, <1>10, <1>11 DEF IInv

(* A record goes to the entry's sinks one by one: what EmitTo leaves.      *)
LEMMA EntryBegins ==
    ASSUME IInv, NEW t \in Threads, NEW level \in Levels, NEW least \in Levels,
           NEW text \in Texts, BeginEntry(t, level, least, text)
    PROVE  IInv'
<1> DEFINE r == NewRecord(t, level, least, text)
           l == logger[t]
<1>1. /\ pc[t] = "idle" /\ l # NoLogger /\ l \in Loggers /\ Len(logged[t]) < MaxRecords
      /\ logged[t] \in Seq(Records)
  BY DEF BeginEntry, CanLog, IInv, TypeOK
<1>2. SinksOf(l) \in Seq(Sinks) /\ IsInjective(SinksOf(l))
  BY <1>1, SinksOfType DEF IInv, Distinct
<1>3. ToSet(SinksOf(l)) \subseteq Sinks
  BY <1>2, ElementOfSeq, LenProperties DEF ToSet
<1>4. r \in Records /\ r.by = t /\ r.sinks = ToSet(SinksOf(l))
  <2>1. Len(logged[t]) + 1 \in 1 .. MaxRecords
    BY <1>1, LenProperties, BoundsAssumption
  <2> QED BY <1>1, <1>3, <2>1 DEF NewRecord, Records, Loggers, SinksOf
<1> HIDE DEF r
<1>5. /\ logged' = [logged EXCEPT ![t] = Append(logged[t], r)]
      /\ todo' = [todo EXCEPT ![t] = SinksOf(l)]
      /\ pc' = [pc EXCEPT ![t] = IF SinksOf(l) = <<>> THEN "idle" ELSE "emit"]
  BY DEF BeginEntry, EmitTo, SinksOf, r
<1>6. /\ Append(logged[t], r) \in Seq(Records) /\ Append(logged[t], r) # <<>>
      /\ Last(Append(logged[t], r)) = r /\ Front(Append(logged[t], r)) = logged[t]
      /\ \A i \in DOMAIN Append(logged[t], r) : Append(logged[t], r)[i].by = t
  <2>1. /\ Append(logged[t], r) \in Seq(Records) /\ Append(logged[t], r) # <<>>
        /\ Len(Append(logged[t], r)) = Len(logged[t]) + 1
        /\ \A i \in 1 .. Len(logged[t]) : Append(logged[t], r)[i] = logged[t][i]
        /\ Append(logged[t], r)[Len(logged[t]) + 1] = r
        /\ Last(Append(logged[t], r)) = r /\ Front(Append(logged[t], r)) = logged[t]
    BY <1>1, <1>4, AppendElements
  <2>2. \A i \in DOMAIN Append(logged[t], r) : Append(logged[t], r)[i].by = t
    BY <1>1, <1>4, <2>1 DEF IInv, Authors
  <2> QED BY <2>1, <2>2
<1>7. /\ todo'[t] = SinksOf(l) /\ logged'[t] = Append(logged[t], r)
      /\ pc'[t] = IF SinksOf(l) = <<>> THEN "idle" ELSE "emit"
      /\ \A u \in Threads \ {t} : pc'[u] = pc[u] /\ todo'[u] = todo[u] /\ logged'[u] = logged[u]
      /\ job[t] = NoJob /\ waiting[t] = NoFlush
  BY <1>1, <1>5 DEF IInv, TypeOK, Calls
<1>8. UNCHANGED <<instance, inits, factoryUser, job, logger, accepted, delivered,
                  waiting, due>>
  BY DEF BeginEntry
<1>9. TypeOK'
  BY <1>2, <1>5, <1>6, <1>8 DEF IInv, TypeOK
<1>10. Stored' /\ Distinct'
  BY <1>8 DEF IInv, Stored, Distinct
<1>11. \A u \in Threads : Answers(u)' = Answers(u)
  BY <1>8 DEF Answers
<1>12. Calls'
  BY <1>1, <1>7, <1>8, <1>11 DEF IInv, Calls, NoJob
<1>13. Emitting'
  <2> SUFFICES ASSUME NEW u \in Threads, pc'[u] = "emit"
               PROVE  /\ todo'[u] # <<>> /\ IsInjective(todo'[u])
                      /\ logger[u] # NoLogger /\ logged'[u] # <<>>
                      /\ Last(logged'[u]).sinks = ToSet(SinksOf(logger[u]))
                      /\ ToSet(todo'[u]) \subseteq Last(logged'[u]).sinks
    BY <1>8 DEF Emitting, SinksOf
  <2>1. CASE u = t
    <3> HIDE DEF l
    <3>1. todo'[u] = SinksOf(l) /\ SinksOf(l) # <<>>
      BY <1>7, <2>1
    <3>2. logged'[u] # <<>> /\ Last(logged'[u]) = r
      BY <1>6, <1>7, <2>1, Zenon
    <3>3. logger[u] = l /\ l # NoLogger
      BY <1>1, <2>1 DEF l
    <3> QED BY <1>2, <1>4, <3>1, <3>2, <3>3
  <2>2. CASE u # t
    BY <1>7, <2>2 DEF IInv, Emitting
  <2> QED BY <2>1, <2>2
<1>14. Authors'
  BY <1>6, <1>7, SMTT(40) DEF IInv, Authors
<1>15. Debts'
  BY <1>1, <1>7, <1>8, <1>11 DEF IInv, Debts
<1>16. Held'
  BY <1>1, <1>7, <1>8 DEF IInv, Held, PendingAt, NoJob
<1>17. FanOut'
  <2> SUFFICES ASSUME NEW u \in Threads, NEW s \in Sinks
               PROVE  Selected(accepted[s], RecordsBy(u)) = Owed(u, s)'
    BY <1>8 DEF FanOut, RecordsBy, Records
  <2>1. Selected(accepted[s], RecordsBy(u)) = Owed(u, s)
    BY DEF IInv, FanOut
  <2>2. CASE u # t
    BY <1>7, <2>1, <2>2 DEF Owed, RecordsFor, Records
  <2>3. CASE u = t
    <3>1. Owed(t, s) = Selected(logged[t], RecordsFor(s))
      BY <1>1 DEF Owed
    <3>2. CASE s \in ToSet(SinksOf(l))
      <4>1. SinksOf(l) # <<>>
        BY <3>2, InToSet
      <4> QED BY <1>6, <1>7, <2>1, <2>3, <3>1, <3>2, <4>1 DEF Owed, RecordsFor, Records
    <3>3. CASE s \notin ToSet(SinksOf(l))
      <4>1. r \notin RecordsFor(s)
        BY <1>4, <3>3 DEF RecordsFor
      <4>2. Selected(logged'[t], RecordsFor(s)) = Selected(logged[t], RecordsFor(s))
        BY <1>1, <1>4, <1>7, <4>1, SelectedAppend
      <4>3. Owed(t, s)' = Selected(logged'[t], RecordsFor(s))
        BY <1>7, <3>3 DEF Owed, RecordsFor, Records
      <4> QED BY <2>1, <2>3, <3>1, <4>2, <4>3
    <3> QED BY <3>2, <3>3
  <2> QED BY <2>2, <2>3
<1> QED BY <1>9, <1>10, <1>12, <1>13, <1>14, <1>15, <1>16, <1>17 DEF IInv

(* ~LogEntry gives the record to its next sink.                            *)
LEMMA EntryGoesOn ==
    ASSUME IInv, NEW t \in Threads, EmitNext(t)
    PROVE  IInv'
<1> DEFINE s == Head(todo[t])
           rest == Tail(todo[t])
           r == Last(logged[t])
<1>1. /\ pc[t] = "emit" /\ todo[t] \in Seq(Sinks) /\ todo[t] # <<>> /\ IsInjective(todo[t])
      /\ logger[t] # NoLogger /\ logger[t] \in Loggers
      /\ logged[t] \in Seq(Records) /\ logged[t] # <<>>
      /\ r.sinks = ToSet(SinksOf(logger[t]))
      /\ ToSet(todo[t]) \subseteq r.sinks
  BY DEF EmitNext, IInv, TypeOK, Emitting
<1>2. /\ s \in Sinks /\ rest \in Seq(Sinks) /\ ToSet(todo[t]) = {s} \cup ToSet(rest)
      /\ IsInjective(rest) /\ s \notin ToSet(rest)
  BY <1>1, HeadTailElements
<1>3. /\ r \in Records /\ r.by = t /\ s \in r.sinks
      /\ Front(logged[t]) \in Seq(Records) /\ logged[t] = Append(Front(logged[t]), r)
  <2>1. /\ r \in Records /\ Front(logged[t]) \in Seq(Records)
        /\ logged[t] = Append(Front(logged[t]), r)
    BY <1>1, FrontLastElements
  <2>2. r.by = t
    <3>1. Len(logged[t]) \in DOMAIN logged[t]
      BY <1>1, LenProperties, EmptySeq
    <3> QED BY <3>1 DEF Last, IInv, Authors
  <2> QED BY <1>1, <1>2, <2>1, <2>2
<1>4. /\ accepted' = [accepted EXCEPT ![s] = Append(accepted[s], r)]
      /\ todo' = [todo EXCEPT ![t] = rest]
      /\ pc' = [pc EXCEPT ![t] = IF rest = <<>> THEN "idle" ELSE "emit"]
      /\ UNCHANGED <<instance, inits, factoryUser, job, logger, logged, delivered,
                     waiting, due>>
  BY DEF EmitNext, EmitTo
<1>5. /\ accepted[s] \in Seq(Records) /\ Append(accepted[s], r) \in Seq(Records)
      /\ Len(accepted[s]) \in Nat
      /\ Len(Append(accepted[s], r)) = Len(accepted[s]) + 1
      /\ \A i \in 1 .. Len(accepted[s]) : Append(accepted[s], r)[i] = accepted[s][i]
      /\ Append(accepted[s], r)[Len(accepted[s]) + 1] = r
  BY <1>2, <1>3, AppendElements, LenProperties DEF IInv, TypeOK
<1>6. /\ accepted'[s] = Append(accepted[s], r)
      /\ \A j \in Sinks \ {s} : accepted'[j] = accepted[j]
      /\ todo'[t] = rest /\ pc'[t] = IF rest = <<>> THEN "idle" ELSE "emit"
      /\ \A u \in Threads \ {t} : pc'[u] = pc[u] /\ todo'[u] = todo[u]
      /\ job[t] = NoJob /\ waiting[t] = NoFlush
  BY <1>1, <1>2, <1>4 DEF IInv, TypeOK, Calls
<1> HIDE DEF s, rest, r
<1>7. TypeOK'
  BY <1>2, <1>4, <1>5 DEF IInv, TypeOK
<1>8. Stored' /\ Distinct' /\ Authors'
  BY <1>4 DEF IInv, Stored, Distinct, Authors
<1>9. \A u \in Threads : Answers(u)' = Answers(u)
  BY <1>4 DEF Answers
<1>10. Calls'
  BY <1>1, <1>4, <1>6, <1>9 DEF IInv, Calls, NoJob
<1>11. Emitting'
  <2> SUFFICES ASSUME NEW u \in Threads, pc'[u] = "emit"
               PROVE  /\ todo'[u] # <<>> /\ IsInjective(todo'[u])
                      /\ logger[u] # NoLogger /\ logged[u] # <<>>
                      /\ Last(logged[u]).sinks = ToSet(SinksOf(logger[u]))
                      /\ ToSet(todo'[u]) \subseteq Last(logged[u]).sinks
    BY <1>4 DEF Emitting, SinksOf
  <2>1. CASE u = t
    BY <1>1, <1>2, <1>6, <2>1 DEF r
  <2>2. CASE u # t
    BY <1>6, <2>2 DEF IInv, Emitting
  <2> QED BY <2>1, <2>2
<1>12. \A j \in Sinks : /\ Len(accepted'[j]) \in Nat /\ Len(accepted[j]) \in Nat
                        /\ Len(accepted[j]) <= Len(accepted'[j])
  <2> SUFFICES ASSUME NEW j \in Sinks
               PROVE  /\ Len(accepted'[j]) \in Nat /\ Len(accepted[j]) \in Nat
                      /\ Len(accepted[j]) <= Len(accepted'[j])
    OBVIOUS
  <2>1. accepted[j] \in Seq(Records)
    BY DEF IInv, TypeOK
  <2>2. Len(accepted[j]) \in Nat
    BY <2>1, LenProperties
  <2>3. CASE j = s
    BY <1>5, <1>6, <2>3
  <2>4. CASE j # s
    BY <1>6, <2>2, <2>4
  <2> QED BY <2>3, <2>4
<1>13. Debts'
  <2> SUFFICES ASSUME NEW j \in Async
               PROVE  /\ Len(delivered[j]) <= Len(accepted'[j])
                      /\ \A u \in Threads :
                            /\ due[u][j] <= Len(accepted'[j])
                            /\ pc'[u] = "flush" /\ j \in Answers(u) \ ToSet(todo'[u]) =>
                                   due[u][j] <= Len(delivered[j])
                            /\ waiting[u] # NoFlush /\ j = Head(todo'[u]) =>
                                   due[u][j] <= waiting[u] /\ waiting[u] <= Len(accepted'[j])
    BY <1>4, <1>9 DEF Debts
  <2>1. /\ Len(accepted'[j]) \in Nat /\ Len(accepted[j]) \in Nat /\ Len(delivered[j]) \in Nat
        /\ Len(accepted[j]) <= Len(accepted'[j])
        /\ \A u \in Threads : due[u][j] \in Nat /\ waiting[u] \in Nat \cup {NoFlush}
    BY <1>12 DEF Sinks, IInv, TypeOK
  <2>2. Len(delivered[j]) <= Len(accepted'[j])
    BY <2>1 DEF IInv, Debts
  <2>3. ASSUME NEW u \in Threads
        PROVE  /\ due[u][j] <= Len(accepted'[j])
               /\ pc'[u] = "flush" /\ j \in Answers(u) \ ToSet(todo'[u]) =>
                      due[u][j] <= Len(delivered[j])
               /\ waiting[u] # NoFlush /\ j = Head(todo'[u]) =>
                      due[u][j] <= waiting[u] /\ waiting[u] <= Len(accepted'[j])
    <3>1. due[u][j] <= Len(accepted'[j])
      BY <2>1 DEF IInv, Debts
    <3>2. pc'[u] = "flush" => u # t
      BY <1>6
    <3>3. waiting[u] # NoFlush => u # t
      BY <1>6
    <3> QED BY <1>6, <2>1, <3>1, <3>2, <3>3 DEF IInv, Debts
  <2> QED BY <2>2, <2>3
<1>14. Held'
  <2> SUFFICES ASSUME NEW j \in Async
               PROVE  /\ \A i \in PendingAt(j)' :
                            /\ logger[accepted'[j][i].by] # NoLogger
                            /\ j \in ToSet(logger[accepted'[j][i].by].async)
                      /\ \A u \in Threads :
                            job[u].kind = "destroy" =>
                                /\ waiting[u] # NoFlush /\ j = Head(todo'[u]) =>
                                      \A i \in DOMAIN accepted'[j] :
                                          accepted'[j][i].by = u => i <= waiting[u]
                                /\ j \notin ToSet(todo'[u]) =>
                                      \A i \in PendingAt(j)' : accepted'[j][i].by # u
    BY <1>4 DEF Held
  <2>1. CASE j # s
    <3>1. accepted'[j] = accepted[j] /\ PendingAt(j)' = PendingAt(j)
      BY <1>4, <1>6, <2>1 DEF PendingAt, Sinks
    <3>2. \A u \in Threads : job[u].kind = "destroy" => todo'[u] = todo[u]
      BY <1>6 DEF NoJob
    <3> QED BY <3>1, <3>2 DEF IInv, Held
  <2>2. CASE j = s
    <3> DEFINE n == Len(accepted[j])
    <3>1. j \in ToSet(logger[t].async)
      BY <1>1, <1>3, <2>2, SinksOfType
    <3>2. /\ n \in Nat /\ DOMAIN accepted[j] = 1 .. n /\ DOMAIN accepted'[j] = 1 .. n + 1
          /\ accepted'[j][n + 1] = r
          /\ \A i \in 1 .. n : accepted'[j][i] = accepted[j][i]
      BY <1>5, <1>6, <2>2, LenProperties
    <3>3. /\ Len(delivered[j]) \in Nat
          /\ PendingAt(j) = Len(delivered[j]) + 1 .. n
          /\ PendingAt(j)' = Len(delivered[j]) + 1 .. n + 1
      BY <1>4, <1>5, <1>6, <2>2 DEF PendingAt, IInv, TypeOK
    <3> HIDE DEF n
    <3>4. ASSUME NEW i \in DOMAIN accepted'[j]
          PROVE  \/ /\ i \in DOMAIN accepted[j] /\ accepted'[j][i] = accepted[j][i]
                    /\ i \in PendingAt(j)' => i \in PendingAt(j)
                 \/ accepted'[j][i] = r
      <4>1. i \in 1 .. n \/ i = n + 1
        BY <3>2
      <4> QED BY <3>2, <3>3, <4>1
    <3>5. PendingAt(j)' \subseteq DOMAIN accepted'[j]
      BY <3>2, <3>3
    <3>6. \A u \in Threads : job[u].kind = "destroy" => u # t /\ todo'[u] = todo[u]
      BY <1>6 DEF NoJob
    <3>7. \A i \in PendingAt(j)' : /\ logger[accepted'[j][i].by] # NoLogger
                                   /\ j \in ToSet(logger[accepted'[j][i].by].async)
      BY <1>1, <1>3, <3>1, <3>4, <3>5 DEF IInv, Held
    <3>8. \A u \in Threads :
              job[u].kind = "destroy" =>
                  /\ waiting[u] # NoFlush /\ j = Head(todo'[u]) =>
                        \A i \in DOMAIN accepted'[j] : accepted'[j][i].by = u => i <= waiting[u]
                  /\ j \notin ToSet(todo'[u]) =>
                        \A i \in PendingAt(j)' : accepted'[j][i].by # u
      BY <1>3, <3>4, <3>5, <3>6 DEF IInv, Held
    <3> QED BY <3>7, <3>8
  <2> QED BY <2>1, <2>2
<1>15. FanOut'
  <2> SUFFICES ASSUME NEW u \in Threads, NEW j \in Sinks
               PROVE  Selected(accepted'[j], RecordsBy(u)) = Owed(u, j)'
    BY DEF FanOut, RecordsBy, Records
  <2>1. Selected(accepted[j], RecordsBy(u)) = Owed(u, j)
    BY DEF IInv, FanOut
  <2>2. CASE u # t
    <3>1. Owed(u, j)' = Owed(u, j)
      BY <1>4, <1>6, <2>2 DEF Owed, RecordsFor, Records
    <3>2. r \notin RecordsBy(u)
      BY <1>3, <2>2 DEF RecordsBy
    <3>3. Selected(accepted'[j], RecordsBy(u)) = Selected(accepted[j], RecordsBy(u))
      <4>1. CASE j = s
        <5>1. accepted[j] \in Seq(Records) /\ accepted'[j] = Append(accepted[j], r)
          BY <1>5, <1>6, <4>1
        <5>2. Selected(Append(accepted[j], r), RecordsBy(u)) = Selected(accepted[j], RecordsBy(u))
          BY <1>3, <3>2, <5>1, SelectedAppend
        <5> QED BY <5>1, <5>2
      <4>2. CASE j # s
        BY <1>6, <4>2
      <4> QED BY <4>1, <4>2
    <3> QED BY <2>1, <3>1, <3>3
  <2>3. CASE u = t /\ j # s
    <3>1. j \in ToSet(todo'[t]) <=> j \in ToSet(todo[t])
      BY <1>2, <1>6, <2>3
    <3>2. j \in ToSet(todo[t]) => rest # <<>>
      BY <1>2, <2>3, InToSet
    <3>3. Owed(t, j)' = Owed(t, j)
      BY <1>1, <1>4, <1>6, <3>1, <3>2 DEF Owed, RecordsFor, Records
    <3>4. accepted'[j] = accepted[j]
      BY <1>6, <2>3
    <3> QED BY <2>1, <2>3, <3>3, <3>4
  <2>4. CASE u = t /\ j = s
    <3>1. Owed(t, j) = Selected(Front(logged[t]), RecordsFor(j))
      BY <1>1, <1>2, <2>4 DEF Owed
    <3>2. Owed(t, j)' = Selected(logged[t], RecordsFor(j))
      BY <1>2, <1>4, <1>6, <2>4 DEF Owed, RecordsFor, Records
    <3>3. r \in RecordsFor(j) /\ r \in RecordsBy(t)
      BY <1>3, <2>4 DEF RecordsFor, RecordsBy
    <3>4. Selected(logged[t], RecordsFor(j)) = Append(Selected(Front(logged[t]), RecordsFor(j)), r)
      <4>1. Selected(Append(Front(logged[t]), r), RecordsFor(j))
              = Append(Selected(Front(logged[t]), RecordsFor(j)), r)
        BY <1>3, <3>3, SelectedAppend
      <4> QED BY <1>3, <4>1
    <3>5. Selected(accepted'[j], RecordsBy(t)) = Append(Selected(accepted[j], RecordsBy(t)), r)
      <4>1. accepted[j] \in Seq(Records) /\ accepted'[j] = Append(accepted[j], r)
        BY <1>5, <1>6, <2>4
      <4>2. Selected(Append(accepted[j], r), RecordsBy(t))
              = Append(Selected(accepted[j], RecordsBy(t)), r)
        <5>1. r \in Records /\ r \in RecordsBy(t)
          BY <1>3, <3>3
        <5> QED BY <4>1, <5>1, SelectedAppend
      <4> QED BY <4>1, <4>2
    <3> QED BY <2>1, <2>4, <3>1, <3>2, <3>4, <3>5
  <2> QED BY <2>2, <2>3, <2>4
<1> QED BY <1>7, <1>8, <1>10, <1>11, <1>13, <1>14, <1>15 DEF IInv

(* AsyncSink::Flush is called for the next sink.                           *)
LEMMA FlushGoesOn ==
    ASSUME IInv, NEW t \in Threads, FlushNext(t)
    PROVE  IInv'
<1> DEFINE h == Head(todo[t])
<1>1. /\ pc[t] = "flush" /\ todo[t] # <<>> /\ waiting[t] = NoFlush
      /\ waiting' = [waiting EXCEPT ![t] = Len(accepted[h])]
      /\ UNCHANGED <<instance, inits, factoryUser, pc, job, todo, logger, logged,
                     accepted, delivered, due>>
  BY DEF FlushNext
<1>2. /\ waiting'[t] = Len(accepted[h])
      /\ \A u \in Threads \ {t} : waiting'[u] = waiting[u]
  BY <1>1 DEF IInv, TypeOK
<1>3. h \in Sinks
  BY <1>1, HeadTailElements DEF IInv, TypeOK
<1>4. TypeOK'
  BY <1>1, <1>3 DEF IInv, TypeOK
<1>5. Stored' /\ Distinct' /\ Emitting' /\ Authors'
  BY <1>1 DEF IInv, Stored, Distinct, Emitting, Authors
<1>6. \A u \in Threads : Answers(u)' = Answers(u)
  BY <1>1 DEF Answers
<1>7. Calls'
  BY <1>1, <1>2, <1>6 DEF IInv, Calls
<1>8. Debts'
  <2> SUFFICES ASSUME NEW j \in Async, NEW u \in Threads,
                      waiting'[u] # NoFlush, j = Head(todo[u])
               PROVE  due[u][j] <= waiting'[u] /\ waiting'[u] <= Len(accepted[j])
    BY <1>1, <1>6 DEF IInv, Debts
  <2>1. due[u][j] <= Len(accepted[j]) /\ Len(accepted[j]) \in Nat
    BY DEF IInv, Debts, TypeOK, Sinks
  <2> QED BY <1>2, <2>1 DEF IInv, Debts
<1>9. Held'
  <2> SUFFICES ASSUME NEW j \in Async, NEW u \in Threads, job[u].kind = "destroy",
                      waiting'[u] # NoFlush, j = Head(todo[u]),
                      NEW i \in DOMAIN accepted[j], accepted[j][i].by = u
               PROVE  i <= waiting'[u]
    BY <1>1 DEF IInv, Held, PendingAt
  <2>1. i <= Len(accepted[j])
    BY LenProperties DEF IInv, TypeOK, Sinks
  <2> QED BY <1>2, <2>1 DEF IInv, Held
<1>10. FanOut'
  BY <1>1, FanOutKept DEF IInv
<1> QED BY <1>4, <1>5, <1>7, <1>8, <1>9, <1>10 DEF IInv

(* AsyncSink::Flush returns.                                               *)
LEMMA FlushComesBack ==
    ASSUME IInv, NEW t \in Threads, FlushReturns(t)
    PROVE  IInv'
<1> DEFINE h == Head(todo[t])
           rest == Tail(todo[t])
<1>1. /\ pc[t] = "flush" /\ waiting[t] # NoFlush /\ waiting[t] <= Len(delivered[h])
      /\ waiting' = [waiting EXCEPT ![t] = NoFlush]
      /\ todo' = [todo EXCEPT ![t] = rest]
      /\ UNCHANGED <<instance, inits, factoryUser, pc, job, logger, logged,
                     accepted, delivered, due>>
  BY DEF FlushReturns
<1>2. /\ waiting'[t] = NoFlush /\ todo'[t] = rest
      /\ \A u \in Threads \ {t} : waiting'[u] = waiting[u] /\ todo'[u] = todo[u]
  BY <1>1 DEF IInv, TypeOK
<1>3. todo[t] # <<>>
  BY <1>1 DEF IInv, Calls
<1>4. h \in Sinks /\ rest \in Seq(Sinks) /\ ToSet(todo[t]) = {h} \cup ToSet(rest)
  BY <1>3, HeadTailElements DEF IInv, TypeOK
<1> HIDE DEF h, rest
<1>5. TypeOK'
  BY <1>1, <1>4 DEF IInv, TypeOK
<1>6. Stored' /\ Distinct' /\ Authors'
  BY <1>1 DEF IInv, Stored, Distinct, Authors
<1>7. Emitting'
  BY <1>1, <1>2 DEF IInv, Emitting
<1>8. \A u \in Threads : Answers(u)' = Answers(u)
  BY <1>1 DEF Answers
<1>9. Calls'
  BY <1>1, <1>2, <1>4, <1>8 DEF IInv, Calls
<1>10. Debts'
  <2> SUFFICES ASSUME NEW j \in Async, NEW u \in Threads
               PROVE  /\ pc[u] = "flush" /\ j \in Answers(u) \ ToSet(todo'[u]) =>
                             due[u][j] <= Len(delivered[j])
                      /\ waiting'[u] # NoFlush /\ j = Head(todo'[u]) =>
                             due[u][j] <= waiting'[u] /\ waiting'[u] <= Len(accepted[j])
    BY <1>1, <1>8 DEF IInv, Debts
  <2>1. CASE u # t
    BY <1>2, <2>1 DEF IInv, Debts
  <2>2. CASE u = t
    <3>1. CASE j = h
      <4>1. due[t][j] <= waiting[t]
        BY <1>1, <3>1 DEF IInv, Debts, h
      <4>2. due[t][j] \in Nat /\ waiting[t] \in Nat /\ Len(delivered[j]) \in Nat
        BY <1>1 DEF IInv, TypeOK
      <4> QED BY <1>1, <1>2, <2>2, <3>1, <4>1, <4>2
    <3>2. CASE j # h
      BY <1>2, <1>4, <2>2, <3>2 DEF IInv, Debts
    <3> QED BY <3>1, <3>2
  <2> QED BY <2>1, <2>2
<1>11. Held'
  <2> SUFFICES ASSUME NEW j \in Async, NEW u \in Threads, job[u].kind = "destroy"
               PROVE  /\ waiting'[u] # NoFlush /\ j = Head(todo'[u]) =>
                            \A i \in DOMAIN accepted[j] :
                                accepted[j][i].by = u => i <= waiting'[u]
                      /\ j \notin ToSet(todo'[u]) =>
                            \A i \in PendingAt(j) : accepted[j][i].by # u
    BY <1>1 DEF IInv, Held, PendingAt
  <2>1. CASE u # t
    BY <1>2, <2>1 DEF IInv, Held
  <2>2. CASE u = t
    <3>1. CASE j = h
      <4>1. \A i \in DOMAIN accepted[j] : accepted[j][i].by = t => i <= waiting[t]
        BY <1>1, <2>2, <3>1 DEF IInv, Held, h
      <4>2. /\ waiting[t] \in Nat /\ Len(delivered[j]) \in Nat /\ Len(accepted[j]) \in Nat
            /\ DOMAIN accepted[j] = 1 .. Len(accepted[j])
            /\ waiting[t] <= Len(delivered[j])
        BY <1>1, <3>1 DEF IInv, TypeOK, Sinks
      <4>3. \A i \in PendingAt(j) : i \in DOMAIN accepted[j] /\ ~(i <= waiting[t])
        BY <4>2 DEF PendingAt
      <4>4. \A i \in PendingAt(j) : accepted[j][i].by # t
        BY <4>1, <4>3
      <4> QED BY <1>2, <2>2, <4>4
    <3>2. CASE j # h
      BY <1>2, <1>4, <2>2, <3>2 DEF IInv, Held
    <3> QED BY <3>1, <3>2
  <2> QED BY <2>1, <2>2
<1>12. FanOut'
  BY <1>1, <1>2, FanOutKept DEF IInv
<1> QED BY <1>5, <1>6, <1>7, <1>9, <1>10, <1>11, <1>12 DEF IInv

(* The call that flushes returns.                                          *)
LEMMA FlushEnds ==
    ASSUME IInv, NEW t \in Threads, FlushDone(t)
    PROVE  IInv'
<1>1. /\ pc[t] = "flush" /\ todo[t] = <<>> /\ waiting[t] = NoFlush
      /\ pc' = [pc EXCEPT ![t] = "idle"] /\ job' = [job EXCEPT ![t] = NoJob]
      /\ due' = [due EXCEPT ![t] = [s \in Async |-> 0]]
      /\ UNCHANGED <<inits, todo, logged, accepted, delivered, waiting>>
  BY DEF FlushDone, IInv, Calls
<1>2. \/ /\ job[t].kind = "get"
         /\ logger' = [logger EXCEPT ![t] = StoredLogger(job[t].name)]
         /\ factoryUser' = NoThread /\ instance' = instance
      \/ /\ job[t].kind = "destroy"
         /\ logger' = [logger EXCEPT ![t] = NoLogger]
         /\ factoryUser' = factoryUser /\ instance' = instance
      \/ /\ job[t].kind = "shutdown"
         /\ logger' = logger
         /\ factoryUser' = NoThread /\ instance' = NoInstance
  BY DEF FlushDone
<1>3. /\ logger'[t] \in Loggers \cup {NoLogger}
      /\ logger'[t] # NoLogger => IsInjective(SinksOf(logger'[t]))
      /\ logger' = [logger EXCEPT ![t] = logger'[t]]
      /\ job[t].kind = "get" => logger[t] = NoLogger
      /\ job[t].kind = "shutdown" => logger'[t] = logger[t]
      /\ job[t].kind = "destroy" => logger'[t] = NoLogger
  <2>1. CASE job[t].kind = "get"
    <3> DEFINE l == StoredLogger(job[t].name)
    <3>1. job[t].name \in Names /\ logger[t] = NoLogger
      BY <2>1 DEF IInv, Calls
    <3>2. l \in Loggers /\ IsInjective(SinksOf(l))
      BY <3>1, StoredLoggerIsGood DEF IInv
    <3> HIDE DEF l
    <3>3. logger' = [logger EXCEPT ![t] = l]
      BY <1>2, <2>1 DEF l
    <3> QED BY <2>1, <3>1, <3>2, <3>3 DEF IInv, TypeOK
  <2>2. CASE job[t].kind = "destroy"
    BY <1>2, <2>2 DEF IInv, TypeOK
  <2>3. CASE job[t].kind = "shutdown"
    BY <1>2, <2>3 DEF IInv, TypeOK, Distinct
  <2> QED BY <1>2, <2>1, <2>2, <2>3
<1>4. /\ pc'[t] = "idle" /\ job'[t] = NoJob /\ due'[t] = [s \in Async |-> 0]
  BY <1>1 DEF IInv, TypeOK
<1>5. ASSUME NEW u \in Threads, u # t
      PROVE  /\ pc'[u] = pc[u] /\ job'[u] = job[u] /\ due'[u] = due[u]
             /\ logger'[u] = logger[u]
             /\ Answers(u)' = Answers(u)
             /\ job[u].kind \in {"get", "shutdown"} => factoryUser' = factoryUser
  <2>1. pc'[u] = pc[u] /\ job'[u] = job[u] /\ due'[u] = due[u] /\ logger'[u] = logger[u]
    BY <1>1, <1>3, <1>5 DEF IInv, TypeOK
  <2>2. job[u].kind \in {"get", "shutdown"} => job[t].kind = "destroy"
    BY <1>2, <1>5 DEF IInv, Calls
  <2>3. job[u].kind = "shutdown" => instance' = instance
    BY <1>2, <2>2
  <2>4. Answers(u)' = Answers(u)
    BY <2>1, <2>3 DEF Answers
  <2> QED BY <1>2, <2>1, <2>2, <2>4
<1>6. TypeOK'
  <2>1. due' \in [Threads -> [Async -> Nat]]
    BY <1>1 DEF IInv, TypeOK
  <2>2. job' \in [Threads -> [kind : {"none", "get", "destroy", "shutdown"},
                              name : Names \cup {"none"}]]
    BY <1>1 DEF IInv, TypeOK, NoJob
  <2>3. factoryUser' \in Threads \cup {NoThread}
    BY <1>2 DEF IInv, TypeOK
  <2>4. pc' \in [Threads -> {"idle", "emit", "flush"}]
    BY <1>1 DEF IInv, TypeOK
  <2>5. logger' \in [Threads -> Loggers \cup {NoLogger}]
    BY <1>3 DEF IInv, TypeOK
  <2>6. /\ instance' \in [up : BOOLEAN, level : Levels, loggers : SUBSET Names]
        /\ ~instance'.up => instance' = NoInstance
        /\ instance'.level = Off => instance'.loggers = {}
    <3>1. instance' = instance \/ instance' = NoInstance
      BY <1>2
    <3>2. NoInstance \in [up : BOOLEAN, level : Levels, loggers : SUBSET Names]
      BY LevelsAssumption DEF NoInstance
    <3>3. NoInstance.loggers = {}
      BY DEF NoInstance
    <3> QED BY <3>1, <3>2, <3>3 DEF IInv, TypeOK
  <2> QED BY <1>1, <2>1, <2>2, <2>3, <2>4, <2>5, <2>6 DEF IInv, TypeOK
<1>7. Stored' /\ Distinct'
  <2>1. Stored'
    BY <1>2, FS_EmptySet DEF IInv, Stored, NoInstance
  <2> QED BY <1>3, <1>5, <2>1 DEF IInv, Distinct, SinksOf
<1>8. Authors'
  BY <1>1 DEF IInv, Authors
<1>9. Calls'
  BY <1>1, <1>4, <1>5 DEF IInv, Calls, NoJob
<1>10. Emitting'
  BY <1>1, <1>4, <1>5 DEF IInv, Emitting, SinksOf
<1>11. Debts'
  <2> SUFFICES ASSUME NEW j \in Async, NEW u \in Threads
               PROVE  /\ due'[u][j] <= Len(accepted[j])
                      /\ pc'[u] = "flush" /\ j \in Answers(u)' \ ToSet(todo[u]) =>
                             due'[u][j] <= Len(delivered[j])
                      /\ waiting[u] # NoFlush /\ j = Head(todo[u]) =>
                             due'[u][j] <= waiting[u] /\ waiting[u] <= Len(accepted[j])
    BY <1>1 DEF IInv, Debts
  <2>1. Len(accepted[j]) \in Nat
    BY DEF IInv, TypeOK, Sinks
  <2>2. CASE u = t
    BY <1>1, <1>4, <2>1, <2>2
  <2>3. CASE u # t
    BY <1>5, <2>3 DEF IInv, Debts
  <2> QED BY <2>2, <2>3
<1>12. Held'
  <2>1. ASSUME NEW j \in Async, NEW i \in PendingAt(j)
        PROVE  /\ logger'[accepted[j][i].by] # NoLogger
               /\ j \in ToSet(logger'[accepted[j][i].by].async)
    <3> DEFINE u == accepted[j][i].by
    <3>1. u \in Threads
      <4>1. /\ Len(delivered[j]) \in Nat /\ Len(accepted[j]) \in Nat
            /\ accepted[j] \in Seq(Records)
        BY DEF IInv, TypeOK, Sinks
      <4>2. i \in 1 .. Len(accepted[j])
        BY <4>1 DEF PendingAt
      <4>3. accepted[j][i] \in Records
        BY <4>1, <4>2, ElementOfSeq
      <4> QED BY <4>3 DEF Records
    <3>2. logger[u] # NoLogger /\ j \in ToSet(logger[u].async)
      BY DEF IInv, Held
    <3> HIDE DEF u
    <3>3. CASE u # t
      BY <1>5, <3>1, <3>2, <3>3 DEF u
    <3>4. CASE u = t
      <4>1. job[t].kind # "destroy"
        <5>1. j \notin ToSet(todo[t])
          BY <1>1, InToSet
        <5> QED BY <3>4, <5>1 DEF IInv, Held, u
      <4>2. logger'[t] = logger[t]
        BY <1>2, <1>3, <3>2, <3>4, <4>1
      <4> QED BY <3>2, <3>4, <4>2 DEF u
    <3> QED BY <3>3, <3>4
  <2>2. ASSUME NEW j \in Async, NEW u \in Threads, job'[u].kind = "destroy"
        PROVE  /\ waiting[u] # NoFlush /\ j = Head(todo[u]) =>
                      \A i \in DOMAIN accepted[j] : accepted[j][i].by = u => i <= waiting[u]
               /\ j \notin ToSet(todo[u]) =>
                      \A i \in PendingAt(j) : accepted[j][i].by # u
    BY <1>4, <1>5, <2>2 DEF IInv, Held, NoJob
  <2> QED BY <1>1, <2>1, <2>2 DEF Held, PendingAt
<1>13. FanOut'
  BY <1>1, <1>4, <1>5, FanOutKept DEF IInv
<1> QED BY <1>6, <1>7, <1>8, <1>9, <1>10, <1>11, <1>12, <1>13 DEF IInv

(* A sink processes a record.                                              *)
LEMMA RecordDelivered ==
    ASSUME IInv, NEW s \in Async, Deliver(s)
    PROVE  IInv'
<1> DEFINE n == Len(delivered[s])
           r == accepted[s][n + 1]
<1>1. /\ n < Len(accepted[s])
      /\ delivered' = [delivered EXCEPT ![s] = Append(delivered[s], r)]
      /\ UNCHANGED <<instance, inits, factoryUser, pc, job, todo, logger, logged,
                     accepted, waiting, due>>
  BY DEF Deliver
<1>2. /\ delivered[s] \in Seq(Records) /\ accepted[s] \in Seq(Records)
      /\ n \in Nat /\ Len(accepted[s]) \in Nat
  BY DEF IInv, TypeOK, Sinks
<1>3. r \in Records
  BY <1>1, <1>2, ElementOfSeq
<1>4. /\ Append(delivered[s], r) \in Seq(Records)
      /\ Len(Append(delivered[s], r)) = n + 1
  BY <1>2, <1>3, AppendElements
<1>5. Len(delivered'[s]) = n + 1 /\ \A j \in Async \ {s} : delivered'[j] = delivered[j]
  BY <1>1, <1>4 DEF IInv, TypeOK
<1>6. TypeOK'
  BY <1>1, <1>4 DEF IInv, TypeOK
<1>7. Stored' /\ Distinct' /\ Emitting' /\ Authors'
  BY <1>1 DEF IInv, Stored, Distinct, Emitting, Authors
<1>8. \A u \in Threads : Answers(u)' = Answers(u)
  BY <1>1 DEF Answers
<1>9. Calls'
  BY <1>1, <1>8 DEF IInv, Calls
<1>10. \A j \in Async : /\ Len(delivered[j]) \in Nat /\ Len(delivered'[j]) \in Nat
                        /\ Len(delivered[j]) <= Len(delivered'[j])
                        /\ Len(delivered'[j]) <= Len(accepted[j])
                        /\ PendingAt(j)' \subseteq PendingAt(j)
  <2> SUFFICES ASSUME NEW j \in Async
               PROVE  /\ Len(delivered[j]) \in Nat /\ Len(delivered'[j]) \in Nat
                      /\ Len(delivered[j]) <= Len(delivered'[j])
                      /\ Len(delivered'[j]) <= Len(accepted[j])
                      /\ PendingAt(j)' \subseteq PendingAt(j)
    OBVIOUS
  <2>1. Len(delivered[j]) \in Nat /\ Len(accepted[j]) \in Nat
        /\ Len(delivered[j]) <= Len(accepted[j])
    BY DEF IInv, TypeOK, Sinks, Debts
  <2>2. CASE j = s
    BY <1>1, <1>2, <1>5, <2>1, <2>2 DEF PendingAt
  <2>3. CASE j # s
    BY <1>1, <1>5, <2>1, <2>3 DEF PendingAt
  <2> QED BY <2>2, <2>3
<1>11. Debts'
  <2> SUFFICES ASSUME NEW j \in Async, NEW u \in Threads,
                      pc[u] = "flush", j \in Answers(u) \ ToSet(todo[u])
               PROVE  due[u][j] <= Len(delivered'[j])
    BY <1>1, <1>8, <1>10 DEF IInv, Debts
  <2>1. due[u][j] <= Len(delivered[j]) /\ due[u][j] \in Nat
    BY DEF IInv, Debts, TypeOK
  <2> QED BY <1>10, <2>1
<1>12. Held'
  BY <1>1, <1>10 DEF IInv, Held
<1>13. FanOut'
  BY <1>1, FanOutKept DEF IInv
<1> QED BY <1>6, <1>7, <1>9, <1>11, <1>12, <1>13 DEF IInv

(* The steps of a thread on its logger and on the factory.                 *)
LEMMA GetDummyStep ==
    ASSUME IInv, NEW t \in Threads, GetDummy(t)
    PROVE  IInv'
BY DummyLoggerIsGood, LoggerChanges DEF GetDummy, CanGet

LEMMA GetStoredStep ==
    ASSUME IInv, NEW t \in Threads, NEW n \in Names, GetStored(t, n)
    PROVE  IInv'
<1>1. StoredLogger(n) \in Loggers /\ IsInjective(SinksOf(StoredLogger(n)))
  BY StoredLoggerIsGood DEF IInv
<1> QED BY <1>1, LoggerChanges DEF GetStored, CanGet

LEMMA AddAsyncSinkStep ==
    ASSUME IInv, NEW t \in Threads, AddAsyncSink(t)
    PROVE  IInv'
<1> DEFINE l == [logger[t] EXCEPT !.async = Append(logger[t].async, t)]
<1>1. /\ pc[t] = "idle" /\ logger[t] # NoLogger /\ logger[t] \in Loggers
      /\ t \in Adders /\ t \notin ToSet(logger[t].async)
      /\ logger' = [logger EXCEPT ![t] = l]
  BY DEF AddAsyncSink, IInv, TypeOK
<1>2. logger[t].sync \in Seq(SyncSinks) /\ logger[t].async \in Seq(Async)
  BY <1>1 DEF Loggers
<1>3. t \in Async /\ t \in Sinks /\ t \notin SyncSinks
  BY <1>1, SinksAssumption DEF Async, Sinks
<1>4. Append(logger[t].async, t) \in Seq(Async)
      /\ ToSet(Append(logger[t].async, t)) = ToSet(logger[t].async) \cup {t}
  BY <1>2, <1>3, AppendElements
<1>5. l \in Loggers /\ l.sync = logger[t].sync /\ l.async = Append(logger[t].async, t)
  BY <1>1, <1>4 DEF Loggers
<1> HIDE DEF l
<1>6. IsInjective(SinksOf(l))
  <2> DEFINE q == SinksOf(logger[t])
  <2>1. q \in Seq(Sinks) /\ IsInjective(q) /\ ToSet(q) \cap Async = ToSet(logger[t].async)
    BY <1>1, SinksOfType DEF IInv, Distinct
  <2>2. t \notin ToSet(q)
    BY <1>1, <1>3, <2>1
  <2>3. SinksOf(l) = Append(q, t)
    <3>1. logger[t].sync \in Seq(Sinks) /\ logger[t].async \in Seq(Sinks)
      <4>1. SyncSinks \subseteq Sinks /\ Async \subseteq Sinks
        BY DEF Sinks
      <4> QED BY <1>2, <4>1, SeqMonotonic
    <3>2. logger[t].sync \o Append(logger[t].async, t) = Append(q, t)
      <4>1. \A x, y \in Seq(Sinks) : x \o Append(y, t) = Append(x \o y, t)
        BY <1>3, ConcatAppend
      <4> QED BY <3>1, <4>1, Zenon DEF SinksOf
    <3> QED BY <1>5, <3>2 DEF SinksOf
  <2> HIDE DEF q
  <2>4. IsInjective(Append(q, t))
    <3>1. /\ Append(q, t) \in Seq(Sinks) /\ Len(Append(q, t)) = Len(q) + 1
          /\ \A i \in 1 .. Len(q) : Append(q, t)[i] = q[i]
          /\ Append(q, t)[Len(q) + 1] = t
      BY <1>3, <2>1, AppendElements
    <3>2. /\ Len(q) \in Nat /\ DOMAIN q = 1 .. Len(q)
          /\ DOMAIN Append(q, t) = 1 .. Len(q) + 1
      BY <2>1, <3>1, LenProperties
    <3>3. \A i \in 1 .. Len(q) : q[i] # t
      BY <2>2, <3>2, InToSet
    <3>4. \A i \in 1 .. Len(q) + 1 : i \in 1 .. Len(q) \/ i = Len(q) + 1
      BY <3>2
    <3> QED BY <2>1, <3>1, <3>2, <3>3, <3>4 DEF IsInjective
  <2> QED BY <2>3, <2>4
<1>7. ToSet(logger[t].async) \subseteq ToSet(l.async)
  BY <1>4, <1>5
<1> QED BY <1>1, <1>5, <1>6, <1>7, LoggerChanges DEF AddAsyncSink

LEMMA WithNameStep ==
    ASSUME IInv, NEW t \in Threads, NEW n \in Names, WithName(t, n)
    PROVE  IInv'
<1> DEFINE l == [logger[t] EXCEPT !.name = n]
<1>1. /\ pc[t] = "idle" /\ logger[t] # NoLogger /\ logger[t] \in Loggers
      /\ logger' = [logger EXCEPT ![t] = l]
  BY DEF WithName, IInv, TypeOK
<1>2. l \in Loggers /\ l.sync = logger[t].sync /\ l.async = logger[t].async
  BY <1>1 DEF Loggers
<1> HIDE DEF l
<1>3. IsInjective(SinksOf(l))
  BY <1>1, <1>2 DEF IInv, Distinct, SinksOf
<1> QED BY <1>1, <1>2, <1>3, LoggerChanges DEF WithName

LEMMA GetNewStep ==
    ASSUME IInv, NEW t \in Threads, NEW n \in Names, GetNew(t, n)
    PROVE  IInv'
<1>1. /\ pc[t] = "idle" /\ logger[t] = NoLogger /\ factoryUser = NoThread
      /\ instance.level # Off
      /\ instance' = [instance EXCEPT !.loggers = instance.loggers \cup {n}]
      /\ factoryUser' = t
      /\ BeginFlush(t, "get", n, StoredLogger(n).async)
      /\ UNCHANGED <<inits, logger, logged, accepted, delivered, waiting>>
  BY DEF GetNew, CanGet
<1>2. /\ StoredLogger(n).async \in Seq(Sinks)
      /\ ToSet(StoredLogger(n).async) = AsyncSinks
  <2>1. StoredLogger(n).async = SetToSeq(AsyncSinks)
    BY DEF StoredLogger
  <2>2. SetToSeq(AsyncSinks) \in Seq(Async) /\ ToSet(SetToSeq(AsyncSinks)) = AsyncSinks
    BY StoredLoggerIsGood DEF IInv
  <2>3. Async \subseteq Sinks
    BY DEF Sinks
  <2> QED BY <2>1, <2>2, <2>3, SeqMonotonic
<1>3. Answers(t)' = AsyncSinks
  BY <1>1 DEF BeginFlush, Answers, IInv, TypeOK
<1>4. /\ instance' \in [up : BOOLEAN, level : Levels, loggers : SUBSET Names]
      /\ instance'.up /\ instance'.level # Off
      /\ IsFiniteSet(instance'.loggers)
  <2>1. instance \in [up : BOOLEAN, level : Levels, loggers : SUBSET Names]
    BY DEF IInv, TypeOK
  <2>2. instance.up
    BY <1>1 DEF IInv, TypeOK, NoInstance
  <2>3. /\ instance'.up = instance.up /\ instance'.level = instance.level
        /\ instance'.loggers = instance.loggers \cup {n}
    BY <1>1, <2>1
  <2>4. IsFiniteSet(instance.loggers \cup {n})
    BY FS_AddElement DEF IInv, Stored
  <2> QED BY <1>1, <2>1, <2>2, <2>3, <2>4
<1> QED BY <1>1, <1>2, <1>3, <1>4, FlushBegins

LEMMA ShutdownStep ==
    ASSUME IInv, NEW t \in Threads, ShutdownCall(t)
    PROVE  IInv'
<1> DEFINE k == 2 * Cardinality(instance.loggers)
           list == Repeat(SetToSeq(AsyncSinks), k)
<1>1. /\ pc[t] = "idle" /\ factoryUser = NoThread /\ instance.up /\ factoryUser' = t
      /\ BeginFlush(t, "shutdown", "none", list)
      /\ UNCHANGED <<instance, inits, logger, logged, accepted, delivered, waiting>>
  BY DEF ShutdownCall
<1>2. k \in Nat /\ (k = 0 <=> instance.loggers = {})
  BY FS_CardinalityType, FS_EmptySet DEF IInv, Stored
<1>3. list \in Seq(Sinks) /\ ToSet(list) = IF k = 0 THEN {} ELSE AsyncSinks
  <2>1. SetToSeq(AsyncSinks) \in Seq(AsyncSinks) /\ ToSet(SetToSeq(AsyncSinks)) = AsyncSinks
    BY FiniteAssumption, SetToSeqElements
  <2>2. AsyncSinks \subseteq Sinks
    BY DEF Sinks, Async
  <2>3. SetToSeq(AsyncSinks) \in Seq(Sinks)
    BY <2>1, <2>2, SeqMonotonic
  <2> HIDE DEF k
  <2> QED BY <1>2, <2>1, <2>3, RepeatElements
<1> HIDE DEF k, list
<1>4. Answers(t)' = IF instance.loggers = {} THEN {} ELSE AsyncSinks
  BY <1>1 DEF BeginFlush, Answers, IInv, TypeOK
<1>5. /\ instance' \in [up : BOOLEAN, level : Levels, loggers : SUBSET Names]
      /\ instance'.up /\ (instance'.level = Off => instance'.loggers = {})
      /\ IsFiniteSet(instance'.loggers)
  BY <1>1 DEF IInv, TypeOK, Stored
<1> QED BY <1>1, <1>2, <1>3, <1>4, <1>5, FlushBegins

LEMMA DestroyLoggerStep ==
    ASSUME IInv, NEW t \in Threads, DestroyLogger(t)
    PROVE  IInv'
<1>1. /\ pc[t] = "idle" /\ logger[t] # NoLogger /\ logger[t] \in Loggers
      /\ BeginFlush(t, "destroy", "none", logger[t].async)
      /\ UNCHANGED <<instance, inits, factoryUser, logger, logged, accepted, delivered,
                     waiting>>
  BY DEF DestroyLogger, IInv, TypeOK
<1>2. logger[t].async \in Seq(Sinks)
  <2>1. logger[t].async \in Seq(Async) /\ Async \subseteq Sinks
    BY <1>1 DEF Loggers, Sinks
  <2> QED BY <2>1, SeqMonotonic
<1>3. Answers(t)' = ToSet(logger[t].async)
  BY <1>1 DEF BeginFlush, Answers, IInv, TypeOK
<1>4. /\ instance' \in [up : BOOLEAN, level : Levels, loggers : SUBSET Names]
      /\ (~instance'.up => instance' = NoInstance)
      /\ (instance'.level = Off => instance'.loggers = {})
      /\ IsFiniteSet(instance'.loggers)
  BY <1>1 DEF IInv, TypeOK, Stored, NoInstance
<1> QED BY <1>1, <1>2, <1>3, <1>4, FlushBegins

(* Logger::Log and the convenience calls.                                  *)
LEMMA EntryStep ==
    ASSUME IInv, NEW t \in Threads, NEW level \in Levels, NEW text \in Texts,
           LogRecord(t, level, text) \/ LogMessage(t, level, text)
             \/ LogConvenience(t, level, text)
    PROVE  IInv'
<1>1. CASE LogRecord(t, level, text)
  BY <1>1, EntryBegins DEF LogRecord
<1>2. CASE LogMessage(t, level, text) \/ LogConvenience(t, level, text)
  <2>1. BeginEntry(t, level, logger[t].level, text)
    BY <1>2 DEF LogMessage, LogConvenience
  <2>2. logger[t].level \in Levels
    BY <2>1 DEF BeginEntry, CanLog, IInv, TypeOK, Loggers
  <2> QED BY <2>1, <2>2, EntryBegins
<1> QED BY <1>1, <1>2

(* Every step keeps the invariant.                                         *)
LEMMA NextIInv == IInv /\ [Next]_vars => IInv'
<1> SUFFICES ASSUME IInv, [Next]_vars PROVE IInv'
  OBVIOUS
<1>1. ASSUME NEW t \in Threads, FactoryCall(t) PROVE IInv'
  <2>1. ASSUME NEW l \in Levels, InitFactory(t, l) PROVE IInv'
    BY <2>1, FactoryBuilt
  <2>2. ASSUME NEW n \in Names, GetStored(t, n) \/ GetNew(t, n) PROVE IInv'
    BY <2>2, GetStoredStep, GetNewStep
  <2> QED BY <1>1, <2>1, <2>2, GetDummyStep, ShutdownStep DEF FactoryCall
<1>2. ASSUME NEW t \in Threads, LoggerCall(t) PROVE IInv'
  BY <1>2, EntryStep, AddAsyncSinkStep, WithNameStep, DestroyLoggerStep DEF LoggerCall
<1>3. ASSUME NEW t \in Threads, Progress(t) PROVE IInv'
  BY <1>3, EntryGoesOn, FlushGoesOn, FlushComesBack, FlushEnds DEF Progress
<1>4. ASSUME NEW s \in Async, Deliver(s) PROVE IInv'
  BY <1>4, RecordDelivered
<1>5. CASE UNCHANGED vars
  <2>1. UNCHANGED <<instance, inits, factoryUser, pc, job, todo, logger, logged, accepted,
                    delivered, waiting, due>>
    BY <1>5 DEF vars
  <2>2. TypeOK' /\ Stored' /\ Distinct' /\ Authors'
    BY <2>1 DEF IInv, TypeOK, Stored, Distinct, Authors
  <2>3. \A u \in Threads : Answers(u)' = Answers(u)
    BY <2>1 DEF Answers
  <2>4. Calls' /\ Debts'
    BY <2>1, <2>3 DEF IInv, Calls, Debts
  <2>5. Emitting'
    BY <2>1 DEF IInv, Emitting, SinksOf
  <2>6. Held'
    BY <2>1 DEF IInv, Held, PendingAt
  <2>7. FanOut'
    BY <2>1, FanOutKept DEF IInv
  <2> QED BY <2>2, <2>4, <2>5, <2>6, <2>7 DEF IInv
<1> QED BY <1>1, <1>2, <1>3, <1>4, <1>5 DEF Next

-----------------------------------------------------------------------------
(* The theorems                                                            *)

THEOREM Invariance == Spec => []IInv
<1> QED BY InitIInv, NextIInv, PTL DEF Spec

(* Every variable has the type its declaration gives it, and an instance   *)
(* that is not there or is off has no loggers (LogFactory.cc, Logger.cc).  *)
THEOREM TypeCorrect == Spec => []TypeOK
<1>1. IInv => TypeOK
  BY DEF IInv
<1> QED BY <1>1, Invariance, PTL

(* ~LogEntry: every sink of a logger gets every record logged through it,  *)
(* once, and in the order in which its thread logged them, for any threads *)
(* and sinks, and whichever loggers a thread has held.                     *)
THEOREM EverySinkEveryRecord == Spec => []FanOut
<1>1. IInv => FanOut
  BY DEF IInv
<1> QED BY <1>1, Invariance, PTL

(* ~Logger flushes before its name goes: as long as a sink has a record to *)
(* process, the logger whose name the record views is alive.               *)
THEOREM NamesOutliveRecords == Spec => []NamesAlive
<1>1. IInv => NamesAlive
  BY DEF IInv, Held, PendingAt, NamesAlive, Pending
<1> QED BY <1>1, Invariance, PTL

(* A flushing thread returns when it has flushed its last sink.            *)
LEMMA OnlyDoneReturns ==
    ASSUME IInv, Next, NEW t \in Threads, pc[t] = "flush", pc'[t] = "idle"
    PROVE  todo[t] = <<>>
<1>1. pc \in [Threads -> {"idle", "emit", "flush"}]
  BY DEF IInv, TypeOK
<1>2. ASSUME NEW u \in Threads, FactoryCall(u) PROVE FALSE
  <2>1. \/ pc' = pc
        \/ pc[u] = "idle" /\ pc' = [pc EXCEPT ![u] = "flush"]
    BY <1>2 DEF FactoryCall, InitFactory, GetDummy, GetStored, GetNew, ShutdownCall,
                CanGet, BeginFlush
  <2> QED BY <1>1, <2>1
<1>3. ASSUME NEW u \in Threads, LoggerCall(u) PROVE FALSE
  <2>1. ASSUME NEW l \in Levels, NEW k \in Levels, NEW text \in Texts,
               BeginEntry(u, l, k, text)
        PROVE  FALSE
    <3>1. pc[u] = "idle" /\ \E x : pc' = [pc EXCEPT ![u] = x]
      BY <2>1 DEF BeginEntry, CanLog, EmitTo
    <3> QED BY <1>1, <3>1
  <2>2. ASSUME NEW l \in Levels, NEW text \in Texts,
               LogRecord(u, l, text) \/ LogMessage(u, l, text) \/ LogConvenience(u, l, text)
        PROVE  FALSE
    <3>1. CASE LogRecord(u, l, text)
      BY <2>1, <3>1 DEF LogRecord
    <3>2. CASE LogMessage(u, l, text) \/ LogConvenience(u, l, text)
      <4>1. BeginEntry(u, l, logger[u].level, text)
        BY <3>2 DEF LogMessage, LogConvenience
      <4>2. logger[u].level \in Levels
        BY <4>1 DEF BeginEntry, CanLog, IInv, TypeOK, Loggers
      <4> QED BY <2>1, <4>1, <4>2
    <3> QED BY <2>2, <3>1, <3>2
  <2>3. ASSUME NEW n \in Names, AddAsyncSink(u) \/ WithName(u, n) PROVE FALSE
    BY <2>3 DEF AddAsyncSink, WithName
  <2>4. ASSUME DestroyLogger(u) PROVE FALSE
    <3>1. pc[u] = "idle" /\ pc' = [pc EXCEPT ![u] = "flush"]
      BY <2>4 DEF DestroyLogger, BeginFlush
    <3> QED BY <1>1, <3>1
  <2>5. ~AddAsyncSink(u)
    BY DEF AddAsyncSink
  <2> QED BY <1>3, <2>2, <2>3, <2>4, <2>5 DEF LoggerCall
<1>4. ASSUME NEW u \in Threads, Progress(u) PROVE todo[t] = <<>>
  <2>1. CASE EmitNext(u)
    <3>1. pc[u] = "emit" /\ \E x : pc' = [pc EXCEPT ![u] = x]
      BY <2>1 DEF EmitNext, EmitTo
    <3> QED BY <1>1, <3>1
  <2>2. CASE FlushNext(u) \/ FlushReturns(u)
    BY <2>2 DEF FlushNext, FlushReturns
  <2>3. CASE FlushDone(u)
    <3>1. todo[u] = <<>> /\ pc' = [pc EXCEPT ![u] = "idle"]
      BY <2>3 DEF FlushDone
    <3> QED BY <1>1, <3>1
  <2> QED BY <1>4, <2>1, <2>2, <2>3 DEF Progress
<1>5. ASSUME NEW s \in Async, Deliver(s) PROVE FALSE
  BY <1>5 DEF Deliver
<1> QED BY <1>2, <1>3, <1>4, <1>5 DEF Next

LEMMA AnswersAreAsync ==
    ASSUME TypeOK, Calls, NEW t \in Threads
    PROVE  Answers(t) \subseteq Async
<1>1. CASE job[t].kind = "destroy"
  <2>1. logger[t] \in Loggers
    BY <1>1 DEF TypeOK, Calls
  <2> QED BY <1>1, <2>1, SinksOfType DEF Answers
<1>2. CASE job[t].kind # "destroy"
  BY <1>2 DEF Answers, Async
<1> QED BY <1>1, <1>2

(* ~Logger, Get and Shutdown: what any thread had given to the sinks the   *)
(* call answers for before it began is processed when it returns.          *)
THEOREM FlushedWhenBack == Spec => FlushedOnReturn
<1> DEFINE Kept == \A t \in Threads :
                     pc[t] = "flush" /\ pc'[t] = "idle" =>
                         \A s \in Answers(t) : due[t][s] <= Len(delivered[s])
<1>1. IInv /\ [Next]_vars => [Kept]_vars
  <2> SUFFICES ASSUME IInv, Next, NEW t \in Threads, pc[t] = "flush", pc'[t] = "idle",
                      NEW s \in Answers(t)
               PROVE  due[t][s] <= Len(delivered[s])
    OBVIOUS
  <2>1. todo[t] = <<>>
    BY OnlyDoneReturns
  <2>2. s \in Async
    BY AnswersAreAsync DEF IInv
  <2>3. s \notin ToSet(todo[t])
    BY <2>1, InToSet
  <2> QED BY <2>2, <2>3 DEF IInv, Debts
<1> QED BY <1>1, Invariance, PTL DEF Spec, FlushedOnReturn

-----------------------------------------------------------------------------
(* Every asynchronous sink behaves as AsyncChannel, step by step           *)

(* A sequence of records, seen as the channel's items.                     *)
LEMMA IdentitiesIs ==
    ASSUME NEW q \in Seq(Records)
    PROVE  /\ Identities(q) \in Seq(Threads \X (1 .. MaxRecords))
           /\ Len(Identities(q)) = Len(q)
           /\ \A i \in 1 .. Len(q) : Identities(q)[i] = <<q[i].by, q[i].n>>
           /\ q = <<>> => Identities(q) = <<>>
<1> DEFINE Id(r) == <<r.by, r.n>>
           ids == [i \in 1 .. Len(q) |-> Id(q[i])]
<1>1. Len(q) \in Nat /\ DOMAIN q = 1 .. Len(q) /\ \A i \in 1 .. Len(q) : q[i] \in Records
  BY LenProperties, ElementOfSeq
<1>2. Identities(q) = ids
  BY <1>1 DEF Identities
<1>3. \A r \in Records : Id(r) \in Threads \X (1 .. MaxRecords)
  BY DEF Records
<1> HIDE DEF Id
<1>4. ids \in Seq(Threads \X (1 .. MaxRecords)) /\ Len(ids) = Len(q)
  BY <1>1, <1>3
<1>5. \A i \in 1 .. Len(q) : ids[i] = Id(q[i])
  OBVIOUS
<1> HIDE DEF ids
<1>6. q = <<>> => ids = <<>>
  BY <1>4, EmptySeq
<1> QED BY <1>2, <1>4, <1>5, <1>6 DEF Id

LEMMA IdentitiesAppend ==
    ASSUME NEW q \in Seq(Records), NEW r \in Records
    PROVE  Identities(Append(q, r)) = Append(Identities(q), <<r.by, r.n>>)
<1> DEFINE Items == Threads \X (1 .. MaxRecords)
           one == Identities(Append(q, r))
           two == Append(Identities(q), <<r.by, r.n>>)
           n == Len(q)
<1>1. /\ Append(q, r) \in Seq(Records) /\ Len(Append(q, r)) = n + 1
      /\ \A i \in 1 .. n : Append(q, r)[i] = q[i]
      /\ Append(q, r)[n + 1] = r
      /\ n \in Nat
  BY AppendElements, LenProperties
<1>2. /\ one \in Seq(Items) /\ Len(one) = n + 1
      /\ \A i \in 1 .. n + 1 : one[i] = <<Append(q, r)[i].by, Append(q, r)[i].n>>
  BY <1>1, IdentitiesIs
<1>3. <<r.by, r.n>> \in Items
  BY DEF Records
<1>4. /\ Identities(q) \in Seq(Items) /\ Len(Identities(q)) = n
      /\ \A i \in 1 .. n : Identities(q)[i] = <<q[i].by, q[i].n>>
  BY IdentitiesIs
<1>5. /\ two \in Seq(Items) /\ Len(two) = n + 1
      /\ \A i \in 1 .. n : two[i] = Identities(q)[i]
      /\ two[n + 1] = <<r.by, r.n>>
  BY <1>3, <1>4, AppendElements
<1> HIDE DEF one, two, n, Items
<1>6. ASSUME NEW i \in 1 .. Len(one) PROVE one[i] = two[i]
  <2>1. CASE i = n + 1
    BY <1>1, <1>2, <1>5, <2>1
  <2>2. CASE i # n + 1
    <3>1. i \in 1 .. n /\ i \in 1 .. n + 1
      BY <1>1, <1>2, <2>2
    <3> QED BY <1>1, <1>2, <1>4, <1>5, <3>1
  <2> QED BY <2>1, <2>2
<1>7. Len(one) = Len(two)
  BY <1>2, <1>5
<1>8. one = two
  BY <1>2, <1>5, <1>6, <1>7, SeqEqual, Zenon
<1> QED BY <1>8 DEF one, two

(* Init.                                                                   *)
LEMMA ChannelInit ==
    ASSUME Init, NEW s \in Async
    PROVE  Channel(s)!Init
<1>1. accepted[s] = <<>> /\ delivered[s] = <<>>
  BY DEF Init, Sinks
<1>2. Identities(<<>>) = <<>>
  BY EmptySeq, IdentitiesIs
<1>3. \A t \in Threads : Flushing(t, s) = NoFlush
  BY DEF Init, Flushing
<1>4. [t \in Threads |-> Flushing(t, s)] = [t \in Threads |-> NoFlush]
  BY <1>3
<1> QED BY <1>1, <1>2, <1>4 DEF Channel!Init

(* A step that leaves what a sink has and what is awaited of it.           *)
LEMMA ChannelRests ==
    ASSUME NEW s \in Async, accepted'[s] = accepted[s], delivered'[s] = delivered[s],
           \A t \in Threads : Flushing(t, s)' = Flushing(t, s)
    PROVE  UNCHANGED Channel(s)!vars
<1>1. [t \in Threads |-> Flushing(t, s)]' = [t \in Threads |-> Flushing(t, s)]
  OBVIOUS
<1> QED BY <1>1 DEF Channel!vars, Identities

(* A thread's step that waits for no sink, before or after.                *)
LEMMA NotFlushing ==
    ASSUME IInv, NEW t \in Threads, NEW s, waiting' = waiting, waiting[t] = NoFlush,
           \A u \in Threads : u # t => todo'[u] = todo[u]
    PROVE  \A u \in Threads : Flushing(u, s)' = Flushing(u, s)
BY DEF Flushing

(* ~LogEntry enqueues the record: the channel accepts it.                  *)
LEMMA EmitIsAccept ==
    ASSUME IInv, NEW t \in Threads, EmitNext(t), NEW s \in Async
    PROVE  [Channel(s)!Next]_(Channel(s)!vars)
<1> DEFINE r == Last(logged[t])
<1>1. /\ pc[t] = "emit" /\ todo[t] # <<>> /\ todo[t] \in Seq(Sinks)
      /\ logged[t] \in Seq(Records) /\ logged[t] # <<>>
      /\ accepted \in [Sinks -> Seq(Records)]
  BY DEF EmitNext, IInv, TypeOK, Emitting
<1>2. /\ Head(todo[t]) \in Sinks /\ r \in Records /\ s \in Sinks
  BY <1>1, HeadTailElements, FrontLastElements DEF Sinks
<1>3. /\ accepted' = [accepted EXCEPT ![Head(todo[t])] = Append(@, r)]
      /\ todo' = [todo EXCEPT ![t] = Tail(todo[t])]
      /\ UNCHANGED <<delivered, waiting>>
  BY DEF EmitNext, EmitTo
<1>4. \A u \in Threads : Flushing(u, s)' = Flushing(u, s)
  <2>1. waiting[t] = NoFlush
    BY <1>1 DEF IInv, Calls
  <2>2. \A u \in Threads : u # t => todo'[u] = todo[u]
    BY <1>3 DEF IInv, TypeOK
  <2> QED BY <1>3, <2>1, <2>2, NotFlushing
<1>5. CASE Head(todo[t]) # s
  <2>1. accepted'[s] = accepted[s] /\ delivered'[s] = delivered[s]
    BY <1>1, <1>2, <1>3, <1>5
  <2> QED BY <1>4, <2>1, ChannelRests
<1>6. CASE Head(todo[t]) = s
  <2>1. accepted'[s] = Append(accepted[s], r)
    BY <1>1, <1>2, <1>3, <1>6
  <2>2. accepted[s] \in Seq(Records)
    BY <1>1, <1>2
  <2>3. Identities(accepted'[s]) = Append(Identities(accepted[s]), <<r.by, r.n>>)
    BY <1>2, <2>1, <2>2, IdentitiesAppend
  <2>4. <<r.by, r.n>> \in Threads \X (1 .. MaxRecords)
    BY <1>2 DEF Records
  <2>5. Identities(delivered'[s]) = Identities(delivered[s])
    BY <1>3
  <2>6. [u \in Threads |-> Flushing(u, s)]' = [u \in Threads |-> Flushing(u, s)]
    BY <1>4
  <2>7. Channel(s)!Accept
    BY <2>3, <2>4, <2>5, <2>6 DEF Channel!Accept, Identities
  <2> QED BY <2>7 DEF Channel!Next
<1> QED BY <1>5, <1>6

(* AsyncSink::Flush is called.                                             *)
LEMMA FlushNextIsFlushCall ==
    ASSUME IInv, NEW t \in Threads, FlushNext(t), NEW s \in Async
    PROVE  [Channel(s)!Next]_(Channel(s)!vars)
<1>1. /\ waiting[t] = NoFlush /\ waiting \in [Threads -> Nat \cup {NoFlush}]
      /\ waiting' = [waiting EXCEPT ![t] = Len(accepted[Head(todo[t])])]
      /\ UNCHANGED <<todo, accepted, delivered>>
  BY DEF FlushNext, IInv, TypeOK
<1>2. \A u \in Threads : u # t => Flushing(u, s)' = Flushing(u, s)
  BY <1>1 DEF Flushing
<1>3. Flushing(t, s) = NoFlush
  BY <1>1 DEF Flushing
<1>4. CASE Head(todo[t]) # s
  <2>1. Flushing(t, s)' = NoFlush
    BY <1>1, <1>4 DEF Flushing
  <2> QED BY <1>1, <1>2, <1>3, <2>1, ChannelRests
<1>5. CASE Head(todo[t]) = s
  <2>1. accepted[s] \in Seq(Records) /\ Len(accepted[s]) \in Nat
    BY DEF IInv, TypeOK, Sinks
  <2>2. Flushing(t, s)' = Len(Identities(accepted[s]))
    <3>1. Flushing(t, s)' = Len(accepted[s])
      BY <1>1, <1>5, <2>1, NoFlushAssumption DEF Flushing
    <3> QED BY <2>1, <3>1, IdentitiesIs
  <2>3. [u \in Threads |-> Flushing(u, s)]' =
            [[u \in Threads |-> Flushing(u, s)] EXCEPT ![t] = Len(Identities(accepted[s]))]
    BY <1>2, <2>2
  <2>4. UNCHANGED <<Identities(accepted[s]), Identities(delivered[s])>>
    BY <1>1 DEF Identities
  <2>5. [u \in Threads |-> Flushing(u, s)][t] = NoFlush
    BY <1>3
  <2>6. Channel(s)!FlushCall(t)
    BY <2>3, <2>4, <2>5 DEF Channel!FlushCall
  <2> QED BY <2>6 DEF Channel!Next
<1> QED BY <1>4, <1>5

(* AsyncSink::Flush returns.                                               *)
LEMMA FlushReturnsIsFlushReturn ==
    ASSUME IInv, NEW t \in Threads, FlushReturns(t), NEW s \in Async
    PROVE  [Channel(s)!Next]_(Channel(s)!vars)
<1>1. /\ waiting[t] # NoFlush /\ waiting[t] <= Len(delivered[Head(todo[t])])
      /\ waiting' = [waiting EXCEPT ![t] = NoFlush]
      /\ todo' = [todo EXCEPT ![t] = Tail(@)]
      /\ UNCHANGED <<accepted, delivered>>
      /\ waiting \in [Threads -> Nat \cup {NoFlush}] /\ todo \in [Threads -> Seq(Sinks)]
  BY DEF FlushReturns, IInv, TypeOK
<1>2. \A u \in Threads : u # t => Flushing(u, s)' = Flushing(u, s)
  BY <1>1 DEF Flushing
<1>3. Flushing(t, s)' = NoFlush
  BY <1>1 DEF Flushing
<1>4. CASE Head(todo[t]) # s
  <2>1. Flushing(t, s) = NoFlush
    BY <1>4 DEF Flushing
  <2> QED BY <1>1, <1>2, <1>3, <2>1, ChannelRests
<1>5. CASE Head(todo[t]) = s
  <2>1. Flushing(t, s) = waiting[t]
    BY <1>1, <1>5 DEF Flushing
  <2>2. delivered[s] \in Seq(Records)
    BY DEF IInv, TypeOK
  <2>3. /\ Flushing(t, s) # NoFlush
        /\ Flushing(t, s) <= Len(Identities(delivered[s]))
    BY <1>1, <1>5, <2>1, <2>2, IdentitiesIs
  <2>4. [u \in Threads |-> Flushing(u, s)]' =
            [[u \in Threads |-> Flushing(u, s)] EXCEPT ![t] = NoFlush]
    BY <1>2, <1>3
  <2>5. UNCHANGED <<Identities(accepted[s]), Identities(delivered[s])>>
    BY <1>1 DEF Identities
  <2>6. [u \in Threads |-> Flushing(u, s)][t] = Flushing(t, s)
    OBVIOUS
  <2>7. Channel(s)!FlushReturn(t)
    BY <2>3, <2>4, <2>5, <2>6 DEF Channel!FlushReturn
  <2> QED BY <2>7 DEF Channel!Next
<1> QED BY <1>4, <1>5

(* The worker processes a record.                                          *)
LEMMA DeliverIsDeliver ==
    ASSUME IInv, NEW j \in Async, Deliver(j), NEW s \in Async
    PROVE  [Channel(s)!Next]_(Channel(s)!vars)
<1> DEFINE n == Len(delivered[j])
           r == accepted[j][n + 1]
<1>1. /\ n < Len(accepted[j])
      /\ delivered' = [delivered EXCEPT ![j] = Append(delivered[j], r)]
      /\ UNCHANGED <<todo, waiting, accepted>>
  BY DEF Deliver
<1>2. \A u \in Threads : Flushing(u, s)' = Flushing(u, s)
  BY <1>1 DEF Flushing
<1>3. CASE j # s
  <2>1. delivered'[s] = delivered[s]
    BY <1>1, <1>3 DEF IInv, TypeOK
  <2> QED BY <1>1, <1>2, <2>1, ChannelRests
<1>4. CASE j = s
  <2>1. /\ accepted[s] \in Seq(Records) /\ delivered[s] \in Seq(Records)
        /\ n \in Nat /\ Len(accepted[s]) \in Nat
    BY <1>4 DEF IInv, TypeOK, Sinks
  <2>2. n + 1 \in 1 .. Len(accepted[s]) /\ r \in Records
    BY <1>1, <1>4, <2>1, ElementOfSeq
  <2>3. delivered'[s] = Append(delivered[s], r)
    BY <1>1, <1>4 DEF IInv, TypeOK
  <2>4. Identities(delivered'[s]) = Append(Identities(delivered[s]), <<r.by, r.n>>)
    BY <2>1, <2>2, <2>3, IdentitiesAppend
  <2>5. /\ Len(Identities(delivered[s])) = n
        /\ Len(Identities(accepted[s])) = Len(accepted[s])
        /\ Identities(accepted[s])[n + 1] = <<r.by, r.n>>
    BY <1>4, <2>1, <2>2, IdentitiesIs
  <2>6. Identities(accepted[s])' = Identities(accepted[s])
    BY <1>1 DEF Identities
  <2>7. [u \in Threads |-> Flushing(u, s)]' = [u \in Threads |-> Flushing(u, s)]
    BY <1>2
  <2>8. Len(Identities(delivered[s])) < Len(Identities(accepted[s]))
    BY <1>1, <1>4, <2>5
  <2>9. Identities(delivered[s])' =
            Append(Identities(delivered[s]),
                   Identities(accepted[s])[Len(Identities(delivered[s])) + 1])
    BY <2>4, <2>5 DEF Identities
  <2>10. Channel(s)!Deliver
    BY <2>6, <2>7, <2>8, <2>9 DEF Channel!Deliver
  <2> QED BY <2>10 DEF Channel!Next
<1> QED BY <1>3, <1>4

(* What a thread does to loggers and to the factory is no channel's step.  *)
LEMMA QuietStep ==
    ASSUME IInv, NEW t \in Threads, NEW s \in Async,
           UNCHANGED <<accepted, delivered, waiting>>,
           todo' = todo \/ (waiting[t] = NoFlush /\ \E x : todo' = [todo EXCEPT ![t] = x])
    PROVE  [Channel(s)!Next]_(Channel(s)!vars)
<1>1. \A u \in Threads : Flushing(u, s)' = Flushing(u, s)
  <2>1. CASE todo' = todo
    BY <2>1 DEF Flushing
  <2>2. CASE waiting[t] = NoFlush /\ \E x : todo' = [todo EXCEPT ![t] = x]
    <3>1. \A u \in Threads : u # t => todo'[u] = todo[u]
      BY <2>2 DEF IInv, TypeOK
    <3> QED BY <2>2, <3>1, NotFlushing
  <2> QED BY <2>1, <2>2
<1> QED BY <1>1, ChannelRests

(* Every step is a step of every sink's channel, or none.                  *)
LEMMA NextIsChannelNext ==
    ASSUME IInv, [Next]_vars, NEW s \in Async
    PROVE  [Channel(s)!Next]_(Channel(s)!vars)
<1>1. ASSUME NEW t \in Threads, FactoryCall(t)
      PROVE  [Channel(s)!Next]_(Channel(s)!vars)
  <2>1. /\ UNCHANGED <<accepted, delivered, waiting>>
        /\ todo' = todo \/ (pc[t] = "idle" /\ \E x : todo' = [todo EXCEPT ![t] = x])
    BY <1>1 DEF FactoryCall, InitFactory, GetDummy, GetStored, GetNew, ShutdownCall,
                CanGet, BeginFlush
  <2>2. pc[t] = "idle" => waiting[t] = NoFlush
    BY DEF IInv, Calls
  <2> QED BY <2>1, <2>2, QuietStep
<1>2. ASSUME NEW t \in Threads, LoggerCall(t)
      PROVE  [Channel(s)!Next]_(Channel(s)!vars)
  <2>1. ASSUME NEW l, NEW k, NEW text, BeginEntry(t, l, k, text)
        PROVE  /\ UNCHANGED <<accepted, delivered, waiting>>
               /\ pc[t] = "idle" /\ \E x : todo' = [todo EXCEPT ![t] = x]
    BY <2>1 DEF BeginEntry, CanLog, EmitTo
  <2>2. /\ UNCHANGED <<accepted, delivered, waiting>>
        /\ todo' = todo \/ (pc[t] = "idle" /\ \E x : todo' = [todo EXCEPT ![t] = x])
    <3>1. CASE \E l \in Levels, text \in Texts :
                  LogRecord(t, l, text) \/ LogMessage(t, l, text) \/ LogConvenience(t, l, text)
      BY <2>1, <3>1 DEF LogRecord, LogMessage, LogConvenience
    <3>2. CASE AddAsyncSink(t) \/ DestroyLogger(t) \/ \E n \in Names : WithName(t, n)
      BY <3>2 DEF AddAsyncSink, WithName, DestroyLogger, BeginFlush
    <3> QED BY <1>2, <3>1, <3>2 DEF LoggerCall
  <2>3. pc[t] = "idle" => waiting[t] = NoFlush
    BY DEF IInv, Calls
  <2> QED BY <2>2, <2>3, QuietStep
<1>3. ASSUME NEW t \in Threads, Progress(t)
      PROVE  [Channel(s)!Next]_(Channel(s)!vars)
  <2>1. CASE FlushDone(t)
    BY <2>1, QuietStep DEF FlushDone
  <2> QED BY <1>3, <2>1, EmitIsAccept, FlushNextIsFlushCall, FlushReturnsIsFlushReturn
          DEF Progress
<1>4. ASSUME NEW j \in Async, Deliver(j)
      PROVE  [Channel(s)!Next]_(Channel(s)!vars)
  BY <1>4, DeliverIsDeliver
<1>5. CASE UNCHANGED vars
  <2>1. UNCHANGED <<todo, accepted, delivered, waiting>>
    BY <1>5 DEF vars
  <2>2. \A u \in Threads : Flushing(u, s)' = Flushing(u, s)
    BY <2>1 DEF Flushing
  <2> QED BY <2>1, <2>2, ChannelRests
<1> QED BY <1>1, <1>2, <1>3, <1>4, <1>5 DEF Next

(* Every asynchronous sink of every logger lives through a behaviour of    *)
(* AsyncChannel, the promise Batcher keeps: the calls ~LogEntry and ~Logger*)
(* make, and those of the worker, are exactly its steps.                   *)
THEOREM SinksRefineChannel == Spec => SinksAreChannels
<1> DEFINE Steps == \A s \in Async : [Channel(s)!Next]_(Channel(s)!vars)
<1>1. Init => \A s \in Async : Channel(s)!Init
  BY ChannelInit
<1>2. IInv /\ [Next]_vars => [Steps]_vars
  BY NextIsChannelNext
<1> QED BY <1>1, <1>2, Invariance, PTL DEF Spec, SinksAreChannels
=============================================================================
