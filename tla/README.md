# logrin: models, checks and proofs

TLA+ modules that model logrin: its concurrent core (batcher, factory, console
sink) and what becomes of one record (patterns, colours, attributes, JSON,
OpenTelemetry); the TLC runs that check them on small instances, and proofs that
TLAPS checks for every instance.
Paths below are relative to the repository root.

## The system

| Component | State | Operations | Talks to |
|---|---|---|---|
| `detail::Batcher<T>` (`include/logrin/detail/Batcher.h`) | `n_queue`, `n_running`, `n_processing`, mutex, one condition variable, a worker thread | `Push`, `Flush`, destructor, `workerLoop` | its consumer, a callback on the worker |
| `AsyncSink` (`include/logrin/AsyncSink.h`) | - | `Enqueue`, `Flush`, destructor (an interface) | implemented by the OpenTelemetry sink through a batcher |
| `LogFactory` (`src/LogFactory.cc`) | static `instance`, its level, sinks and `n_loggers` | `Init`, `Get`, `Shutdown` | hands out copies of stored loggers |
| `Logger`, `LogEntry` (`src/Logger.cc`, `include/logrin/Logger.h`) | name, level, sinks; the entry's record and parent | `Log`, `Trace` .. `Fatal`, `WithName`, `AddSink`, `AddAsyncSink`, destructors | emits to `Sink`s, enqueues to `AsyncSink`s, flushes both when destroyed |
| `sinks::Console` (`src/sinks/Console.cc`) | formatter, descriptor, mutex | `Emit`, `Flush`, `WithStream`, `WithFormatter` | a formatter, the process' descriptors, `std::cerr` |
| `sinks::OpenTelemetry` (`src/sinks/OpenTelemetry.cc`) | a batcher | `Enqueue`, `Flush`, conversion of a record | the OpenTelemetry SDK |
| `LogRecord`, `AttributeValue` (`include/logrin/LogRecord.h`) | time, level, message view, logger-name view, fields | `Now`, `With`, `AsJson` | `gmtime` |
| Pattern parser (`src/formatters/pattern/`) | cursor, segment array, style depth | `Parse`, `Directive::Parse`, padding, the `Format*` functions | `LogRecord` |
| Pattern formatter (`src/formatters/Pattern.cc`) | parsed patterns, markers, colour specifications | `Parse`, `Format`, styles | the parser |
| Json formatter (`src/formatters/Json.cc`) | options | `Format` | `LogRecord::AsJson` |

What is hard in it, and what correctness means for each part:

* **Batcher.** Clients, the worker and the destructor interleave over one mutex;
  one condition variable serves two kinds of waiters. Items must be consumed
  once, in order and before a flush made after them returns; nobody may sleep
  for ever; the destructor must drain.
* **LogFactory and Logger.** Copies of a logger share sinks, the destructor of
  every copy flushes, and records hold *views* of the message and of the
  logger's name while they wait in a queue. Every sink of a logger must get
  every record once, in its thread's order; a view must not outlive what it
  views; the level must be respected.
* **Console.** Formatting is outside the mutex, writing inside; descriptors
  belong to the process. Lines must stay whole and must arrive.
* **Patterns.** Sequential code with numeric edges and two phases: 16-bit
  offsets and widths, a cap of 64 segments, a specification checked by `Parse`
  and read again by `Format` from a truncated view, markers that are patterns
  inside a pattern, styles that must be closed, and a colour choice of the
  process that other threads change while a record is formatted. A pattern must
  be cut up without gap or overlap, views must be true, nothing that was
  accepted may abort, and the text must be the one asked for.
* **Records.** Conversions between integer types and three ways to show one
  record, which must agree.

Nothing is persisted and nothing is sent over a network by code of this
repository, so there is no crash recovery and no message loss to model. The
complete list of hazards, each at its line, is in `PROJECT.json`.

## The modules

| Module | What it is |
|---|---|
| `AsyncChannel` | abstract specification: what an asynchronous sink promises |
| `Batcher` | the batcher, one step between two points another thread can observe |
| `BatcherProofs` | the inductive invariant and the safety theorems of `Batcher` |
| `BatcherRefinement` | `Batcher` implements `AsyncChannel` (safety) |
| `LogFactory` | factory, loggers, entries; asynchronous sinks as channels |
| `LogFactoryProofs` | its inductive invariant, its safety theorems, and that its sinks are channels |
| `Console` | the console sink over the process' descriptors |
| `ConsoleProofs` | its invariants and safety theorems |
| `Segments` | segment kinds, directives, padding: the functions of `Segment.h` and `Segment.cc` |
| `PatternParser` | `pattern::Parse`, a step for each turn of its loop |
| `PatternParserProofs` | its inductive invariant and the theorems about one call of `Parse` |
| `ColorSpec` | colour specifications and palettes |
| `LogRecord` | attribute values, JSON, the conversion to OpenTelemetry |
| `PatternFormatter` | `Pattern::Parse` and `Pattern::Format`, over `PatternParser` |
| `Rendering` | composition: one record through `LogEntry::With`, the formatter, JSON and the OpenTelemetry worker |
| `PatternFormatterProofs` | what the parsed patterns keep in `Rendering`, and its theorems |
| `RenderingProofs` | the invariants of the walk and of the record: the theorems about what is written |
| `Selections` | the part of a sequence that is in a set, with a definition to reason with |
| `SequenceLemmas` | lemmas about sequences that the proofs share |
| `MCBatcher`, `MCLogFactory`, `MCConsole`, `MCPattern` | the instances TLC checks |

They compose along `AsyncChannel`: `Batcher` is shown to implement it, and
`LogFactory` represents each asynchronous sink by the channel's variables
(`accepted`, `delivered`, what a flush waits for) and is checked to move them
only as the channel may (`SinksAreChannels`). So a lock-by-lock model of the
batcher is not needed to reason about loggers. The other half is a stack:
`Segments` and `PatternParser` below, `ColorSpec` and `LogRecord` beside them,
`PatternFormatter` on top, and `Rendering` around it. `Rendering` needs no
threads but one: what other threads may change while a record is formatted is
the colour choice, which is an action of its own.

Operators whose comment begins with *Mutant* are plausible mistakes in the
definition that follows them. They occur in no specification; replacing the
definition by its mutant must make the property named in `PROJECT.json` fail.

### Batcher

`pc[t]` is the next step of thread `t`: of a client (`Push` and `Flush`), of the
worker or of the owner, who runs the destructor. `mux`, `cv`, `queue`,
`running`, `processing`, `batch` are the members and the worker's local batch;
`accepted`, `consumed` and `snap` are history. Actions follow the code:
`PushLock`, `PushEnqueue` (enqueue and end of the locked scope), `PushSignal`
(outside the mutex); `FlushLock`, `FlushWait`, `FlushReturn`; `WorkerWait`,
`WorkerDrain` (the drain loop, `n_processing`, unlock: one critical section),
`WorkerConsume` (the consumer, item by item), `WorkerRelock`, `WorkerFinish`
(`n_processing`, `SignalAll`), `WorkerExit`; `DestroyLock`, `DestroyStop`,
`DestroySignal`, `DestroyJoin`.

The mutex and the condition variable come from the violet library, which is not
in the repository, so both are modelled from their use: `Wait` releases and
sleeps atomically, `SpuriousWakeup` may happen at any time, and `FifoWake`
chooses what `Signal` does: it wakes the longest waiter, or any. Nothing in the
repository says which, so both are checked. An item is a client and a number.
`Push` and `Flush` are not called on an object whose destructor has begun (C++
object lifetime): `PushCall`, `FlushCall` and `DestroyCall` say so.
`n_running` is atomic and is written under the mutex, so it is one variable.

### LogFactory

`instance` is the static pointer with the level and the names stored;
`logger[t]` is the copy that thread `t` holds (at most one at a time; several
threads may hold copies of one logger); `pc`, `job` and `todo` say what a thread
is in the middle of: emitting a record to the remaining sinks (`~LogEntry`) or
flushing the remaining asynchronous sinks (`Logger::flush`) for `Get`,
`~Logger` or `Shutdown`. `GetNew` flushes too: the pair it moves into the map is
a temporary that holds a copy of the logger, and its destructor flushes. A
`Shutdown` flushes each stored logger and the deletion of the map flushes each
again (`Repeat`).

The functions of the factory use the static pointer without a lock. Two of them
at once are undefined behaviour that no header promises to avoid;
`factoryUser` lets one run at a time, while loggers are used, renamed and
destroyed concurrently. The application keeps its own references to the sinks
it handed to `Init`, so they outlive the factory. Flushing a synchronous sink
changes nothing and is left out, as is `AddSink`, whose sink would differ from
`Init`'s synchronous sinks in nothing but who has it. A message is `"literal"`
or `"temporary"`: whether it outlives the statement that logs it.

### Console

`EmitCall` looks at formatter and descriptor and drops the record if either is
missing (a sink made without a formatter has the formatter `"none"`);
`FormatGmtime`/`FormatRead` or
`FormatReentrant` format (outside the mutex), `EmitLock`, `EmitWrite`,
`EmitNewline` or `EmitReport` write. `StreamLock`, `StreamClose`, `StreamAdopt`
are `WithStream`. `table` maps the two standard descriptor numbers to what they
refer to; `OpenFile` is the rest of the process opening a file, which gets the
lowest free number. A write is whole or fails; with `MayFail` an open
descriptor may fail as well. The time of a record is the record's identity, so
two records never have the same one. `gmtime`'s buffer is written and read in
two steps; a torn value, which the C library allows too, would be worse and is
not represented. The Windows branches are not modelled, `Console::Flush`
changes no state of the program, and a sink lives as long as the process.

### Patterns

A text is a sequence of *units*. A unit is one character, or a run of characters
that the code only ever reads as a whole: `upper`, `style:end`, `evelColor` (so
that `%l` followed by `evelColor` shows the keyword that hides a letter). The
space stands for blanks, tabs and newlines. Positions count from 0 as in the
code. The integer widths are constants, so that TLC reaches the edge of 2^16
with a pattern of thirty units: `ShortBits` for `UInt16`, `LongBits` for
`UInt64`, `MaxComponent` for 255, `MaxSegments` for 64, `TimeBuffer` for 128.

`PatternParser` has the locals of `Parse` as variables (`in`, `literalStart`,
`inLiteral`, `depth`, `segments`, `outcome` for its result) and one history
variable, `spans`: the part of the pattern each segment was made of. A step is a
turn of the loop: `ScanLiteral`, `flushLiteral`, `Percent`, `Directive`,
`RejectDirective`, `Finish`. What a directive's block means is a function
(`Block`, `DirectiveParse`, `parsePadding`). A parser starts from any pattern
and configuration (`ParserSpec`), or is started again by the formatter.

`PatternFormatter` runs it three times, for the pattern and both markers
(`stage`), validates the colours of each (`ParsePrefix`, `ParseSuffix`,
`Construct`, `ParseFails`), and then formats. `frames` is the stack of
`formatPattern`'s activations: the pattern and, inside `%A`, a marker. One action
per kind of segment (`FormatContent`, `emitColour`, `emitLevelColour`,
`emitStyle`, `emitStyleEnd`, `BeginAttributes`), and one per end of an activation
(`EndPrefix`, `EndSuffix`, `EndMain`). `out` holds text and escape sequences, the
latter with the style and colour they carry. `SetColourChoice` may happen
between any two of these. The iteration order of the fields is any order
(`order`), as of an unordered map. What `Unwrap` does with an error is the stage
`"aborted"`.

Abstracted: two of the 148 colour names, four of the hexadecimal digits,
the digits the runs use, how a level, a time or a thread is spelled. An empty
marker is parsed in the model and not in the code: it has no segments either way.

### Records

`AttributeValue` chooses the constructor as overload resolution does: `bool`,
`double` and text have one of their own; every other arithmetic type takes the
template for `UInt64`, since the parameter of the one for `Int64` cannot be
deduced. Numbers are taken modulo `2^LongBits`. `Convertible` says whether the
OpenTelemetry worker survives a record: its level has a severity, and, in a build
with assertions (`Export(asserts)` tries both), no number exceeds an `Int64`. How a
`double` is spelled belongs to its library, and a value of that type is opaque.

## The runs

| Run | Instance | Shows |
|---|---|---|
| `batcher_any` | 3 clients, 1 push each, batches of at most 2, any waiter may wake | `TypeOK`, `IInv`, `Delivery`, `BatchLimit`, `FlushersAwake`, `DrainedWhenDestroyed`, `FlushBarrier`, `ImplementsChannelSafely` |
| `batcher_fifo` | 2 clients, 2 pushes each, batches of 1, longest waiter wakes | `WorkerAwake`, `ImplementsChannel` (with liveness), `DestructorReturns` |
| `batcher_lost` | 2 clients, 1 push each, any waiter may wake | violation of `EventuallyConsumed` |
| `factory` | 2 threads, 1 record each, a synchronous sink, an asynchronous one and one of its own for each thread | `TypeOK`, `FanOut`, `NamesAlive`, `SinksAreChannels` |
| `factory_flush` | 2 threads, 2 asynchronous sinks, two factory life cycles | `FlushTerminates`, `FlushedOnReturn` |
| `factory_level` | 1 thread, levels Trace, Info, Off | violation of `LevelRespected` |
| `factory_views` | 1 thread, literal and temporary messages | violation of `RecordsIntact` |
| `console` | 2 threads, 1 emit each, 2 calls of `WithStream`, both kinds of formatter and none, failing writes | `TypeOK`, `LineIntegrity`, `EmitReturns` |
| `console_streams` | 1 thread, 1 emit, 2 calls of `WithStream` | violation of `NothingLost` |
| `console_time` | 2 threads, 1 emit each, a formatter that calls `gmtime` | violation of `OwnTime` |
| `pattern` | 19528 requests in seven families, 4 segments, 5 bits for 16, 4 for 64 | `TypeOK`, `Cover`, `ViewsTrue`, `Nested`, `PaddingTrue`, `MarkersAreFlat`, `NeverAborts`, `Rendered`, `ColoursForced`, `StylesClosed`, `Padded`, `ColoursTrue`, `RenderingsAgree` |
| `record_signed` | one integer attribute from -3 to 3 | violation of `SignedKept` |

Why the bounds are enough. *Batcher*: three clients can be a pusher whose signal
is taken, the flusher that takes it and a second pusher, and three queued items
exceed the batch limit of two; two clients with two pushes and a limit of one
make the worker go round its loop with flushers waiting and items left. The
theorems do not depend on these numbers. *LogFactory*: the properties relate one
record to one sink, or one flush to what others log meanwhile, for which one
record for each of two threads suffices; two life cycles make loggers of the
first factory meet the second. *Console*: tearing needs two emits and one
`WithStream`; going back to a stream that was closed needs two.
*Patterns*: the run tries *every* text over the alphabet of a family up to a
length, and adds longer ones where a boundary is: literals, escapes and keywords
that end at a word boundary or do not (`Lexing`, `Capacity`, with more pieces
than there are places), blocks of padding and nested braces (`Blocks`), styles in
every order under eight pairs of markers (`Styling`), numbers around
`MaxComponent` and around `2^ShortBits` (`Colouring`), texts and specifications
that end before, at and behind `2^ShortBits` (`LongTexts`), records of every kind
of attribute, with a duplicate name and with level Off (`Records`). Every
invariant of this run is also proved, for any request.
`Patterns` and `Configs`, the inputs of a parser on its own, are empty in these
runs, where the formatter starts it.
Symmetry under permutations of the clients (threads) is used only in runs
without liveness properties.

### Fairness

`Batcher`: weak fairness of each thread's own steps, since a thread the
scheduler runs goes on; strong fairness of acquiring the mutex, since others may
take it in between; none for making a call and none for spurious wakeups.
`LogFactory`: weak fairness of a call that has begun and of each sink's worker,
which is what `ImplementsChannel` gives. `Console`: as for the batcher.
`Rendering` has no fairness and no liveness property: formatting is a walk over
a bounded array, and the only way for it not to end, a marker that formats
markers, is excluded by `MarkersAreFlat`.

`FlushTerminates` and the flush half of `ImplementsChannel` hold with boundedly
many pushes. The code's `Flush` waits until the queue *is* empty, so clients
that push without end could keep a flush waiting; this is listed as a hazard and
is not visible under a bound.

### What the violated properties say

1. `batcher_lost`: `Push` signals one waiter, and flushers wait on the same
   variable. If a flusher is woken it goes back to sleep, the worker is never
   woken, and the item stays. With first-in first-out wake-ups this cannot
   happen, because the worker, who waits only when the queue is empty, is then
   always ahead of every flusher (`WorkerFirst`); `SignalAll` in `Push` would
   make it independent of the library.
2. `factory_level`: the six convenience methods do not ask `Enabled`.
3. `factory_views`: what is queued is a view of a message that may be gone. The
   same run's property also covers `WithName`, which overwrites the name that
   queued records view.
4. `console_streams`: `WithStream` closes the standard streams of the process.
5. `console_time`: `gmtime` is called outside the mutex.
6. `record_signed`: -1 becomes 2^64 - 1. `RenderingsAgree` says what follows from
   such a number: in a build with assertions it ends the program, in the worker.

Disagreements met while modelling that have no run of their own. The models do
what the code does; the properties named are stated for the rest:

* `%T` takes padding, with the example `%T{hex:08}` for `"0000303a"`
  (`include/logrin/Formatter/Pattern/Segment.h:151`, `160`), and `FormatThreadId` ignores it
  (`src/formatters/pattern/Parser.cc:509-525`). The requests have such patterns, and
  `Rendered` is not stated for them.
* `StyleEnd` "pops one level from the style stack" (`Segment.h:260-261`), but there is no
  stack: `emitStyleEnd` writes the sequence that resets every style, so the rest of
  an enclosing style is lost (`src/formatters/Pattern.cc:718-725`). `StylesClosed` holds
  because of it: one end closes everything.
* A colour component is "0..=255" (`Segment.h:197`), but 65536 is accepted and is 0, and
  a comma may follow the third one (`src/formatters/Pattern.cc:341`, `360`). `ColoursTrue`
  is stated for numbers below 2^16.
* A literal is "copied to the output unchanged" (`Segment.h:56`), but one of exactly 2^16
  characters has length 0 (`src/formatters/pattern/Parser.cc:203-204`). `ViewsTrue` is
  stated for what ends before 2^16.
* A number above the largest `Int64` (in a build with assertions) and the level Off end
  the program in the OpenTelemetry worker (`src/sinks/OpenTelemetry.cc:93`, `116`), and both
  are accepted where the record is made. `Export` does so; `RenderingsAgree` is stated
  for the records that are left.
* `Shutdown` is "flushing any pending asynchronous logs" (`include/logrin/LogFactory.h:84`),
  but it flushes the sinks of the loggers it has stored (`src/LogFactory.cc:102`). A factory
  that has stored none yet leaves its own sinks as they are, and a sink added to a
  copy of a logger is never reached. `FlushedOnReturn` is stated for the sinks that
  stored loggers have.
* "By default, the console writes JSON-style records" (`include/logrin/Sinks/Console.h:46`), but
  a sink made from a stream alone has no formatter (`Console.h:80`), and `Emit` drops
  what it is given without one (`src/sinks/Console.cc:68`). `EmitCall` does so too;
  `NothingLost` is checked for sinks that have a formatter.
* `ParsedPattern::FormatSegment` has no case for `%L`, so that `FormatSegments`
  drops levels (`src/formatters/pattern/Parser.cc:390-417`); the formatter has one. `Rendered`
  compares the two for patterns without levels.
* A formatted time of 128 characters or more is dropped
  (`src/formatters/pattern/Parser.cc:453-457`).
* Without `UseColours`, the colour choice may change between a style and its end,
  which leaves the terminal styled. `ColoursForced` and `StylesClosed` are stated
  for formatters that force it, and nothing is claimed of the others.
* A prefix marker may open a style that neither the suffix nor the pattern closes.
  `StylesClosed` leaves that to whoever writes the markers.

## What is proved

`BatcherProofs` proves, for any sets of clients, any bounds and any batch size:

* `Invariance`: `Spec => []IInv`. `Delivery` and `FlushersAwake` are not
  inductive alone. `IInv` adds that a thread is in a critical section exactly
  when it holds the mutex (`Exclusion`), that `cv` holds exactly the sleeping
  threads, each once (`Sleepers`), what `n_processing` says about the worker
  (`Processing`), that a flush waits for no more than was accepted
  (`SnapBound`), the stages of the destructor (`Shutdown`) and, for a first-in
  first-out variable, that the worker sleeps in front (`WorkerFirst`). TLC
  checks `IInv` in `batcher_any`.
* From it: `TypeCorrect`, `ItemsDelivered`, `FlushersNeverForgotten`,
  `DestructorDrains`, `BatchesAreLimited` and the action property `FlushIsABarrier`. The barrier
  needs `Delivery` and `Processing`: with the queue empty and no batch in hand,
  `accepted = consumed`, and `snap` is at most its length.
* `WorkerNeverForgotten`: `WorkerAwake`, assuming `FifoWake`, by an
  invariant of its own on top of `IInv`.

`BatcherRefinement` proves `Refinement`: `Spec => ImplementsChannelSafely`, with
`consumed` for the channel's `delivered` and the snapshot of a client inside
`Flush` for `flushing`. `WorkerConsume`, `PushEnqueue`, `FlushCall`,
`FlushReturn` and `DestroyJoin` are the channel's `Deliver`, `Accept`,
`FlushCall`, `FlushReturn` and `Close`; every other step stutters.

`LogFactoryProofs` proves, for any threads, sinks, levels, names and bounds:

* `Invariance`: `Spec => []IInv`. Of the run's properties only `FanOut` and
  `TypeOK` are conjuncts of `IInv`; `NamesAlive` follows from it. The others say
  what a thread inside a call has still to do (`Calls`, `Emitting`), that a
  logger has no sink twice (`Distinct`), how far each sink is with what a
  flushing thread waits for (`Debts`), and whose records are pending (`Held`).
  `Held` is the heart: a record that is pending at a sink was logged by a thread
  that still holds a logger with that sink, and a thread that destroys its logger
  has no record at a sink beyond those it waits for there. Without the second
  half the first is not kept by the end of `~Logger`.
* From it `TypeCorrect`, `EverySinkEveryRecord` (`FanOut`) and
  `NamesOutliveRecords` (`NamesAlive`), and with `Debts` the action property
  `FlushedWhenBack` (`FlushedOnReturn`).
* `SinksRefineChannel`: `Spec => SinksAreChannels`. With `Refinement` of
  `BatcherRefinement` this closes the chain: the calls that loggers make are calls
  of a channel, and the batcher is one.

`ConsoleProofs` proves:

* `Invariance` and `TypeCorrect`: who writes to a sink or changes its stream holds
  its mutex, and only `WithStream` leaves a sink without a descriptor.
* `WholeLines`: `LineIntegrity`, from the invariant that the text of a record is
  the last thing its sink wrote to the file it still writes to (`TextWritten`),
  assuming `Undisturbed`: there is one sink, or nobody calls `WithStream`. The
  hypothesis is needed. With two sinks, one that closes its stream lets the file
  of the other be reopened as something else between a text and its newline,
  and TLC finds the torn line.
* `ReentrantTime`: without a formatter that calls `gmtime`, `OwnTime` holds. This
  is the other side of `console_time`: the call is the only cause.

`PatternParserProofs` proves, of one call of `Parse` with any pattern,
configuration, capacity and integer width, `ParserSpec => []ParserInv`, and from
it `PatternsAreCovered` (`Cover`), `StylesAreNested` (`Nested`) and
`CapacityIsKept`. `ParserInv` adds to `Cover` and `Nested` where the parser is
(`Position`), that every segment has a place and every open style a segment
(`WithinCapacity`), and that segments are of kinds the configuration allows
(`KindsAllowed`). All three actions that add a segment do so with `Push`, so one
lemma (`PushPreserves`) carries the induction: the new segment is made of what
begins where the last one ended, and the counts of styles grow by at most one
(`CountsAfterAppend`). `ReadableEnds` shows that a directive ends inside the
pattern, whatever its block. On top of it `ReadInvariance` says what was read
(`ReadInv`): where the literal in progress began, and of every segment the part
of the pattern it views and the number its block spells. From it `ViewsAreTrue`,
`PaddingIsTrue` and the types (`ParserTypeCorrect`), for any width of offsets: a
position below `2^ShortBits` is not changed by `Short`, and a number below it is
not changed on the way there, digit by digit.

`PatternFormatterProofs` lifts this to `Rendering`, which starts the parser three
times (`AllPatternsAreCovered`, `AllStylesAreNested`, and through `KeptRead`
`AllViewsAreTrue` and `AllPaddingIsTrue`), and proves
`FormattingNeverAborts` and `MarkersAreNeverNested`. Neither property is
inductive. The first needs that each kept pattern is `Validated`: `Format` takes
its views from the very segments `Parse` validated, so truncation to 16 bits,
which both see, cannot make them disagree. The second needs `KindsAllowed` of the
markers, and `Flat`, which says which activation may be on the stack.

`RenderingProofs` proves the rest of what `pattern` checks, with four invariants:

* `RecordInv`: an attribute is what a constructor of `AttributeValue` makes, and
  the JSON and the exported record were made of the record as it is. It gives
  `NothingElseIsLost` (`RenderingsAgree`), once and for all integers: a number
  survives the conversion if it does not exceed an `Int64`.
* `WalkInv`: each activation on the stack is inside its pattern, and the one below
  a marker has just passed an `%A`. With it, `TypeCorrect`.
* `WrittenInv`: what is visible so far is the text due at the walk's position
  (`WrittenAt`), a function of the stack alone: the segments before it, and for an
  `%A` in progress the attributes before the current one and the part of the
  marker. At the end that is the text `Rendered` asks for (`TextsAreRendered`): what each
  directive writes, in order. What one directive writes is `Content`, translated
  from the code and judged by `Padded` and `ViewsTrue`; `Rendered` leaves out padded thread ids,
  where it is not what is documented.
  `SetColourChoice` cannot disturb it, because it does not occur in it.
* `ColoursInv`: for a formatter with forced colours, the number of escape
  sequences due at the position (`DueAt`), none if they are forced off, and,
  where the walk is behind a closed style, that the last one written resets
  (`MustEnd`). It gives `ColoursAreForced` and `StylesAreClosed`.

`NamesArePadded` and `ColoursAreTrue` need no invariant of their own: padding is a
function of a segment, and a colour is one of the specifications that
`Validated` keeps. The lemmas under `ColoursAreTrue` show that to split a
specification at its commas and trim each part is to read the same digits as
the reference `Numbers` does.

`SequenceLemmas` has no induction rule to use, since those of the library take an
operator as a parameter. Facts about a recursive function on sequences
(`Selected`, `FlattenSeq`) are proved from a least counterexample: a set of
numbers that is not empty has a least one (`LeastNat`). For the same reason the
model's recursive definitions are local recursive functions. `SelectSeq` is a
primitive of the prover without a definition, so `FanOut` is stated with
`Selected`, and TLC checks in `factory` that it selects the same
(`SelectedIsSelectSeq`).

The assumptions are the named `ASSUME`s of the modules. Most say that thread names
differ, that bounds are numbers, that the sinks of a factory are finite and that
patterns and attributes are texts and values. Three state arithmetic and typing
that no backend knows: `ShortPowerAssumption` and `LongPowersAssumption` (a power
of two is a positive number, and twice the one before it) and `BlankAssumption`
(a blank is a string). TLC evaluates all of them in the runs.

The invariants `Calls`, `Held`, `Debts`, `TextWritten`, `ReadInv`, `WalkInv`,
`WrittenInv` and `ColoursInv` were checked with TLC on the instances of the runs
before they were proved. They are not properties of the runs, because the
theorems say more.

Only model-checked:

* all liveness (`ImplementsChannel`, `DestructorReturns`, `FlushTerminates`,
  `EmitReturns`), since the prover handles neither fairness nor
  `ENABLED`. The safety half of `ImplementsChannel` is proved;
* the properties the code violates, which are not theorems; what is true instead
  is proved for one of them (`ReentrantTime`).

## The plan

Done, in this order: `AsyncChannel`, `Batcher`, its proofs and refinement,
`LogFactory`, `Console`, `Segments`, `PatternParser`, `ColorSpec`, `LogRecord`,
`PatternFormatter`, `Rendering`, the proofs about patterns, those about
`LogFactory` and `Console`, those about what is written. To come:

1. What is true where the code violates a property: `LevelRespected` for the
   methods that ask `Enabled`, `RecordsIntact` for literal messages and loggers
   that are not renamed, `SignedKept` for numbers that are not negative,
   `NothingLost` without `WithStream`.
2. The pieces of the liveness arguments that are safety: that a step which
   progresses makes a measure smaller (a flush, the destructor).

## Not modelled

* The configuration header (macros), the table of colour names beyond two, and
  the tables that print an enumerator or an error for a message.
* `Pattern::Azalia`, one more request with a palette of its own; the palette is
  modelled.
* The Windows branches of the console sink, and `Console::Flush`, which changes no
  state of the program.
* How numbers, times, JSON and escape sequences are spelled: `std::format`,
  `strftime`, nlohmann's library and violet's. With it the error path of JSON:
  `dump` throws for a text that is not UTF-8 (`src/formatters/Json.cc:43`), out of an
  `Emit` that a destructor calls, which ends the program. Texts have no encoding
  in the model; the hazard is listed.
* Two threads inside the factory at once, a log entry that outlives its logger,
  `WithFormatter` during an emit, a consumer that flushes its own batcher, and
  two sinks on one stream: undefined or unpromised, and listed as hazards with
  the reason.
* The build files, the Nix and release scripts, the tests and the examples.
