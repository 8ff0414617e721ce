------------------------------- MODULE Console -------------------------------
(***************************************************************************)
(* logrin::sinks::Console: Emit formats a record outside the sink's mutex, *)
(* then writes the text and a newline inside it; WithStream closes the     *)
(* descriptor it has and adopts the other standard one. Descriptors belong *)
(* to the process: what one sink closes is closed for everybody, and the   *)
(* next file the process opens gets the lowest number that is free.        *)
(*                                                                         *)
(* A step is what a thread does between two points at which another thread *)
(* may see the difference; pc[t] names the next one. WithFormatter is part *)
(* of setting a sink up: it is called while nothing is emitted.            *)
(***************************************************************************)
EXTENDS Selections

CONSTANTS Threads,      \* the threads that use the sinks
          Consoles,     \* the sinks
          Formatters,   \* how they format time: "gmtime" or "reentrant"; "none"
                        \* for a sink that was made without a formatter
          NoThread,     \* n_mux's holder when it is free
          MayFail,      \* a write to an open descriptor may fail
          MaxEmits,     \* bound: emits per thread
          MaxRestreams  \* bound: calls of WithStream

Stdout == 1
Stderr == 2
Streams == {Stdout, Stderr}
Invalid == -1

ASSUME ThreadsAssumption == NoThread \notin Threads
ASSUME FormattersAssumption == Formatters \subseteq {"gmtime", "reentrant", "none"}
ASSUME FailureAssumption == MayFail \in BOOLEAN
ASSUME BoundsAssumption == MaxEmits \in Nat /\ MaxRestreams \in Nat

\* What a descriptor may refer to.
Files == {"stdout", "stderr", "other"}

VARIABLES table,     \* the process' descriptors: Streams -> file or "closed"
          mux,       \* n_mux of each sink
          fd,        \* n_descriptor of each sink
          formatter, \* n_formatter of each sink, "none" when it is null
          pc,        \* what each thread does next
          console,   \* the sink each thread is working on
          emits,     \* how many records each thread has emitted
          stamp,     \* the time in the text each thread has formatted
          tm,        \* gmtime's static buffer
          restreams, \* how often WithStream was called
          target,    \* the stream each thread's WithStream was asked for
          out        \* what was written to each file

vars == <<table, mux, fd, formatter, pc, console, emits, stamp, tm, restreams,
          target, out>>
emitVars == <<console, emits, stamp, tm>>
streamVars == <<restreams, target>>

NoTime == <<NoThread, 0>>

\* The record a thread is emitting; no two records are of the same time.
Record(t) == <<t, emits[t]>>

Init ==
    /\ table = [d \in Streams |-> IF d = Stdout THEN "stdout" ELSE "stderr"]
    /\ mux = [k \in Consoles |-> NoThread]
    /\ fd \in [Consoles -> Streams]
    /\ formatter \in [Consoles -> Formatters]
    /\ pc = [t \in Threads |-> "idle"]
    /\ \E k \in Consoles : console = [t \in Threads |-> k]
    /\ emits = [t \in Threads |-> 0]
    /\ stamp = [t \in Threads |-> NoTime]
    /\ tm = NoTime
    /\ restreams = 0
    /\ target = [t \in Threads |-> Stdout]
    /\ out = [f \in Files |-> <<>>]

Goto(t, next) == pc' = [pc EXCEPT ![t] = next]

\* n_mux is taken, or given back, for the sink t works on.
Acquire(t) ==
    /\ mux[console[t]] = NoThread
    /\ mux' = [mux EXCEPT ![console[t]] = t]
Release(t) == mux' = [mux EXCEPT ![console[t]] = NoThread]

-----------------------------------------------------------------------------
(* Emit                                                                    *)

Formattable(k) == formatter[k] # "none" /\ fd[k] # Invalid

\* The formatter and the descriptor are looked at before the mutex is taken.
\* Without either the record is dropped: the emit returns, nothing is written.
EmitCall(t, k) ==
    /\ pc[t] = "idle"
    /\ emits[t] < MaxEmits
    /\ emits' = [emits EXCEPT ![t] = @ + 1]
    /\ console' = [console EXCEPT ![t] = k]
    /\ Goto(t, IF Formattable(k) THEN "format" ELSE "idle")
    /\ UNCHANGED <<table, mux, fd, formatter, stamp, tm, streamVars, out>>

\* Format with localtime_r, or without the time.
FormatReentrant(t) ==
    /\ pc[t] = "format"
    /\ formatter[console[t]] = "reentrant"
    /\ stamp' = [stamp EXCEPT ![t] = Record(t)]
    /\ Goto(t, "lock")
    /\ UNCHANGED <<table, mux, fd, formatter, console, emits, tm, streamVars, out>>

\* gmtime fills the buffer all its callers share ...
FormatGmtime(t) ==
    /\ pc[t] = "format"
    /\ formatter[console[t]] = "gmtime"
    /\ tm' = Record(t)
    /\ Goto(t, "read")
    /\ UNCHANGED <<table, mux, fd, formatter, console, emits, stamp, streamVars, out>>

\* ... and the caller reads it: what it wrote, or what came after.
FormatRead(t) ==
    /\ pc[t] = "read"
    /\ stamp' = [stamp EXCEPT ![t] = tm]
    /\ Goto(t, "lock")
    /\ UNCHANGED <<table, mux, fd, formatter, console, emits, tm, streamVars, out>>

\* Mutant: the mutex of the sink is not taken.
EmitUnlocked(t) ==
    /\ pc[t] = "lock"
    /\ Goto(t, "write")
    /\ UNCHANGED <<table, mux, fd, formatter, emitVars, streamVars, out>>

EmitLock(t) ==
    /\ pc[t] = "lock"
    /\ Acquire(t)
    /\ Goto(t, "write")
    /\ UNCHANGED <<table, fd, formatter, emitVars, streamVars, out>>

\* Descriptor d is open.
Open(d) == d # Invalid /\ table[d] # "closed"

\* A piece of output of thread t reaches the file that descriptor d refers to.
WriteTo(d, t, part) ==
    out' = [out EXCEPT ![table[d]] =
               Append(@, [record |-> Record(t), part |-> part, via |-> console[t],
                          stamp |-> stamp[t]])]

EmitWrite(t) ==
    /\ pc[t] = "write"
    /\ Open(fd[console[t]])
    /\ WriteTo(fd[console[t]], t, "text")
    /\ Goto(t, "newline")
    /\ UNCHANGED <<table, mux, fd, formatter, emitVars, streamVars>>

\* Mutant: the error path returns with the mutex held.
EmitReportLocked(t) ==
    /\ pc[t] = "write"
    /\ Open(Stderr)
    /\ WriteTo(Stderr, t, "report")
    /\ Goto(t, "idle")
    /\ UNCHANGED <<table, mux, fd, formatter, emitVars, streamVars>>

\* Write failed: cerr is told, if it is there.
EmitReport(t) ==
    /\ pc[t] = "write"
    /\ MayFail \/ ~Open(fd[console[t]])
    /\ \/ Open(Stderr) /\ WriteTo(Stderr, t, "report")
       \/ ~Open(Stderr) /\ UNCHANGED out
    /\ Release(t)
    /\ Goto(t, "idle")
    /\ UNCHANGED <<table, fd, formatter, emitVars, streamVars>>

\* The newline; whether it could be written is not looked at.
EmitNewline(t) ==
    /\ pc[t] = "newline"
    /\ \/ Open(fd[console[t]]) /\ WriteTo(fd[console[t]], t, "newline")
       \/ (MayFail \/ ~Open(fd[console[t]])) /\ UNCHANGED out
    /\ Release(t)
    /\ Goto(t, "idle")
    /\ UNCHANGED <<table, fd, formatter, emitVars, streamVars>>

-----------------------------------------------------------------------------
(* WithStream and WithFormatter                                            *)

StreamCall(t, k, stream) ==
    /\ pc[t] = "idle"
    /\ restreams < MaxRestreams
    /\ restreams' = restreams + 1
    /\ target' = [target EXCEPT ![t] = stream]
    /\ console' = [console EXCEPT ![t] = k]
    /\ Goto(t, "streamLock")
    /\ UNCHANGED <<table, mux, fd, formatter, emits, stamp, tm, out>>

\* The sink has that stream already, or gives up the one it has.
StreamLock(t) ==
    /\ pc[t] = "streamLock"
    /\ mux[console[t]] = NoThread
    /\ IF fd[console[t]] = target[t]
       THEN Goto(t, "idle") /\ UNCHANGED mux
       ELSE Goto(t, "streamClose") /\ Acquire(t)
    /\ UNCHANGED <<table, fd, formatter, emitVars, streamVars, out>>

\* FileDescriptor::Close: the number is free, for the whole process.
StreamClose(t) ==
    /\ pc[t] = "streamClose"
    /\ table' = [table EXCEPT ![fd[console[t]]] = "closed"]
    /\ fd' = [fd EXCEPT ![console[t]] = Invalid]
    /\ Goto(t, "streamAdopt")
    /\ UNCHANGED <<mux, formatter, emitVars, streamVars, out>>

\* Mutant: the sink is left without a descriptor.
StreamDrop(t) ==
    /\ pc[t] = "streamAdopt"
    /\ Release(t)
    /\ Goto(t, "idle")
    /\ UNCHANGED <<table, fd, formatter, emitVars, streamVars, out>>

\* The number of the other standard stream is adopted, open or not.
StreamAdopt(t) ==
    /\ pc[t] = "streamAdopt"
    /\ fd' = [fd EXCEPT ![console[t]] = target[t]]
    /\ Release(t)
    /\ Goto(t, "idle")
    /\ UNCHANGED <<table, formatter, emitVars, streamVars, out>>

\* The formatter that is given is never null.
WithFormatter(k, f) ==
    /\ f # "none"
    /\ \A t \in Threads : pc[t] # "idle" => console[t] # k
    /\ formatter' = [formatter EXCEPT ![k] = f]
    /\ UNCHANGED <<table, mux, fd, pc, emitVars, streamVars, out>>

\* Elsewhere in the process a file is opened: it gets the lowest free number.
OpenFile ==
    /\ \E d \in Streams :
          /\ table[d] = "closed"
          /\ \A e \in Streams : table[e] = "closed" => d <= e
          /\ table' = [table EXCEPT ![d] = "other"]
    /\ UNCHANGED <<mux, fd, formatter, pc, emitVars, streamVars, out>>

\* Nobody has to call anything.
Quiet == (\A t \in DOMAIN pc : pc[t] = "idle") /\ UNCHANGED vars

-----------------------------------------------------------------------------
Call(t) ==
    \E k \in Consoles : EmitCall(t, k) \/ \E s \in Streams : StreamCall(t, k, s)

MutexLock(t) == EmitLock(t) \/ StreamLock(t)

Step(t) ==
    \/ FormatReentrant(t) \/ FormatGmtime(t) \/ FormatRead(t)
    \/ EmitWrite(t) \/ EmitReport(t) \/ EmitNewline(t)
    \/ StreamClose(t) \/ StreamAdopt(t)

Next ==
    \/ \E t \in Threads : Call(t) \/ MutexLock(t) \/ Step(t)
    \/ \E k \in Consoles, f \in Formatters : WithFormatter(k, f)
    \/ OpenFile
    \/ Quiet

Spec == Init /\ [][Next]_vars

(* A thread goes on with the call it has begun, and one that asks for a    *)
(* mutex that is free again and again gets it.                             *)
Fairness == \A t \in Threads : WF_vars(Step(t)) /\ SF_vars(MutexLock(t))

FairSpec == Spec /\ Fairness

-----------------------------------------------------------------------------
(* Type invariant                                                          *)

Times == (Threads \cup {NoThread}) \X (0 .. MaxEmits)
Pieces == [record : Threads \X (1 .. MaxEmits), part : {"text", "newline", "report"},
           via : Consoles, stamp : Times]

\* Every variable has the type its declaration gives it; a sink is without a
\* descriptor only while WithStream replaces the one it had.
TypeOK ==
    /\ table \in [Streams -> Files \cup {"closed"}]
    /\ mux \in [Consoles -> Threads \cup {NoThread}]
    /\ fd \in [Consoles -> Streams \cup {Invalid}]
    /\ \A k \in Consoles : fd[k] = Invalid => mux[k] # NoThread
    /\ formatter \in [Consoles -> Formatters]
    /\ pc \in [Threads ->
                 {"idle", "format", "read", "lock", "write", "newline",
                  "streamLock", "streamClose", "streamAdopt"}]
    /\ console \in [Threads -> Consoles]
    /\ emits \in [Threads -> 0 .. MaxEmits]
    /\ stamp \in [Threads -> Times]
    /\ tm \in Times
    /\ restreams \in 0 .. MaxRestreams
    /\ target \in [Threads -> Streams]
    /\ out \in [Files -> Seq(Pieces)]

-----------------------------------------------------------------------------
(* Safety                                                                  *)

\* What sink k writes, reports of failures apart.
LinesOf(k) == {p \in Pieces : p.via = k /\ p.part # "report"}

\* What sink k wrote to file f.
Written(f, k) == Selected(out[f], LinesOf(k))

(* Emit, "internally synchronized via a Mutex" (Console.h): the newline of *)
(* a record comes right after its text, whatever the other threads that    *)
(* use the sink emit and wherever WithStream sends the next records.       *)
LineIntegrity ==
    \A f \in Files, k \in Consoles :
        LET w == Written(f, k)
        IN  \A i \in DOMAIN w :
                w[i].part = "newline" =>
                    i > 1 /\ w[i - 1].part = "text" /\ w[i - 1].record = w[i].record

(* Emit, "this will write to std::cerr": when an emit has returned, its    *)
(* record is on a standard stream, or a report of its failure is.          *)
NothingLost ==
    \A t \in Threads : \A n \in 1 .. emits[t] :
        pc[t] = "idle" =>
            \E f \in {"stdout", "stderr"} : \E i \in DOMAIN out[f] :
                out[f][i].record = <<t, n>> /\ out[f][i].part # "newline"

(* Emit, "Concurrent calls to Console::Emit and Console::Flush are safe":  *)
(* the time in a line is the time of its record.                           *)
OwnTime ==
    \A f \in Files : \A i \in DOMAIN out[f] :
        out[f][i].part = "text" => out[f][i].stamp = out[f][i].record

-----------------------------------------------------------------------------
(* Liveness, under FairSpec                                                *)

\* An emit returns, whether its writes succeed or not.
EmitReturns == \A t \in Threads : pc[t] = "lock" ~> pc[t] = "idle"
=============================================================================
