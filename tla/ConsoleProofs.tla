---------------------------- MODULE ConsoleProofs ----------------------------
(***************************************************************************)
(* Proofs about Console, for any threads, formatters and bounds.           *)
(***************************************************************************)
EXTENDS Console, SequenceLemmas

\* Where a thread holds the mutex of the sink it works on.
Inside == {"write", "newline", "streamClose", "streamAdopt"}

\* Who holds which mutex, and who has taken a descriptor away.
Locked ==
    /\ \A t \in Threads : pc[t] \in Inside => mux[console[t]] = t
    /\ \A k \in Consoles :
          fd[k] = Invalid => \E t \in Threads : console[t] = k /\ pc[t] = "streamAdopt"

\* What a call has counted when it began.
Counted ==
    \A t \in Threads :
        /\ pc[t] \in {"format", "read", "lock", "write", "newline"} => emits[t] >= 1
        /\ pc[t] \in {"streamLock", "streamClose", "streamAdopt"} => restreams >= 1
        /\ pc[t] = "streamClose" => fd[console[t]] # Invalid

\* The text of a record is the last thing its sink wrote to the file it still
\* writes to.
TextWritten ==
    \A t \in Threads :
        pc[t] = "newline" =>
            LET k == console[t]
                w == Written(table[fd[k]], k)
            IN  /\ Open(fd[k])
                /\ w # <<>>
                /\ Last(w).part = "text" /\ Last(w).record = Record(t)

\* No sink closes the stream another sink writes to.
Undisturbed == (\A j, k \in Consoles : j = k) \/ MaxRestreams = 0

IInv == TypeOK /\ Locked /\ Counted

LInv == TextWritten /\ LineIntegrity

-----------------------------------------------------------------------------
(* Types and the mutex                                                     *)

LEMMA InitIInv == Init => IInv
<1> SUFFICES ASSUME Init PROVE IInv
  OBVIOUS
<1>1. TypeOK
  <2>1. /\ table \in [Streams -> Files \cup {"closed"}]
        /\ fd \in [Consoles -> Streams \cup {Invalid}]
        /\ \A k \in Consoles : fd[k] # Invalid
    BY DEF Init, Streams, Stdout, Stderr, Invalid, Files
  <2>2. out \in [Files -> Seq(Pieces)]
    BY EmptySeq DEF Init
  <2>3. NoTime \in Times
    BY BoundsAssumption DEF NoTime, Times
  <2>4. console \in [Threads -> Consoles]
    BY DEF Init
  <2>5. target \in [Threads -> Streams]
    BY DEF Init, Streams
  <2> QED BY <2>1, <2>2, <2>3, <2>4, <2>5, BoundsAssumption DEF Init, TypeOK
<1>2. Locked
  BY DEF Init, Locked, Inside, Streams, Stdout, Stderr, Invalid
<1>3. Counted
  BY DEF Init, Counted
<1> QED BY <1>1, <1>2, <1>3 DEF IInv

(* A thread's record is one it may emit.                                   *)
LEMMA RecordType ==
    ASSUME TypeOK, NEW t \in Threads
    PROVE  /\ Record(t) \in Times
           /\ emits[t] >= 1 => Record(t) \in Threads \X (1 .. MaxEmits)
BY BoundsAssumption DEF TypeOK, Record, Times

(* What WriteTo adds.                                                      *)
LEMMA WriteToType ==
    ASSUME TypeOK, NEW t \in Threads, emits[t] >= 1, NEW d \in Streams, Open(d),
           NEW part \in {"text", "newline", "report"}, WriteTo(d, t, part)
    PROVE  out' \in [Files -> Seq(Pieces)]
<1> DEFINE piece == [record |-> Record(t), part |-> part, via |-> console[t],
                     stamp |-> stamp[t]]
<1>1. piece \in Pieces
  BY RecordType DEF Pieces, TypeOK
<1>2. table[d] \in Files
  BY DEF Open, TypeOK
<1>3. out' = [out EXCEPT ![table[d]] = Append(out[table[d]], piece)]
  BY DEF WriteTo
<1>4. Append(out[table[d]], piece) \in Seq(Pieces)
  BY <1>1, <1>2, AppendElements DEF TypeOK
<1> QED BY <1>3, <1>4 DEF TypeOK

(* One thread's step that takes no mutex, gives none back and moves no     *)
(* descriptor.                                                             *)
LEMMA LockedKept ==
    ASSUME IInv, NEW t \in Threads, NEW next, NEW k \in Consoles,
           UNCHANGED <<mux, fd>>,
           pc' = [pc EXCEPT ![t] = next], console' = [console EXCEPT ![t] = k],
           pc[t] # "streamAdopt",
           next \in Inside => pc[t] \in Inside /\ k = console[t]
    PROVE  Locked'
BY DEF IInv, TypeOK, Locked

(* Every step keeps the types and the mutexes.                             *)
LEMMA EmitCallIInv ==
    ASSUME IInv, NEW t \in Threads, NEW k \in Consoles, EmitCall(t, k)
    PROVE  IInv'
<1> DEFINE next == IF Formattable(k) THEN "format" ELSE "idle"
<1>1. /\ pc[t] = "idle" /\ emits[t] < MaxEmits
      /\ emits' = [emits EXCEPT ![t] = emits[t] + 1]
      /\ console' = [console EXCEPT ![t] = k]
      /\ pc' = [pc EXCEPT ![t] = next]
      /\ UNCHANGED <<table, mux, fd, formatter, stamp, tm, restreams, target, out>>
  BY DEF EmitCall, Goto, streamVars
<1>2. next \in {"idle", "format"}
  OBVIOUS
<1> HIDE DEF next
<1>3. emits[t] \in 0 .. MaxEmits /\ emits[t] + 1 \in 0 .. MaxEmits
  BY <1>1, BoundsAssumption DEF IInv, TypeOK
<1>4. TypeOK'
  BY <1>1, <1>2, <1>3 DEF IInv, TypeOK
<1>5. Locked'
  BY <1>1, <1>2, LockedKept DEF Inside
<1>6. Counted'
  BY <1>1, <1>2, <1>3 DEF IInv, TypeOK, Counted
<1> QED BY <1>4, <1>5, <1>6 DEF IInv

LEMMA FormatIInv ==
    ASSUME IInv, NEW t \in Threads,
           FormatReentrant(t) \/ FormatGmtime(t) \/ FormatRead(t)
    PROVE  IInv'
<1>1. /\ pc[t] \in {"format", "read"}
      /\ UNCHANGED <<table, mux, fd, formatter, console, emits, restreams, target, out>>
      /\ stamp' \in [Threads -> Times] /\ tm' \in Times
  <2>1. /\ stamp \in [Threads -> Times] /\ tm \in Times /\ Record(t) \in Times
    BY RecordType DEF IInv, TypeOK
  <2>2. /\ pc[t] \in {"format", "read"}
        /\ UNCHANGED <<table, mux, fd, formatter, console, emits, restreams, target, out>>
    BY DEF FormatReentrant, FormatGmtime, FormatRead, streamVars
  <2>3. /\ \/ stamp' = stamp
           \/ stamp' = [stamp EXCEPT ![t] = Record(t)]
           \/ stamp' = [stamp EXCEPT ![t] = tm]
        /\ tm' = tm \/ tm' = Record(t)
    BY DEF FormatReentrant, FormatGmtime, FormatRead
  <2> QED BY <2>1, <2>2, <2>3
<1>2. \E x \in {"read", "lock"} : pc' = [pc EXCEPT ![t] = x]
  BY DEF FormatReentrant, FormatGmtime, FormatRead, Goto
<1>3. PICK next \in {"read", "lock"} : pc' = [pc EXCEPT ![t] = next]
  BY <1>2
<1>4. TypeOK'
  BY <1>1, <1>3 DEF IInv, TypeOK
<1>5. Locked'
  BY <1>1, <1>3 DEF IInv, TypeOK, Locked, Inside
<1>6. Counted'
  BY <1>1, <1>3 DEF IInv, TypeOK, Counted
<1> QED BY <1>4, <1>5, <1>6 DEF IInv

LEMMA EmitLockIInv ==
    ASSUME IInv, NEW t \in Threads, EmitLock(t)
    PROVE  IInv'
<1>1. /\ pc[t] = "lock" /\ mux[console[t]] = NoThread
      /\ mux' = [mux EXCEPT ![console[t]] = t]
      /\ pc' = [pc EXCEPT ![t] = "write"]
      /\ UNCHANGED <<table, fd, formatter, console, emits, stamp, tm, restreams, target, out>>
  BY DEF EmitLock, Acquire, Goto, emitVars, streamVars
<1>2. TypeOK'
  BY <1>1, ThreadsAssumption DEF IInv, TypeOK
<1>3. Locked'
  BY <1>1, ThreadsAssumption DEF IInv, TypeOK, Locked, Inside
<1>4. Counted'
  BY <1>1 DEF IInv, TypeOK, Counted
<1> QED BY <1>2, <1>3, <1>4 DEF IInv

LEMMA EmitWriteIInv ==
    ASSUME IInv, NEW t \in Threads, EmitWrite(t)
    PROVE  IInv'
<1>1. /\ pc[t] = "write" /\ Open(fd[console[t]])
      /\ WriteTo(fd[console[t]], t, "text")
      /\ pc' = [pc EXCEPT ![t] = "newline"]
      /\ UNCHANGED <<table, mux, fd, formatter, console, emits, stamp, tm, restreams, target>>
  BY DEF EmitWrite, Goto, emitVars, streamVars
<1>2. fd[console[t]] \in Streams /\ emits[t] >= 1
  BY <1>1 DEF IInv, TypeOK, Open, Counted
<1>3. out' \in [Files -> Seq(Pieces)]
  BY <1>1, <1>2, WriteToType DEF IInv
<1>4. TypeOK'
  BY <1>1, <1>3 DEF IInv, TypeOK
<1>5. Locked'
  BY <1>1 DEF IInv, TypeOK, Locked, Inside
<1>6. Counted'
  BY <1>1 DEF IInv, TypeOK, Counted
<1> QED BY <1>4, <1>5, <1>6 DEF IInv

(* Emit gives the mutex back, whatever became of the write.                *)
LEMMA EmitEndsIInv ==
    ASSUME IInv, NEW t \in Threads, EmitReport(t) \/ EmitNewline(t)
    PROVE  IInv'
<1>1. /\ pc[t] \in {"write", "newline"}
      /\ mux' = [mux EXCEPT ![console[t]] = NoThread]
      /\ pc' = [pc EXCEPT ![t] = "idle"]
      /\ UNCHANGED <<table, fd, formatter, console, emits, stamp, tm, restreams, target>>
  BY DEF EmitReport, EmitNewline, Release, Goto, emitVars, streamVars
<1>2. emits[t] >= 1 /\ mux[console[t]] = t
  BY <1>1 DEF IInv, Counted, Locked, Inside
<1>3. out' \in [Files -> Seq(Pieces)]
  <2>1. CASE UNCHANGED out
    BY <2>1 DEF IInv, TypeOK
  <2>2. CASE Open(Stderr) /\ WriteTo(Stderr, t, "report")
    BY <1>2, <2>2, WriteToType DEF IInv, Streams
  <2>3. CASE Open(fd[console[t]]) /\ WriteTo(fd[console[t]], t, "newline")
    <3>1. fd[console[t]] \in Streams
      BY <2>3 DEF IInv, TypeOK, Open
    <3> QED BY <1>2, <2>3, <3>1, WriteToType DEF IInv
  <2> QED BY <2>1, <2>2, <2>3 DEF EmitReport, EmitNewline
<1>4. \A k \in Consoles : fd[k] = Invalid => k # console[t]
  BY <1>1, <1>2 DEF IInv, TypeOK, Locked, Inside
<1>5. TypeOK'
  BY <1>1, <1>3, <1>4 DEF IInv, TypeOK
<1>6. Locked'
  BY <1>1, <1>2 DEF IInv, TypeOK, Locked, Inside
<1>7. Counted'
  BY <1>1 DEF IInv, TypeOK, Counted
<1> QED BY <1>5, <1>6, <1>7 DEF IInv

LEMMA StreamCallIInv ==
    ASSUME IInv, NEW t \in Threads, NEW k \in Consoles, NEW stream \in Streams,
           StreamCall(t, k, stream)
    PROVE  IInv'
<1>1. /\ pc[t] = "idle" /\ restreams < MaxRestreams /\ restreams' = restreams + 1
      /\ target' = [target EXCEPT ![t] = stream]
      /\ console' = [console EXCEPT ![t] = k]
      /\ pc' = [pc EXCEPT ![t] = "streamLock"]
      /\ UNCHANGED <<table, mux, fd, formatter, emits, stamp, tm, out>>
  BY DEF StreamCall, Goto
<1>2. restreams' \in 0 .. MaxRestreams /\ restreams' >= 1
  BY <1>1, BoundsAssumption DEF IInv, TypeOK
<1>3. TypeOK'
  BY <1>1, <1>2 DEF IInv, TypeOK
<1>4. Locked'
  BY <1>1, LockedKept DEF Inside
<1>5. Counted'
  BY <1>1, <1>2 DEF IInv, TypeOK, Counted
<1> QED BY <1>3, <1>4, <1>5 DEF IInv

LEMMA StreamLockIInv ==
    ASSUME IInv, NEW t \in Threads, StreamLock(t)
    PROVE  IInv'
<1>1. /\ pc[t] = "streamLock" /\ mux[console[t]] = NoThread
      /\ UNCHANGED <<table, fd, formatter, console, emits, stamp, tm, restreams, target, out>>
  BY DEF StreamLock, emitVars, streamVars
<1>2. CASE pc' = [pc EXCEPT ![t] = "idle"] /\ mux' = mux
  <2>1. TypeOK'
    BY <1>1, <1>2 DEF IInv, TypeOK
  <2>2. Locked'
    BY <1>1, <1>2 DEF IInv, TypeOK, Locked, Inside
  <2>3. Counted'
    BY <1>1, <1>2 DEF IInv, TypeOK, Counted
  <2> QED BY <2>1, <2>2, <2>3 DEF IInv
<1>3. CASE pc' = [pc EXCEPT ![t] = "streamClose"] /\ mux' = [mux EXCEPT ![console[t]] = t]
  <2>1. fd[console[t]] # Invalid
    BY <1>1 DEF IInv, TypeOK
  <2>2. TypeOK'
    BY <1>1, <1>3, <2>1 DEF IInv, TypeOK
  <2>3. Locked'
    BY <1>1, <1>3, ThreadsAssumption DEF IInv, TypeOK, Locked, Inside
  <2>4. Counted'
    BY <1>1, <1>3, <2>1 DEF IInv, TypeOK, Counted
  <2> QED BY <2>2, <2>3, <2>4 DEF IInv
<1> QED BY <1>2, <1>3 DEF StreamLock, Goto, Acquire

LEMMA StreamCloseIInv ==
    ASSUME IInv, NEW t \in Threads, StreamClose(t)
    PROVE  IInv'
<1>1. /\ pc[t] = "streamClose"
      /\ table' = [table EXCEPT ![fd[console[t]]] = "closed"]
      /\ fd' = [fd EXCEPT ![console[t]] = Invalid]
      /\ pc' = [pc EXCEPT ![t] = "streamAdopt"]
      /\ UNCHANGED <<mux, formatter, console, emits, stamp, tm, restreams, target, out>>
  BY DEF StreamClose, Goto, emitVars, streamVars
<1>2. mux[console[t]] = t /\ t # NoThread
  BY <1>1, ThreadsAssumption DEF IInv, Locked, Inside
<1>3. TypeOK'
  BY <1>1, <1>2 DEF IInv, TypeOK
<1>4. Locked'
  BY <1>1, <1>2 DEF IInv, TypeOK, Locked, Inside
<1>5. ASSUME NEW u \in Threads, u # t, pc[u] = "streamClose"
      PROVE  console[u] # console[t]
  BY <1>2, <1>5 DEF IInv, Locked, Inside
<1>6. Counted'
  BY <1>1, <1>5 DEF IInv, TypeOK, Counted
<1> QED BY <1>3, <1>4, <1>6 DEF IInv

LEMMA StreamAdoptIInv ==
    ASSUME IInv, NEW t \in Threads, StreamAdopt(t)
    PROVE  IInv'
<1>1. /\ pc[t] = "streamAdopt"
      /\ fd' = [fd EXCEPT ![console[t]] = target[t]]
      /\ mux' = [mux EXCEPT ![console[t]] = NoThread]
      /\ pc' = [pc EXCEPT ![t] = "idle"]
      /\ UNCHANGED <<table, formatter, console, emits, stamp, tm, restreams, target, out>>
  BY DEF StreamAdopt, Release, Goto, emitVars, streamVars
<1>2. target[t] \in Streams /\ target[t] # Invalid
  BY DEF IInv, TypeOK, Streams, Stdout, Stderr, Invalid
<1>3. mux[console[t]] = t
  BY <1>1 DEF IInv, Locked, Inside
<1>4. TypeOK'
  BY <1>1, <1>2 DEF IInv, TypeOK
<1>5. Locked'
  BY <1>1, <1>2, <1>3 DEF IInv, TypeOK, Locked, Inside
<1>6. Counted'
  BY <1>1, <1>2 DEF IInv, TypeOK, Counted
<1> QED BY <1>4, <1>5, <1>6 DEF IInv

LEMMA OthersIInv ==
    ASSUME IInv,
           \/ \E k \in Consoles, f \in Formatters : WithFormatter(k, f)
           \/ OpenFile
           \/ UNCHANGED vars
    PROVE  IInv'
<1>1. /\ UNCHANGED <<mux, fd, pc, console, emits, stamp, tm, restreams, target, out>>
      /\ table' \in [Streams -> Files \cup {"closed"}]
      /\ formatter' \in [Consoles -> Formatters]
  <2>1. ASSUME NEW k \in Consoles, NEW f \in Formatters, WithFormatter(k, f)
        PROVE  formatter' \in [Consoles -> Formatters]
    <3>1. formatter' = [formatter EXCEPT ![k] = f]
      BY <2>1 DEF WithFormatter
    <3> QED BY <3>1 DEF IInv, TypeOK
  <2>2. CASE \E k \in Consoles, f \in Formatters : WithFormatter(k, f)
    BY <2>1, <2>2 DEF WithFormatter, emitVars, streamVars, IInv, TypeOK
  <2>3. CASE OpenFile
    BY <2>3 DEF OpenFile, emitVars, streamVars, IInv, TypeOK, Files
  <2>4. CASE UNCHANGED vars
    BY <2>4 DEF vars, IInv, TypeOK
  <2> QED BY <2>2, <2>3, <2>4
<1>2. TypeOK'
  BY <1>1 DEF IInv, TypeOK
<1>3. Locked' /\ Counted'
  BY <1>1 DEF IInv, Locked, Counted
<1> QED BY <1>2, <1>3 DEF IInv

LEMMA NextIInv == IInv /\ [Next]_vars => IInv'
<1> SUFFICES ASSUME IInv, [Next]_vars PROVE IInv'
  OBVIOUS
<1>1. ASSUME NEW t \in Threads, Call(t) PROVE IInv'
  BY <1>1, EmitCallIInv, StreamCallIInv DEF Call
<1>2. ASSUME NEW t \in Threads, MutexLock(t) PROVE IInv'
  BY <1>2, EmitLockIInv, StreamLockIInv DEF MutexLock
<1>3. ASSUME NEW t \in Threads, Step(t) PROVE IInv'
  BY <1>3, FormatIInv, EmitWriteIInv, EmitEndsIInv, StreamCloseIInv, StreamAdoptIInv DEF Step
<1>4. CASE \/ \E k \in Consoles, f \in Formatters : WithFormatter(k, f)
           \/ OpenFile
           \/ UNCHANGED vars
  BY <1>4, OthersIInv
<1> QED BY <1>1, <1>2, <1>3, <1>4 DEF Next, Quiet

THEOREM Invariance == Spec => []IInv
<1> QED BY InitIInv, NextIInv, PTL DEF Spec

(* Every variable has the type its declaration gives it, and a sink is     *)
(* without a descriptor only while WithStream, which holds its mutex,      *)
(* replaces the one it had (Console.cc).                                   *)
THEOREM TypeCorrect == Spec => []TypeOK
<1>1. IInv => TypeOK
  BY DEF IInv
<1> QED BY <1>1, Invariance, PTL

-----------------------------------------------------------------------------
(* Whole lines                                                             *)

\* What WriteTo writes.
Piece(t, part) ==
    [record |-> Record(t), part |-> part, via |-> console[t], stamp |-> stamp[t]]

(* A write shows in what its own sink wrote to that file, unless it is a   *)
(* report.                                                                 *)
LEMMA WrittenAfter ==
    ASSUME TypeOK, NEW t \in Threads, emits[t] >= 1, NEW d \in Streams, Open(d),
           NEW part \in {"text", "newline", "report"}, WriteTo(d, t, part),
           NEW f \in Files, NEW k \in Consoles
    PROVE  /\ Written(f, k) \in Seq(Pieces) /\ Piece(t, part) \in Pieces
           /\ Written(f, k)' =
                  IF f = table[d] /\ k = console[t] /\ part # "report"
                  THEN Append(Written(f, k), Piece(t, part))
                  ELSE Written(f, k)
<1> DEFINE p == Piece(t, part)
<1>1. p \in Pieces
  BY RecordType DEF Piece, Pieces, TypeOK
<1>2. out' = [out EXCEPT ![table[d]] = Append(out[table[d]], p)]
  BY DEF WriteTo, Piece
<1>3. p \in LinesOf(k) <=> k = console[t] /\ part # "report"
  BY <1>1 DEF LinesOf, Piece
<1> HIDE DEF p
<1>4. out[f] \in Seq(Pieces)
  BY DEF TypeOK
<1>5. Written(f, k) \in Seq(Pieces)
  BY <1>4, SelectedType DEF Written
<1>6. Written(f, k)' = Selected(out'[f], LinesOf(k))
  BY DEF Written, LinesOf, Pieces, Times
<1>7. CASE f = table[d]
  <2>1. out'[f] = Append(out[f], p)
    BY <1>2, <1>7 DEF TypeOK
  <2>2. Selected(Append(out[f], p), LinesOf(k)) =
            IF p \in LinesOf(k) THEN Append(Selected(out[f], LinesOf(k)), p)
            ELSE Selected(out[f], LinesOf(k))
    BY <1>1, <1>4, SelectedAppend
  <2> QED BY <1>1, <1>3, <1>5, <1>6, <1>7, <2>1, <2>2 DEF Written, p
<1>8. CASE f # table[d]
  <2>1. out'[f] = out[f]
    BY <1>2, <1>8 DEF TypeOK
  <2> QED BY <1>1, <1>5, <1>6, <1>8, <2>1 DEF Written, p
<1> QED BY <1>7, <1>8

(* A step that writes no line and leaves the threads between text and      *)
(* newline the file they write to.                                         *)
LEMMA LinesKept ==
    ASSUME IInv, LInv,
           \A f \in Files, k \in Consoles :
               Selected(out'[f], LinesOf(k)) = Selected(out[f], LinesOf(k)),
           \A u \in Threads :
               pc'[u] = "newline" =>
                   /\ pc[u] = "newline" /\ console'[u] = console[u] /\ emits'[u] = emits[u]
                   /\ fd'[console[u]] = fd[console[u]]
                   /\ table'[fd[console[u]]] = table[fd[console[u]]]
    PROVE  LInv'
<1>1. LineIntegrity'
  <2> SUFFICES ASSUME NEW f \in Files, NEW k \in Consoles,
                      NEW i \in DOMAIN (Written(f, k)'), Written(f, k)'[i].part = "newline"
               PROVE  /\ i > 1 /\ Written(f, k)'[i - 1].part = "text"
                      /\ Written(f, k)'[i - 1].record = Written(f, k)'[i].record
    BY DEF LineIntegrity
  <2>1. Written(f, k)' = Written(f, k)
    BY DEF Written, LinesOf, Pieces, Times
  <2> QED BY <2>1 DEF LInv, LineIntegrity
<1>2. TextWritten'
  <2> DEFINE Good(u) == LET k == console[u]
                            w == Written(table[fd[k]], k)
                        IN  /\ Open(fd[k])
                            /\ w # <<>>
                            /\ Last(w).part = "text" /\ Last(w).record = Record(u)
  <2> SUFFICES ASSUME NEW u \in Threads, pc'[u] = "newline"
               PROVE  Good(u)'
    BY DEF TextWritten
  <2> DEFINE k == console[u]
             f == table[fd[k]]
  <2>1. Good(u)
    BY DEF LInv, TextWritten
  <2>2. /\ console'[u] = console[u] /\ fd'[console'[u]] = fd[console[u]]
        /\ table'[fd[console[u]]] = table[fd[console[u]]]
        /\ Record(u)' = Record(u)
    BY DEF Record
  <2>3. f \in Files /\ k \in Consoles
    BY <2>1 DEF Open, IInv, TypeOK
  <2>4. Written(f, k)' = Selected(out'[f], LinesOf(k))
    BY <2>2 DEF Written, LinesOf, Pieces, Times
  <2>5. Selected(out'[f], LinesOf(k)) = Selected(out[f], LinesOf(k))
    <3> HIDE DEF f, k
    <3> QED BY <2>3
  <2>6. Written(f, k)' = Written(f, k)
    BY <2>4, <2>5 DEF Written
  <2> QED BY <2>1, <2>2, <2>6 DEF Open
<1> QED BY <1>1, <1>2 DEF LInv

(* Two threads that hold mutexes work on two sinks.                        *)
LEMMA OneInside ==
    ASSUME IInv, NEW t \in Threads, NEW u \in Threads, t # u,
           pc[t] \in Inside, pc[u] \in Inside
    PROVE  console[t] # console[u]
BY DEF IInv, Locked

LEMMA InitLInv == Init => LInv
<1> SUFFICES ASSUME Init PROVE LInv
  OBVIOUS
<1>1. TextWritten
  BY DEF Init, TextWritten
<1>2. ASSUME NEW f \in Files, NEW k \in Consoles PROVE Written(f, k) = <<>>
  BY SelectedEmpty DEF Init, Written
<1>3. LineIntegrity
  BY <1>2, EmptySeq DEF LineIntegrity
<1> QED BY <1>1, <1>3 DEF LInv

(* The text is written.                                                    *)
LEMMA EmitWriteLInv ==
    ASSUME IInv, LInv, NEW t \in Threads, EmitWrite(t)
    PROVE  LInv'
<1> DEFINE d == fd[console[t]]
           p == Piece(t, "text")
<1>1. /\ pc[t] = "write" /\ Open(d) /\ WriteTo(d, t, "text")
      /\ pc' = [pc EXCEPT ![t] = "newline"]
      /\ UNCHANGED <<table, mux, fd, formatter, console, emits, stamp, tm, restreams, target>>
  BY DEF EmitWrite, Goto, emitVars, streamVars
<1>2. d \in Streams /\ emits[t] >= 1 /\ TypeOK
  BY <1>1 DEF IInv, TypeOK, Open, Counted
<1>3. table[d] \in Files /\ console[t] \in Consoles
  BY <1>1, <1>2 DEF Open, TypeOK
<1>4. ASSUME NEW f \in Files, NEW k \in Consoles
      PROVE  /\ Written(f, k) \in Seq(Pieces) /\ p \in Pieces
             /\ Written(f, k)' = IF f = table[d] /\ k = console[t]
                                 THEN Append(Written(f, k), p) ELSE Written(f, k)
  BY <1>1, <1>2, WrittenAfter
<1>5. p.part = "text" /\ p.record = Record(t)
  BY DEF Piece
<1> HIDE DEF p
<1>6. LineIntegrity'
  <2> SUFFICES ASSUME NEW f \in Files, NEW k \in Consoles,
                      NEW i \in DOMAIN (Written(f, k)'), Written(f, k)'[i].part = "newline"
               PROVE  /\ i > 1 /\ Written(f, k)'[i - 1].part = "text"
                      /\ Written(f, k)'[i - 1].record = Written(f, k)'[i].record
    BY DEF LineIntegrity
  <2> DEFINE w == Written(f, k)
             n == Len(w)
  <2>1. \A j \in DOMAIN w : w[j].part = "newline" =>
            j > 1 /\ w[j - 1].part = "text" /\ w[j - 1].record = w[j].record
    BY DEF LInv, LineIntegrity
  <2>2. CASE ~(f = table[d] /\ k = console[t])
    BY <1>4, <2>1, <2>2
  <2>3. CASE f = table[d] /\ k = console[t]
    <3>1. Written(f, k)' = Append(w, p)
      BY <1>4, <2>3
    <3>2. /\ w \in Seq(Pieces) /\ n \in Nat /\ DOMAIN w = 1 .. n
          /\ DOMAIN Append(w, p) = 1 .. n + 1
          /\ \A j \in 1 .. n : Append(w, p)[j] = w[j]
          /\ Append(w, p)[n + 1] = p
      BY <1>4, AppendElements, LenProperties
    <3> HIDE DEF w, n
    <3>3. i # n + 1
      BY <1>5, <3>1, <3>2
    <3>4. i \in 1 .. n
      BY <3>1, <3>2, <3>3
    <3>5. i > 1 /\ i - 1 \in 1 .. n
      BY <2>1, <3>1, <3>2, <3>4
    <3> QED BY <2>1, <3>1, <3>2, <3>4, <3>5
  <2> QED BY <2>2, <2>3
<1>7. TextWritten'
  <2> DEFINE Good(u) == LET k == console[u]
                            w == Written(table[fd[k]], k)
                        IN  /\ Open(fd[k])
                            /\ w # <<>>
                            /\ Last(w).part = "text" /\ Last(w).record = Record(u)
  <2> SUFFICES ASSUME NEW u \in Threads, pc'[u] = "newline"
               PROVE  Good(u)'
    BY DEF TextWritten
  <2> DEFINE k == console[u]
             f == table[fd[k]]
             w == Written(f, k)
  <2>1. /\ console'[u] = console[u] /\ fd' = fd /\ table' = table
        /\ Record(u)' = Record(u)
    BY <1>1 DEF Record
  <2>2. CASE u = t
    <3>1. /\ w \in Seq(Pieces) /\ p \in Pieces
          /\ Written(f, k)' = Append(w, p)
      <4>1. \A g \in Files, j \in Consoles :
                /\ Written(g, j) \in Seq(Pieces) /\ p \in Pieces
                /\ g = table[d] /\ j = console[t] =>
                       Written(g, j)' = Append(Written(g, j), p)
        BY <1>4
      <4>2. \A g \in Files, j \in Consoles :
                g = table[d] /\ j = console[t] =>
                    Selected(out'[g], LinesOf(j)) = Append(Selected(out[g], LinesOf(j)), p)
        BY <4>1 DEF Written, LinesOf, Pieces, Times
      <4>3. f = table[d] /\ k = console[t] /\ f \in Files /\ k \in Consoles
        BY <1>3, <2>2
      <4>4. Written(f, k)' = Selected(out'[f], LinesOf(k))
        BY <2>1 DEF Written, LinesOf, Pieces, Times
      <4> HIDE DEF f, k
      <4>5. Selected(out'[f], LinesOf(k)) = Append(Selected(out[f], LinesOf(k)), p)
        BY <4>2, <4>3
      <4> QED BY <4>1, <4>3, <4>4, <4>5 DEF Written
    <3>2. Append(w, p) # <<>> /\ Last(Append(w, p)) = p
      BY <3>1, AppendElements
    <3>3. Open(fd[k])
      BY <1>1, <2>2
    <3> QED BY <1>5, <2>1, <2>2, <3>1, <3>2, <3>3 DEF Open
  <2>3. CASE u # t
    <3>1. pc[u] = "newline"
      BY <1>1, <2>3 DEF IInv, TypeOK
    <3>2. Good(u)
      BY <3>1 DEF LInv, TextWritten
    <3>3. k # console[t] /\ k \in Consoles
      BY <1>1, <2>3, <3>1, OneInside DEF Inside, IInv, TypeOK
    <3>4. f \in Files
      BY <3>2, <3>3 DEF Open, IInv, TypeOK
    <3>5. Written(f, k)' = w
      <4>1. \A g \in Files, j \in Consoles :
                j # console[t] => Written(g, j)' = Written(g, j)
        BY <1>4
      <4> QED BY <2>1, <3>3, <3>4, <4>1 DEF Written, LinesOf, Pieces, Times
    <3> QED BY <2>1, <3>2, <3>5 DEF Open
  <2> QED BY <2>2, <2>3
<1> QED BY <1>6, <1>7 DEF LInv

(* The write failed: the report is no line.                                *)
LEMMA EmitReportLInv ==
    ASSUME IInv, LInv, NEW t \in Threads, EmitReport(t)
    PROVE  LInv'
<1>1. /\ pc[t] = "write" /\ pc' = [pc EXCEPT ![t] = "idle"]
      /\ UNCHANGED <<table, fd, formatter, console, emits, stamp, tm, restreams, target>>
  BY DEF EmitReport, Goto, emitVars, streamVars
<1>2. ASSUME NEW f \in Files, NEW k \in Consoles
      PROVE  Selected(out'[f], LinesOf(k)) = Selected(out[f], LinesOf(k))
  <2>1. CASE UNCHANGED out
    BY <2>1
  <2>2. CASE Open(Stderr) /\ WriteTo(Stderr, t, "report")
    <3>1. emits[t] >= 1 /\ TypeOK /\ Stderr \in Streams
      BY <1>1 DEF IInv, Counted, Streams
    <3>2. Written(f, k)' = Written(f, k)
      BY <2>2, <3>1, WrittenAfter
    <3> QED BY <3>2 DEF Written, LinesOf, Pieces, Times
  <2> QED BY <2>1, <2>2 DEF EmitReport
<1>3. \A u \in Threads : pc'[u] = "newline" => pc[u] = "newline"
  BY <1>1 DEF IInv, TypeOK
<1> QED BY <1>1, <1>2, <1>3, LinesKept

(* The newline is written, or is not.                                      *)
LEMMA EmitNewlineLInv ==
    ASSUME IInv, LInv, NEW t \in Threads, EmitNewline(t)
    PROVE  LInv'
<1> DEFINE d == fd[console[t]]
           p == Piece(t, "newline")
<1>1. /\ pc[t] = "newline" /\ pc' = [pc EXCEPT ![t] = "idle"]
      /\ UNCHANGED <<table, fd, formatter, console, emits, stamp, tm, restreams, target>>
  BY DEF EmitNewline, Goto, emitVars, streamVars
<1>2. \A u \in Threads : pc'[u] = "newline" => u # t /\ pc[u] = "newline"
  BY <1>1 DEF IInv, TypeOK
<1>3. CASE UNCHANGED out
  BY <1>1, <1>2, <1>3, LinesKept
<1>4. CASE WriteTo(d, t, "newline") /\ Open(d)
  <2>1. /\ d \in Streams /\ emits[t] >= 1 /\ TypeOK /\ table[d] \in Files
        /\ console[t] \in Consoles
    BY <1>1, <1>4 DEF IInv, TypeOK, Open, Counted
  <2>2. ASSUME NEW f \in Files, NEW k \in Consoles
        PROVE  /\ Written(f, k) \in Seq(Pieces) /\ p \in Pieces
               /\ Written(f, k)' = IF f = table[d] /\ k = console[t]
                                   THEN Append(Written(f, k), p) ELSE Written(f, k)
    BY <1>4, <2>1, WrittenAfter
  <2>3. p.part = "newline" /\ p.record = Record(t)
    BY DEF Piece
  <2> HIDE DEF p
  <2>4. LineIntegrity'
    <3> SUFFICES ASSUME NEW f \in Files, NEW k \in Consoles,
                        NEW i \in DOMAIN (Written(f, k)'), Written(f, k)'[i].part = "newline"
                 PROVE  /\ i > 1 /\ Written(f, k)'[i - 1].part = "text"
                        /\ Written(f, k)'[i - 1].record = Written(f, k)'[i].record
      BY DEF LineIntegrity
    <3> DEFINE w == Written(f, k)
               n == Len(w)
    <3>1. \A j \in DOMAIN w : w[j].part = "newline" =>
              j > 1 /\ w[j - 1].part = "text" /\ w[j - 1].record = w[j].record
      BY DEF LInv, LineIntegrity
    <3>2. CASE ~(f = table[d] /\ k = console[t])
      BY <2>2, <3>1, <3>2
    <3>3. CASE f = table[d] /\ k = console[t]
      <4>1. Written(f, k)' = Append(w, p)
        BY <2>2, <3>3
      <4>2. /\ w \in Seq(Pieces) /\ n \in Nat /\ DOMAIN w = 1 .. n
            /\ DOMAIN Append(w, p) = 1 .. n + 1
            /\ \A j \in 1 .. n : Append(w, p)[j] = w[j]
            /\ Append(w, p)[n + 1] = p
        BY <2>2, AppendElements, LenProperties
      <4>3. w # <<>> /\ w[n].part = "text" /\ w[n].record = Record(t)
        BY <1>1, <3>3 DEF LInv, TextWritten, Last
      <4>4. n >= 1
        BY <4>2, <4>3, EmptySeq
      <4> HIDE DEF w, n
      <4>5. CASE i = n + 1
        <5>1. i > 1 /\ i - 1 = n /\ n \in 1 .. n
          BY <4>2, <4>4, <4>5
        <5> QED BY <2>3, <4>1, <4>2, <4>3, <4>5, <5>1
      <4>6. CASE i # n + 1
        <5>1. i \in 1 .. n
          BY <4>1, <4>2, <4>6
        <5>2. i > 1 /\ i - 1 \in 1 .. n
          BY <3>1, <4>1, <4>2, <5>1
        <5> QED BY <3>1, <4>1, <4>2, <5>1, <5>2
      <4> QED BY <4>5, <4>6
    <3> QED BY <3>2, <3>3
  <2>5. TextWritten'
    <3> DEFINE Good(u) == LET k == console[u]
                              w == Written(table[fd[k]], k)
                          IN  /\ Open(fd[k])
                              /\ w # <<>>
                              /\ Last(w).part = "text" /\ Last(w).record = Record(u)
    <3> SUFFICES ASSUME NEW u \in Threads, pc'[u] = "newline"
                 PROVE  Good(u)'
      BY DEF TextWritten
    <3> DEFINE k == console[u]
               f == table[fd[k]]
    <3>1. /\ console'[u] = console[u] /\ fd' = fd /\ table' = table
          /\ Record(u)' = Record(u) /\ u # t /\ pc[u] = "newline"
      BY <1>1, <1>2 DEF Record
    <3>2. Good(u)
      BY <3>1 DEF LInv, TextWritten
    <3>3. k # console[t] /\ k \in Consoles
      BY <1>1, <3>1, OneInside DEF Inside, IInv, TypeOK
    <3>4. f \in Files
      BY <3>2, <3>3 DEF Open, IInv, TypeOK
    <3>5. Written(f, k)' = Written(f, k)
      <4>1. \A g \in Files, j \in Consoles :
                j # console[t] => Written(g, j)' = Written(g, j)
        BY <2>2
      <4> QED BY <3>1, <3>3, <3>4, <4>1 DEF Written, LinesOf, Pieces, Times
    <3> QED BY <3>1, <3>2, <3>5 DEF Open
  <2> QED BY <2>4, <2>5 DEF LInv
<1> QED BY <1>3, <1>4 DEF EmitNewline

(* WithStream closes a stream that nobody is writing a line to.            *)
LEMMA StreamCloseLInv ==
    ASSUME Undisturbed, IInv, LInv, NEW t \in Threads, StreamClose(t)
    PROVE  LInv'
<1>1. /\ pc[t] = "streamClose" /\ pc' = [pc EXCEPT ![t] = "streamAdopt"]
      /\ out' = out
  BY DEF StreamClose, Goto
<1>2. \A j, k \in Consoles : j = k
  <2>1. MaxRestreams # 0
    BY <1>1, BoundsAssumption DEF IInv, TypeOK, Counted
  <2> QED BY <2>1 DEF Undisturbed
<1>3. \A u \in Threads : pc'[u] # "newline"
  <2> SUFFICES ASSUME NEW u \in Threads, pc'[u] = "newline" PROVE FALSE
    OBVIOUS
  <2>1. u # t /\ pc[u] = "newline"
    BY <1>1 DEF IInv, TypeOK
  <2>2. console[u] # console[t]
    BY <1>1, <2>1, OneInside DEF Inside
  <2> QED BY <1>2, <2>2 DEF IInv, TypeOK
<1> QED BY <1>1, <1>3, LinesKept

(* The other steps.                                                        *)
LEMMA StreamAdoptLInv ==
    ASSUME IInv, LInv, NEW t \in Threads, StreamAdopt(t)
    PROVE  LInv'
<1>1. /\ pc[t] = "streamAdopt" /\ pc' = [pc EXCEPT ![t] = "idle"]
      /\ fd' = [fd EXCEPT ![console[t]] = target[t]]
      /\ UNCHANGED <<table, console, emits, out>>
  BY DEF StreamAdopt, Goto, emitVars
<1>2. ASSUME NEW u \in Threads, pc'[u] = "newline"
      PROVE  pc[u] = "newline" /\ fd'[console[u]] = fd[console[u]]
  <2>1. u # t /\ pc[u] = "newline"
    BY <1>1, <1>2 DEF IInv, TypeOK
  <2>2. console[u] # console[t]
    BY <1>1, <2>1, OneInside DEF Inside
  <2> QED BY <1>1, <2>1, <2>2 DEF IInv, TypeOK
<1> QED BY <1>1, <1>2, LinesKept

LEMMA QuietLInv ==
    ASSUME IInv, LInv, NEW t \in Threads,
           Call(t) \/ MutexLock(t) \/ FormatReentrant(t) \/ FormatGmtime(t) \/ FormatRead(t)
    PROVE  LInv'
<1>1. /\ UNCHANGED <<out, fd, table>>
      /\ \E x : x # "newline" /\ pc' = [pc EXCEPT ![t] = x]
      /\ \E x : console' = [console EXCEPT ![t] = x]
      /\ \E x : emits' = [emits EXCEPT ![t] = x]
  <2>1. CASE Call(t)
    <3>1. CASE \E k \in Consoles : EmitCall(t, k)
      BY <3>1 DEF EmitCall, Goto, IInv, TypeOK
    <3>2. CASE \E k \in Consoles, s \in Streams : StreamCall(t, k, s)
      <4>1. emits' = [emits EXCEPT ![t] = emits[t]]
        BY <3>2 DEF StreamCall, IInv, TypeOK
      <4> QED BY <3>2, <4>1 DEF StreamCall, Goto
    <3> QED BY <2>1, <3>1, <3>2 DEF Call
  <2>2. ASSUME UNCHANGED <<console, emits>>
        PROVE  /\ \E x : console' = [console EXCEPT ![t] = x]
               /\ \E x : emits' = [emits EXCEPT ![t] = x]
    <3>1. console' = [console EXCEPT ![t] = console[t]] /\ emits' = [emits EXCEPT ![t] = emits[t]]
      BY <2>2 DEF IInv, TypeOK
    <3> QED BY <3>1
  <2>3. CASE MutexLock(t)
    BY <2>2, <2>3 DEF MutexLock, EmitLock, StreamLock, Goto, emitVars
  <2>4. CASE FormatReentrant(t) \/ FormatGmtime(t) \/ FormatRead(t)
    BY <2>2, <2>4 DEF FormatReentrant, FormatGmtime, FormatRead, Goto
  <2> QED BY <2>1, <2>3, <2>4
<1>2. \A u \in Threads : pc'[u] = "newline" =>
          /\ pc[u] = "newline" /\ console'[u] = console[u] /\ emits'[u] = emits[u]
  BY <1>1 DEF IInv, TypeOK
<1> QED BY <1>1, <1>2, LinesKept

LEMMA OthersLInv ==
    ASSUME IInv, LInv,
           \/ \E k \in Consoles, f \in Formatters : WithFormatter(k, f)
           \/ OpenFile
           \/ UNCHANGED vars
    PROVE  LInv'
<1>1. /\ UNCHANGED <<fd, pc, console, emits, out>>
      /\ \A d \in Streams : table[d] # "closed" => table'[d] = table[d]
  BY DEF WithFormatter, OpenFile, vars, emitVars, IInv, TypeOK
<1>2. ASSUME NEW u \in Threads, pc[u] = "newline"
      PROVE  table'[fd[console[u]]] = table[fd[console[u]]]
  <2>1. Open(fd[console[u]])
    BY <1>2 DEF LInv, TextWritten
  <2> QED BY <1>1, <2>1 DEF Open, IInv, TypeOK
<1> QED BY <1>1, <1>2, LinesKept

LEMMA NextLInv == ASSUME Undisturbed PROVE IInv /\ LInv /\ [Next]_vars => LInv'
<1> SUFFICES ASSUME IInv, LInv, [Next]_vars PROVE LInv'
  OBVIOUS
<1>1. ASSUME NEW t \in Threads, Step(t) PROVE LInv'
  BY <1>1, QuietLInv, EmitWriteLInv, EmitReportLInv, EmitNewlineLInv, StreamCloseLInv,
     StreamAdoptLInv DEF Step
<1>2. ASSUME NEW t \in Threads, Call(t) \/ MutexLock(t) PROVE LInv'
  BY <1>2, QuietLInv
<1>3. CASE \/ \E k \in Consoles, f \in Formatters : WithFormatter(k, f)
           \/ OpenFile
           \/ UNCHANGED vars
  BY <1>3, OthersLInv
<1> QED BY <1>1, <1>2, <1>3 DEF Next, Quiet

(* Emit writes a text and a newline inside the sink's mutex: in what one   *)
(* sink wrote to a file the newline of a record comes right after its      *)
(* text, for any number of threads, failures and changes of stream. Either *)
(* the sink is the only one, or no sink closes a stream under another.     *)
THEOREM WholeLines == ASSUME Undisturbed PROVE Spec => []LineIntegrity
<1>1. LInv => LineIntegrity
  BY DEF LInv
<1>2. IInv /\ LInv /\ [Next]_vars => LInv'
  BY NextLInv
<1> QED BY <1>1, <1>2, InitLInv, Invariance, PTL DEF Spec

-----------------------------------------------------------------------------
(* The time in a line                                                      *)

\* A text that is formatted has the time of its record.
Stamped ==
    /\ OwnTime
    /\ \A t \in Threads : /\ pc[t] # "read"
                          /\ pc[t] \in {"lock", "write"} => stamp[t] = Record(t)

(* What is written keeps it.                                               *)
LEMMA StampedWrite ==
    ASSUME IInv, OwnTime, NEW t \in Threads, NEW d \in Streams, Open(d),
           NEW part \in {"text", "newline", "report"}, WriteTo(d, t, part),
           emits[t] >= 1, part = "text" => stamp[t] = Record(t)
    PROVE  OwnTime'
<1> DEFINE p == Piece(t, part)
<1>1. p \in Pieces /\ (p.part = "text" => p.stamp = p.record)
  BY RecordType DEF Piece, Pieces, IInv, TypeOK
<1>2. out' = [out EXCEPT ![table[d]] = Append(out[table[d]], p)]
  BY DEF WriteTo, Piece
<1> HIDE DEF p
<1> SUFFICES ASSUME NEW f \in Files, NEW i \in DOMAIN out'[f], out'[f][i].part = "text"
             PROVE  out'[f][i].stamp = out'[f][i].record
  BY DEF OwnTime
<1>3. CASE f # table[d]
  <2>1. out'[f] = out[f]
    BY <1>2, <1>3 DEF IInv, TypeOK
  <2> QED BY <2>1 DEF OwnTime
<1>4. CASE f = table[d]
  <2> DEFINE n == Len(out[f])
  <2>1. out'[f] = Append(out[f], p)
    BY <1>2, <1>4 DEF IInv, TypeOK
  <2>2. /\ n \in Nat /\ DOMAIN out[f] = 1 .. n
        /\ DOMAIN Append(out[f], p) = 1 .. n + 1
        /\ \A j \in 1 .. n : Append(out[f], p)[j] = out[f][j]
        /\ Append(out[f], p)[n + 1] = p
    BY <1>1, AppendElements, LenProperties DEF IInv, TypeOK
  <2> HIDE DEF n
  <2>3. i \in 1 .. n \/ i = n + 1
    BY <2>1, <2>2
  <2> QED BY <1>1, <2>1, <2>2, <2>3 DEF OwnTime
<1> QED BY <1>3, <1>4

LEMMA NextStamped ==
    ASSUME "gmtime" \notin Formatters, IInv, Stamped, [Next]_vars
    PROVE  Stamped'
<1>1. ASSUME NEW t \in Threads, Call(t) \/ MutexLock(t) PROVE Stamped'
  <2>1. OwnTime'
    <3>1. out' = out
      BY <1>1 DEF Call, EmitCall, StreamCall, MutexLock, EmitLock, StreamLock
    <3> QED BY <3>1 DEF Stamped, OwnTime
  <2>2. CASE MutexLock(t)
    <3>1. /\ pc[t] \in {"lock", "streamLock"} /\ UNCHANGED <<emits, stamp>>
          /\ \/ pc[t] = "lock" /\ pc' = [pc EXCEPT ![t] = "write"]
             \/ \E x \in {"idle", "streamClose"} : pc' = [pc EXCEPT ![t] = x]
      BY <2>2 DEF MutexLock, EmitLock, StreamLock, Goto, emitVars
    <3> QED BY <2>1, <3>1 DEF Stamped, Record, IInv, TypeOK
  <2>3. CASE Call(t)
    <3>1. /\ pc[t] = "idle" /\ stamp' = stamp
          /\ \E x \in {"idle", "format", "streamLock"} : pc' = [pc EXCEPT ![t] = x]
          /\ emits' = emits \/ \E x : emits' = [emits EXCEPT ![t] = x]
      BY <2>3 DEF Call, EmitCall, StreamCall, Goto
    <3> QED BY <2>1, <3>1 DEF Stamped, Record, IInv, TypeOK
  <2> QED BY <1>1, <2>2, <2>3
<1>2. ASSUME NEW t \in Threads, FormatReentrant(t) \/ FormatGmtime(t) \/ FormatRead(t)
      PROVE  Stamped'
  <2>1. FormatReentrant(t)
    <3>1. ~FormatRead(t)
      BY DEF FormatRead, Stamped
    <3>2. ~FormatGmtime(t)
      BY DEF FormatGmtime, IInv, TypeOK
    <3> QED BY <1>2, <3>1, <3>2
  <2>2. /\ pc' = [pc EXCEPT ![t] = "lock"] /\ stamp' = [stamp EXCEPT ![t] = Record(t)]
        /\ UNCHANGED <<emits, out>>
    BY <2>1 DEF FormatReentrant, Goto
  <2> QED BY <2>2 DEF Stamped, OwnTime, Record, IInv, TypeOK
<1>3. ASSUME NEW t \in Threads, EmitWrite(t) \/ EmitReport(t) \/ EmitNewline(t)
      PROVE  Stamped'
  <2>1. /\ pc[t] \in {"write", "newline"} /\ UNCHANGED <<emits, stamp>>
        /\ \E x \in {"newline", "idle"} : pc' = [pc EXCEPT ![t] = x]
    BY <1>3 DEF EmitWrite, EmitReport, EmitNewline, Goto, emitVars
  <2>2. \A u \in Threads : /\ pc'[u] # "read"
                           /\ pc'[u] \in {"lock", "write"} => stamp'[u] = Record(u)'
    BY <2>1 DEF Stamped, Record, IInv, TypeOK
  <2>3. /\ OwnTime /\ emits[t] >= 1 /\ Stderr \in Streams
        /\ Open(fd[console[t]]) => fd[console[t]] \in Streams
        /\ pc[t] = "write" => stamp[t] = Record(t)
    BY <2>1 DEF Stamped, IInv, Counted, Streams, Open, TypeOK
  <2>4. OwnTime'
    <3>1. CASE UNCHANGED out
      BY <2>3, <3>1 DEF OwnTime
    <3>2. CASE EmitWrite(t)
      BY <2>3, <3>2, StampedWrite DEF EmitWrite
    <3>3. CASE EmitReport(t)
      BY <2>3, <3>1, <3>3, StampedWrite DEF EmitReport
    <3>4. CASE EmitNewline(t)
      BY <2>3, <3>1, <3>4, StampedWrite DEF EmitNewline
    <3> QED BY <1>3, <3>2, <3>3, <3>4
  <2> QED BY <2>2, <2>4 DEF Stamped
<1>4. ASSUME NEW t \in Threads, StreamClose(t) \/ StreamAdopt(t) PROVE Stamped'
  <2>1. /\ \E x \in {"streamAdopt", "idle"} : pc' = [pc EXCEPT ![t] = x]
        /\ UNCHANGED <<emits, stamp, out>>
    BY <1>4 DEF StreamClose, StreamAdopt, Goto, emitVars
  <2> QED BY <2>1 DEF Stamped, OwnTime, Record, IInv, TypeOK
<1>5. CASE \/ \E k \in Consoles, f \in Formatters : WithFormatter(k, f)
           \/ OpenFile
           \/ UNCHANGED vars
  <2>1. UNCHANGED <<pc, emits, stamp, out>>
    BY <1>5 DEF WithFormatter, OpenFile, vars, emitVars
  <2> QED BY <2>1 DEF Stamped, OwnTime, Record
<1> QED BY <1>1, <1>2, <1>3, <1>4, <1>5 DEF Next, Step, Quiet

(* Formatted without gmtime, a line has the time of its own record, however*)
(* the threads interleave: gmtime is what OwnTime breaks on.               *)
THEOREM ReentrantTime == ASSUME "gmtime" \notin Formatters PROVE Spec => []OwnTime
<1>1. Init => Stamped
  BY DEF Init, Stamped, OwnTime
<1>2. IInv /\ Stamped /\ [Next]_vars => Stamped'
  BY NextStamped
<1>3. Stamped => OwnTime
  BY DEF Stamped
<1> QED BY <1>1, <1>2, <1>3, Invariance, PTL DEF Spec
=============================================================================
