-------------------------- MODULE BatcherRefinement --------------------------
(***************************************************************************)
(* Batcher implements the safety part of AsyncChannel, whatever order the  *)
(* condition variable wakes its waiters in.                                *)
(***************************************************************************)
EXTENDS BatcherProofs

InFlush(c) == pc[c] \in {"flushLock", "flushCheck", "waiting"}

\* The refinement mapping of AsyncChannel's flushing.
FlushMap == [c \in Clients |-> Flushing(c)]

\* The four variables of the channel, as the batcher shows them.
Shown == <<accepted, consumed, FlushMap, pc[Owner] # "destroyed">>

(* A step in which nobody enters or leaves Flush does not show in the map. *)
LEMMA FlushMapKept ==
    ASSUME snap' = snap, \A c \in Clients : InFlush(c) <=> InFlush(c)'
    PROVE  FlushMap' = FlushMap
<1>1. ASSUME NEW c \in Clients PROVE Flushing(c)' = Flushing(c)
  BY <1>1 DEF Flushing, InFlush
<1> QED BY <1>1 DEF FlushMap

(* Waking threads keeps every flushing client inside its flush.            *)
LEMMA WakingIsInvisible ==
    ASSUME ThreadsAssumption, TypeInv, NEW t \in Threads, OthersWake(t),
           t \in Clients => ~InFlush(t) /\ pc'[t] = "idle",
           t = Owner => pc[t] # "destroyed" /\ pc'[t] # "destroyed",
           snap' = snap, accepted' = accepted, consumed' = consumed
    PROVE  UNCHANGED Shown
<1>1. \A c \in Clients : InFlush(c) <=> InFlush(c)'
  BY DEF OthersWake, InFlush, Resume, Threads, ThreadsAssumption
<1>2. FlushMap' = FlushMap
  BY <1>1, FlushMapKept
<1>3. (pc'[Owner] # "destroyed") = (pc[Owner] # "destroyed")
  <2>1. pc[Owner] # "waiting"
    BY DEF TypeInv, TypeOK, OwnerPc
  <2> QED BY <2>1 DEF OthersWake, Threads
<1> QED BY <1>2, <1>3 DEF Shown

(* The next item the consumer finishes is the oldest one not yet delivered. *)
LEMMA HeadIsNext ==
    ASSUME IInv, batch # <<>>
    PROVE  /\ Len(consumed) < Len(accepted)
           /\ Head(batch) = accepted[Len(consumed) + 1]
<1>1. /\ consumed \in Seq(Items) /\ batch \in Seq(Items) /\ queue \in Seq(Items)
      /\ accepted = consumed \o batch \o queue
  BY DEF IInv, TypeOK, Delivery
<1>2. Len(batch) \in Nat \ {0} /\ Len(consumed) \in Nat /\ Len(queue) \in Nat
  BY <1>1, EmptySeq, LenProperties
<1>3. /\ Len(consumed \o batch \o queue) = Len(consumed) + Len(batch) + Len(queue)
      /\ (consumed \o batch \o queue)[Len(consumed) + 1] = batch[1]
  BY <1>1, <1>2
<1>4. Head(batch) = batch[1]
  BY <1>1
<1>5. /\ Len(accepted) = Len(consumed) + Len(batch) + Len(queue)
      /\ accepted[Len(consumed) + 1] = batch[1]
  BY <1>1, <1>3, Zenon
<1> QED BY <1>2, <1>4, <1>5

(* The mapped initial state is one of the channel.                         *)
LEMMA ShownInit == ThreadsAssumption /\ Init => AC!Init
<1> SUFFICES ASSUME ThreadsAssumption, Init PROVE AC!Init
  OBVIOUS
<1>1. \A c \in Clients : Flushing(c) = NoFlush
  BY DEF Init, Flushing, Threads, ThreadsAssumption
<1>2. [c \in Clients |-> Flushing(c)] = [c \in Clients |-> NoFlush]
  BY <1>1
<1>3. (pc[Owner] # "destroyed") = TRUE
  BY DEF Init, Threads, ThreadsAssumption
<1> QED BY <1>2, <1>3 DEF Init, AC!Init

(* Every step of the batcher is a step of the channel or does not show.    *)
LEMMA StepSimulation ==
    ASSUME ThreadsAssumption, SizesAssumption, NoFlushAssumption, IInv, IInv', [Next]_vars
    PROVE  AC!Next \/ UNCHANGED Shown
<1> USE DEF ThreadsAssumption, Threads
<1>0. /\ pc \in [Threads -> ClientPc \cup WorkerPc \cup OwnerPc] /\ TypeInv /\ Sleepers
      /\ snap \in [Clients -> Nat]
  BY DEF IInv, TypeInv, TypeOK
<1>1. ASSUME NEW c \in Clients, PushCall(c) \/ PushLock(c) \/ FlushLock(c) \/ FlushWait(c)
      PROVE  UNCHANGED Shown
  <2>1. /\ \A d \in Clients : InFlush(d) <=> InFlush(d)'
        /\ pc'[Owner] = pc[Owner] /\ snap' = snap /\ accepted' = accepted /\ consumed' = consumed
    BY <1>0, <1>1 DEF PushCall, PushLock, FlushLock, FlushWait, Lock, Wait, Goto, InFlush
  <2> QED BY <2>1, FlushMapKept DEF Shown
<1>2. ASSUME NEW c \in Clients, PushEnqueue(c) PROVE AC!Accept
  <2>1. /\ \A d \in Clients : InFlush(d) <=> InFlush(d)'
        /\ pc'[Owner] = pc[Owner] /\ snap' = snap /\ consumed' = consumed
        /\ accepted' = Append(accepted, <<c, pushed[c]>>)
    BY <1>0, <1>2 DEF PushEnqueue, Goto, InFlush
  <2>2. <<c, pushed[c]>> \in Items
    BY <1>2 DEF PushEnqueue, IInv, TypeOK, PushInHand, Items, SizesAssumption
  <2>3. pc[Owner] = "alive"
    BY <1>2 DEF PushEnqueue, IInv, Shutdown
  <2>4. FlushMap' = FlushMap
    BY <2>1, FlushMapKept
  <2> QED BY <2>1, <2>2, <2>3, <2>4 DEF AC!Accept, FlushMap
<1>3. ASSUME NEW c \in Clients, PushSignal(c) PROVE UNCHANGED Shown
  <2>1. OthersWake(c) /\ pc[c] = "signal" /\ pc'[c] = "idle"
    BY <1>0, <1>3, SignalEffect DEF PushSignal
  <2>2. ~InFlush(c) /\ c \in Threads /\ c # Owner
    BY <2>1 DEF InFlush
  <2>3. snap' = snap /\ accepted' = accepted /\ consumed' = consumed
    BY <1>3 DEF PushSignal
  <2> QED BY <1>0, <2>1, <2>2, <2>3, WakingIsInvisible
<1>4. ASSUME NEW c \in Clients, FlushCall(c) PROVE AC!FlushCall(c)
  <2>1. /\ pc[Owner] = "alive" /\ pc[c] = "idle" /\ pc'[c] = "flushLock"
        /\ \A d \in Clients \ {c} : pc'[d] = pc[d] /\ snap'[d] = snap[d]
        /\ snap'[c] = Len(accepted) /\ pc'[Owner] = pc[Owner]
        /\ accepted' = accepted /\ consumed' = consumed
    BY <1>0, <1>4 DEF FlushCall, Goto
  <2>2. /\ Flushing(c) = NoFlush /\ Flushing(c)' = Len(accepted)
        /\ \A d \in Clients \ {c} : Flushing(d)' = Flushing(d)
    BY <2>1 DEF Flushing
  <2>3. FlushMap' = [FlushMap EXCEPT ![c] = Len(accepted)] /\ FlushMap[c] = NoFlush
    BY <2>2 DEF FlushMap
  <2> QED BY <2>1, <2>3 DEF AC!FlushCall, FlushMap
<1>5. ASSUME NEW c \in Clients, FlushReturn(c) PROVE AC!FlushReturn(c)
  <2>1. /\ pc[c] = "flushCheck" /\ pc'[c] = "idle" /\ ~Busy
        /\ \A d \in Clients \ {c} : pc'[d] = pc[d]
        /\ pc'[Owner] = pc[Owner] /\ snap' = snap
        /\ accepted' = accepted /\ consumed' = consumed
    BY <1>0, <1>5 DEF FlushReturn, Goto
  <2>2. /\ Flushing(c) = snap[c] /\ Flushing(c)' = NoFlush
        /\ \A d \in Clients \ {c} : Flushing(d)' = Flushing(d)
    BY <2>1 DEF Flushing
  <2>3. FlushMap' = [FlushMap EXCEPT ![c] = NoFlush] /\ FlushMap[c] = snap[c]
    BY <2>2 DEF FlushMap
  <2>4. snap[c] <= Len(consumed)
    BY <2>1, IdleIsDelivered DEF IInv, SnapBound
  <2>5. snap[c] # NoFlush
    BY <1>0 DEF NoFlushAssumption
  <2> QED BY <2>1, <2>3, <2>4, <2>5 DEF AC!FlushReturn, FlushMap
<1>6. ASSUME WorkerLock \/ WorkerRelock \/ WorkerWait \/ WorkerDrain \/ WorkerExit
             \/ DestroyCall \/ DestroyLock \/ DestroyStop
      PROVE  UNCHANGED Shown
  <2>1. /\ \A d \in Clients : InFlush(d) <=> InFlush(d)'
        /\ (pc[Owner] # "destroyed") = (pc'[Owner] # "destroyed")
        /\ snap' = snap /\ accepted' = accepted /\ consumed' = consumed
    BY <1>0, <1>6 DEF WorkerLock, WorkerRelock, WorkerWait, WorkerDrain, WorkerExit,
         DestroyCall, DestroyLock, DestroyStop, Lock, Wait, Goto, InFlush
  <2> QED BY <2>1, FlushMapKept DEF Shown
<1>7. ASSUME WorkerConsume PROVE AC!Deliver
  <2>1. /\ \A d \in Clients : InFlush(d) <=> InFlush(d)'
        /\ pc'[Owner] = pc[Owner] /\ snap' = snap /\ accepted' = accepted
        /\ batch # <<>> /\ consumed' = Append(consumed, Head(batch))
    BY <1>0, <1>7 DEF WorkerConsume, Goto, InFlush
  <2>2. Len(consumed) < Len(accepted) /\ Head(batch) = accepted[Len(consumed) + 1]
    BY <2>1, HeadIsNext
  <2>3. FlushMap' = FlushMap
    BY <2>1, FlushMapKept
  <2> QED BY <2>1, <2>2, <2>3 DEF AC!Deliver, FlushMap
<1>8. ASSUME WorkerFinish PROVE UNCHANGED Shown
  <2>1. pc[Worker] # "waiting" /\ Worker \in Threads /\ SignalAll(Worker, "check")
        /\ "check" # "waiting"
    BY <1>8 DEF WorkerFinish
  <2>2. OthersWake(Worker)
    BY <1>0, <2>1, SignalAllEffect
  <2>3. snap' = snap /\ accepted' = accepted /\ consumed' = consumed
    BY <1>8 DEF WorkerFinish
  <2> QED BY <1>0, <2>2, <2>3, WakingIsInvisible
<1>9. ASSUME DestroySignal PROVE UNCHANGED Shown
  <2>1. pc[Owner] = "signalAll" /\ Owner \in Threads /\ SignalAll(Owner, "join")
        /\ "join" # "waiting"
    BY <1>9 DEF DestroySignal
  <2>2. OthersWake(Owner) /\ pc'[Owner] = "join"
    BY <1>0, <2>1, SignalAllEffect
  <2>3. snap' = snap /\ accepted' = accepted /\ consumed' = consumed
    BY <1>9 DEF DestroySignal
  <2> QED BY <1>0, <2>1, <2>2, <2>3, WakingIsInvisible
<1>10. ASSUME DestroyJoin PROVE AC!Close
  <2>1. /\ pc[Owner] = "join" /\ pc'[Owner] = "destroyed" /\ pc[Worker] = "exited"
        /\ \A d \in Clients : pc'[d] = pc[d]
        /\ snap' = snap /\ accepted' = accepted /\ consumed' = consumed
    BY <1>0, <1>10 DEF DestroyJoin, Goto
  <2>2. ~Busy
    BY <2>1 DEF IInv, Shutdown, Processing, Busy
  <2>3. consumed = accepted
    BY <2>2, IdleIsDelivered
  <2>4. \A d \in Clients : pc[d] = "idle"
    BY <2>1 DEF IInv, Shutdown
  <2>5. \A d \in Clients : FlushMap[d] = NoFlush
    BY <2>4 DEF FlushMap, Flushing
  <2>6. \A d \in Clients : InFlush(d) <=> InFlush(d)'
    BY <2>1 DEF InFlush
  <2>7. FlushMap' = FlushMap
    BY <2>1, <2>6, FlushMapKept
  <2> QED BY <2>1, <2>3, <2>5, <2>7 DEF AC!Close, FlushMap
<1>11. ASSUME SpuriousWakeup PROVE UNCHANGED Shown
  <2>1. /\ \A u \in Threads : pc'[u] = pc[u] \/ (pc[u] = "waiting" /\ pc'[u] = Resume(u))
        /\ snap' = snap /\ accepted' = accepted /\ consumed' = consumed
    BY <1>0, <1>11, SpuriousEffect DEF SpuriousWakeup
  <2>2. OthersWake(Worker)
    BY <2>1 DEF OthersWake
  <2> QED BY <1>0, <2>1, <2>2, WakingIsInvisible
<1>12. ASSUME UNCHANGED vars PROVE UNCHANGED Shown
  BY <1>12 DEF vars, Shown, FlushMap, Flushing
<1> QED
  BY <1>1, <1>2, <1>3, <1>4, <1>5, <1>6, <1>7, <1>8, <1>9, <1>10, <1>11, <1>12
  DEF Next, ClientCall, ClientLock, ClientStep, WorkerStep, OwnerStep, Terminated, AC!Next

(* AsyncSink.h: the batcher keeps the safety half of the sink's promise,   *)
(* for any number of clients and items and any order of wakeups.           *)
THEOREM Refinement == Spec => ImplementsChannelSafely
<1>1. Init => AC!Init
  BY ShownInit, ThreadsAssumption
<1>2. IInv /\ IInv' /\ [Next]_vars => [AC!Next]_(AC!vars)
  <2> SUFFICES ASSUME IInv, IInv', [Next]_vars PROVE AC!Next \/ UNCHANGED AC!vars
    OBVIOUS
  <2>1. Shown = AC!vars /\ Shown' = AC!vars'
    BY DEF Shown, FlushMap, AC!vars
  <2>2. AC!Next \/ UNCHANGED Shown
    BY StepSimulation, ThreadsAssumption, SizesAssumption, NoFlushAssumption
  <2> QED BY <2>1, <2>2
<1> QED BY <1>1, <1>2, Invariance, PTL DEF Spec, ImplementsChannelSafely, AC!Safety
=============================================================================
