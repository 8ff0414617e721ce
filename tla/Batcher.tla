------------------------------- MODULE Batcher -------------------------------
(***************************************************************************)
(* logrin::detail::Batcher: one background worker drains a mutex-protected *)
(* queue and hands batches of it to a consumer. Client threads call Push   *)
(* (AsyncSink::Enqueue) and Flush; the owner's destructor stops and joins  *)
(* the worker. One condition variable serves both the worker, which waits  *)
(* for something to do, and the flushing clients, which wait for the queue *)
(* to be empty.                                                            *)
(*                                                                         *)
(* A step is what a thread does between two points at which another thread *)
(* may see the difference: acquiring the mutex, the body of the critical   *)
(* section with its release, a signal, the consumer's work on one item.    *)
(* pc[t] names the next step of thread t.                                  *)
(***************************************************************************)
EXTENDS Naturals, Sequences, SequencesExt

CONSTANTS Clients,       \* threads that call Push and Flush
          Worker,        \* n_worker
          Owner,         \* the thread that runs the destructor
          NoThread,      \* n_mux's holder when it is free
          MaxBatchSize,  \* Options::MaxBatchSize, 0 = drain everything
          MaxPushes,     \* bound: pushes per client
          FifoWake,      \* Condvar::Signal wakes the longest waiter (else: any)
          NoFlush        \* AsyncChannel's value for a client outside Flush

ASSUME ThreadsAssumption ==
    /\ Worker \notin Clients /\ Owner \notin Clients /\ Worker # Owner
    /\ NoThread \notin Clients \cup {Worker, Owner}
ASSUME SizesAssumption == MaxBatchSize \in Nat /\ MaxPushes \in Nat
ASSUME PolicyAssumption == FifoWake \in BOOLEAN
ASSUME NoFlushAssumption == NoFlush \notin Nat

Threads == Clients \cup {Worker, Owner}

\* The n-th item a client pushes.
Items == Clients \X (1 .. MaxPushes)

VARIABLES pc,         \* what each thread does next
          mux,        \* n_mux: the thread that holds it
          cv,         \* n_cv: the threads waiting on it, the longest first
          queue,      \* n_queue
          running,    \* n_running
          processing, \* n_processing
          batch,      \* the worker's batch: what the consumer has still to do
          pushed,     \* how many pushes each client has called
          accepted,   \* history: the items in the order they entered n_queue
          consumed,   \* history: the items the consumer finished
          snap        \* history: Len(accepted) when a client called Flush

vars == <<pc, mux, cv, queue, running, processing, batch, pushed, accepted,
          consumed, snap>>

ClientPc == {"idle", "pushLock", "push", "signal",
             "flushLock", "flushCheck", "waiting"}
WorkerPc == {"lock", "check", "waiting", "consume", "relock", "finish", "exited"}
OwnerPc  == {"alive", "lock", "stop", "signalAll", "join", "destroyed"}

Init ==
    /\ pc = [t \in Threads |-> IF t = Worker THEN "lock"
                               ELSE IF t = Owner THEN "alive" ELSE "idle"]
    /\ mux = NoThread
    /\ cv = <<>>
    /\ queue = <<>>
    /\ running = TRUE
    /\ processing = FALSE
    /\ batch = <<>>
    /\ pushed = [c \in Clients |-> 0]
    /\ accepted = <<>>
    /\ consumed = <<>>
    /\ snap = [c \in Clients |-> 0]

-----------------------------------------------------------------------------
(* violet::experimental::Mutex and Condvar                                 *)

Goto(t, next) == pc' = [pc EXCEPT ![t] = next]

\* Mutex::Lock: blocks until the mutex is free.
Lock(t, from, next) ==
    /\ pc[t] = from
    /\ mux = NoThread
    /\ mux' = t
    /\ Goto(t, next)

\* Where a thread that leaves Condvar::Wait reacquires the mutex.
Resume(t) == IF t = Worker THEN "lock" ELSE "flushLock"

\* Condvar::Wait: release the mutex and start waiting, in one step.
Wait(t) ==
    /\ cv' = Append(cv, t)
    /\ mux' = NoThread
    /\ Goto(t, "waiting")

\* The positions of the waiters that Condvar::Signal may choose.
Wakeable == IF FifoWake THEN {1} \cap DOMAIN cv ELSE DOMAIN cv

\* Condvar::Signal, called by t: one waiter leaves, if there is any.
Signal(t, next) ==
    \/ /\ cv = <<>>
       /\ Goto(t, next)
       /\ UNCHANGED cv
    \/ \E i \in Wakeable :
          /\ pc' = [pc EXCEPT ![t] = next, ![cv[i]] = Resume(cv[i])]
          /\ cv' = RemoveAt(cv, i)

\* Condvar::SignalAll, called by t: every waiter leaves.
SignalAll(t, next) ==
    /\ pc' = [u \in Threads |-> IF u = t THEN next
                                ELSE IF u \in ToSet(cv) THEN Resume(u)
                                ELSE pc[u]]
    /\ cv' = <<>>

\* A waiter may leave Condvar::Wait although nobody signalled it.
SpuriousWakeup ==
    /\ \E i \in DOMAIN cv :
          /\ Goto(cv[i], Resume(cv[i]))
          /\ cv' = RemoveAt(cv, i)
    /\ UNCHANGED <<mux, queue, running, processing, batch, pushed, accepted,
                   consumed, snap>>

-----------------------------------------------------------------------------
(* Push                                                                    *)

\* Nothing may be called on the object once its destructor has begun.
PushCall(c) ==
    /\ pc[Owner] = "alive"
    /\ pc[c] = "idle"
    /\ pushed[c] < MaxPushes
    /\ pushed' = [pushed EXCEPT ![c] = @ + 1]
    /\ Goto(c, "pushLock")
    /\ UNCHANGED <<mux, cv, queue, running, processing, batch, accepted,
                   consumed, snap>>

\* Mutant: Push touches the queue without the mutex.
PushUnlocked(c) ==
    /\ pc[c] = "pushLock"
    /\ Goto(c, "push")
    /\ UNCHANGED <<mux, cv, queue, running, processing, batch, pushed, accepted,
                   consumed, snap>>

PushLock(c) ==
    /\ Lock(c, "pushLock", "push")
    /\ UNCHANGED <<cv, queue, running, processing, batch, pushed, accepted,
                   consumed, snap>>

\* The item enters the queue; the scope that holds the mutex ends.
PushEnqueue(c) ==
    /\ pc[c] = "push"
    /\ queue' = Append(queue, <<c, pushed[c]>>)
    /\ accepted' = Append(accepted, <<c, pushed[c]>>)
    /\ mux' = NoThread
    /\ Goto(c, "signal")
    /\ UNCHANGED <<cv, running, processing, batch, pushed, consumed, snap>>

\* Mutant: Push does not signal.
PushUnsignalled(c) ==
    /\ pc[c] = "signal"
    /\ Goto(c, "idle")
    /\ UNCHANGED <<mux, cv, queue, running, processing, batch, pushed, accepted,
                   consumed, snap>>

\* n_cv.Signal(), outside the mutex.
PushSignal(c) ==
    /\ pc[c] = "signal"
    /\ Signal(c, "idle")
    /\ UNCHANGED <<mux, queue, running, processing, batch, pushed, accepted,
                   consumed, snap>>

-----------------------------------------------------------------------------
(* Flush                                                                   *)

\* Mutant: Flush does not look at the batch being consumed.
BusyQueueOnly == queue # <<>>

\* What Flush waits to become false.
Busy == queue # <<>> \/ processing

FlushCall(c) ==
    /\ pc[Owner] = "alive"
    /\ pc[c] = "idle"
    /\ snap' = [snap EXCEPT ![c] = Len(accepted)]
    /\ Goto(c, "flushLock")
    /\ UNCHANGED <<mux, cv, queue, running, processing, batch, pushed,
                   accepted, consumed>>

FlushLock(c) ==
    /\ Lock(c, "flushLock", "flushCheck")
    /\ UNCHANGED <<cv, queue, running, processing, batch, pushed, accepted,
                   consumed, snap>>

FlushWait(c) ==
    /\ pc[c] = "flushCheck"
    /\ Busy
    /\ Wait(c)
    /\ UNCHANGED <<queue, running, processing, batch, pushed, accepted,
                   consumed, snap>>

FlushReturn(c) ==
    /\ pc[c] = "flushCheck"
    /\ ~Busy
    /\ mux' = NoThread
    /\ Goto(c, "idle")
    /\ UNCHANGED <<cv, queue, running, processing, batch, pushed, accepted,
                   consumed, snap>>

-----------------------------------------------------------------------------
(* workerLoop                                                              *)

WorkerLock ==
    /\ Lock(Worker, "lock", "check")
    /\ UNCHANGED <<cv, queue, running, processing, batch, pushed, accepted,
                   consumed, snap>>

WorkerWait ==
    /\ pc[Worker] = "check"
    /\ queue = <<>> /\ running
    /\ Wait(Worker)
    /\ UNCHANGED <<queue, running, processing, batch, pushed, accepted,
                   consumed, snap>>

\* Mutant: `<=` for `<` in the drain loop.
DrainCountOffByOne ==
    IF MaxBatchSize = 0 \/ Len(queue) <= MaxBatchSize THEN Len(queue)
    ELSE MaxBatchSize + 1

\* How many items the drain loop takes: all, or MaxBatchSize at most.
DrainCount ==
    IF MaxBatchSize = 0 \/ Len(queue) <= MaxBatchSize THEN Len(queue)
    ELSE MaxBatchSize

\* Mutant: the queue is swapped out whole although the batch is limited.
WorkerDrainClears ==
    /\ pc[Worker] = "check"
    /\ queue # <<>>
    /\ batch' = SubSeq(queue, 1, DrainCount)
    /\ queue' = <<>>
    /\ processing' = TRUE
    /\ mux' = NoThread
    /\ Goto(Worker, "consume")
    /\ UNCHANGED <<cv, running, pushed, accepted, consumed, snap>>

\* Mutant: the drain loop does not stop when the queue is empty.
WorkerDrainTooFar ==
    /\ pc[Worker] = "check"
    /\ queue # <<>>
    /\ batch' = [i \in 1 .. MaxBatchSize |->
                   IF i \in DOMAIN queue THEN queue[i] ELSE <<Worker, 0>>]
    /\ queue' = SubSeq(queue, MaxBatchSize + 1, Len(queue))
    /\ processing' = TRUE
    /\ mux' = NoThread
    /\ Goto(Worker, "consume")
    /\ UNCHANGED <<cv, running, pushed, accepted, consumed, snap>>

\* The worker takes a batch off the front of the queue and hands it over.
WorkerDrain ==
    /\ pc[Worker] = "check"
    /\ queue # <<>>
    /\ batch' = SubSeq(queue, 1, DrainCount)
    /\ queue' = SubSeq(queue, DrainCount + 1, Len(queue))
    /\ processing' = TRUE
    /\ mux' = NoThread
    /\ Goto(Worker, "consume")
    /\ UNCHANGED <<cv, running, pushed, accepted, consumed, snap>>

\* The consumer finishes the next item of its batch, the mutex not held.
WorkerConsume ==
    /\ pc[Worker] = "consume"
    /\ batch # <<>>
    /\ consumed' = Append(consumed, Head(batch))
    /\ batch' = Tail(batch)
    /\ Goto(Worker, IF Len(batch) = 1 THEN "relock" ELSE "consume")
    /\ UNCHANGED <<mux, cv, queue, running, processing, pushed, accepted, snap>>

WorkerRelock ==
    /\ Lock(Worker, "relock", "finish")
    /\ UNCHANGED <<cv, queue, running, processing, batch, pushed, accepted,
                   consumed, snap>>

\* Mutant: the worker forgets to tell the flushers.
WorkerFinishSilently ==
    /\ pc[Worker] = "finish"
    /\ processing' = FALSE
    /\ Goto(Worker, "check")
    /\ UNCHANGED <<mux, cv, queue, running, batch, pushed, accepted, consumed, snap>>

\* Back to the top of the loop with the mutex held.
WorkerFinish ==
    /\ pc[Worker] = "finish"
    /\ processing' = FALSE
    /\ SignalAll(Worker, "check")
    /\ UNCHANGED <<mux, queue, running, batch, pushed, accepted, consumed, snap>>

\* Mutant: a stopped worker leaves what is still queued.
WorkerExitAtOnce ==
    /\ pc[Worker] = "check"
    /\ ~running
    /\ mux' = NoThread
    /\ Goto(Worker, "exited")
    /\ UNCHANGED <<cv, queue, running, processing, batch, pushed, accepted,
                   consumed, snap>>

\* The worker leaves its loop when it is told to and nothing is queued.
WorkerExit ==
    /\ pc[Worker] = "check"
    /\ queue = <<>> /\ ~running
    /\ mux' = NoThread
    /\ Goto(Worker, "exited")
    /\ UNCHANGED <<cv, queue, running, processing, batch, pushed, accepted,
                   consumed, snap>>

-----------------------------------------------------------------------------
(* The destructor                                                          *)

\* An object is destroyed only when no call on it is in progress.
DestroyCall ==
    /\ pc[Owner] = "alive"
    /\ \A c \in Clients : pc[c] = "idle"
    /\ Goto(Owner, "lock")
    /\ UNCHANGED <<mux, cv, queue, running, processing, batch, pushed,
                   accepted, consumed, snap>>

DestroyLock ==
    /\ Lock(Owner, "lock", "stop")
    /\ UNCHANGED <<cv, queue, running, processing, batch, pushed, accepted,
                   consumed, snap>>

DestroyStop ==
    /\ pc[Owner] = "stop"
    /\ running' = FALSE
    /\ mux' = NoThread
    /\ Goto(Owner, "signalAll")
    /\ UNCHANGED <<cv, queue, processing, batch, pushed, accepted, consumed, snap>>

\* Mutant: the destructor joins without waking the worker.
DestroyUnsignalled ==
    /\ pc[Owner] = "signalAll"
    /\ Goto(Owner, "join")
    /\ UNCHANGED <<mux, cv, queue, running, processing, batch, pushed, accepted,
                   consumed, snap>>

\* n_cv.SignalAll(), outside the mutex.
DestroySignal ==
    /\ pc[Owner] = "signalAll"
    /\ SignalAll(Owner, "join")
    /\ UNCHANGED <<mux, queue, running, processing, batch, pushed, accepted,
                   consumed, snap>>

\* Mutant: the destructor detaches the worker for want of joining it.
DestroyDetached ==
    /\ pc[Owner] = "join"
    /\ Goto(Owner, "destroyed")
    /\ UNCHANGED <<mux, cv, queue, running, processing, batch, pushed,
                   accepted, consumed, snap>>

DestroyJoin ==
    /\ pc[Owner] = "join"
    /\ pc[Worker] = "exited"
    /\ Goto(Owner, "destroyed")
    /\ UNCHANGED <<mux, cv, queue, running, processing, batch, pushed,
                   accepted, consumed, snap>>

\* After the destructor there is nothing left to do.
Terminated == pc[Owner] = "destroyed" /\ UNCHANGED vars

-----------------------------------------------------------------------------
ClientCall(c) == PushCall(c) \/ FlushCall(c)
ClientLock(c) == PushLock(c) \/ FlushLock(c)
ClientStep(c) == PushEnqueue(c) \/ PushSignal(c) \/ FlushWait(c) \/ FlushReturn(c)

WorkerStep == WorkerWait \/ WorkerDrain \/ WorkerConsume \/ WorkerFinish \/ WorkerExit
OwnerStep == DestroyStop \/ DestroySignal \/ DestroyJoin

Next ==
    \/ \E c \in Clients : ClientCall(c) \/ ClientLock(c) \/ ClientStep(c)
    \/ WorkerLock \/ WorkerRelock \/ WorkerStep
    \/ DestroyCall \/ DestroyLock \/ OwnerStep
    \/ SpuriousWakeup
    \/ Terminated

Spec == Init /\ [][Next]_vars

(* Every thread the scheduler runs goes on with a call it has begun, and a  *)
(* thread that asks for a mutex that is free again and again gets it. No    *)
(* call has to be made, and no wakeup is spurious by right.                 *)
Fairness ==
    /\ \A c \in Clients : WF_vars(ClientStep(c)) /\ SF_vars(ClientLock(c))
    /\ WF_vars(WorkerStep) /\ SF_vars(WorkerLock \/ WorkerRelock)
    /\ WF_vars(OwnerStep) /\ SF_vars(DestroyLock)

FairSpec == Spec /\ Fairness

-----------------------------------------------------------------------------
(* Type invariant                                                          *)

\* Every variable has the type its declaration in Batcher.h gives it.
TypeOK ==
    /\ pc \in [Threads -> ClientPc \cup WorkerPc \cup OwnerPc]
    /\ \A c \in Clients : pc[c] \in ClientPc
    /\ pc[Worker] \in WorkerPc
    /\ pc[Owner] \in OwnerPc
    /\ mux \in Threads \cup {NoThread}
    /\ cv \in Seq(Clients \cup {Worker})
    /\ queue \in Seq(Items)
    /\ running \in BOOLEAN
    /\ processing \in BOOLEAN
    /\ batch \in Seq(Items)
    /\ pushed \in [Clients -> 0 .. MaxPushes]
    /\ accepted \in Seq(Items)
    /\ consumed \in Seq(Items)
    /\ snap \in [Clients -> Nat]

-----------------------------------------------------------------------------
(* Safety                                                                  *)

(* Push to consumer: every item that entered the queue is either consumed, *)
(* or in the worker's batch, or still queued, once, and in the order of    *)
(* the pushes - whatever the batch size and whoever holds the mutex.       *)
Delivery == accepted = consumed \o batch \o queue

(* Batcher.h: a consumer receives a non-empty batch of at most MaxBatchSize *)
(* items.                                                                   *)
BatchLimit ==
    /\ pc[Worker] = "consume" => batch # <<>>
    /\ MaxBatchSize # 0 => Len(batch) <= MaxBatchSize

(* Flush: when a call returns, every item that was accepted before it was  *)
(* made has been consumed, not merely taken off the queue.                 *)
FlushBarrier ==
    [][\A c \in Clients :
         pc[c] = "flushCheck" /\ pc'[c] = "idle" => snap[c] <= Len(consumed)]_vars

(* Flush and workerLoop: no flush is asleep when the queue is empty and no *)
(* batch is being consumed: nobody would wake it.                          *)
FlushersAwake == ~Busy => \A c \in Clients : pc[c] # "waiting"

(* Push, ~Batcher and workerLoop: the worker is asleep while there is work *)
(* or it has been told to stop only as long as somebody is still going to  *)
(* signal. It holds because the worker is always the longest waiter; a     *)
(* condition variable that wakes any waiter breaks it.                     *)
WorkerAwake ==
    pc[Worker] = "waiting" /\ (queue # <<>> \/ ~running) =>
        pc[Owner] = "signalAll" \/ \E c \in Clients : pc[c] = "signal"

(* ~Batcher: when the destructor has returned, the worker is gone and no   *)
(* accepted item was dropped.                                              *)
DrainedWhenDestroyed ==
    pc[Owner] = "destroyed" => pc[Worker] = "exited" /\ consumed = accepted

-----------------------------------------------------------------------------
(* The inductive invariant the safety properties follow from               *)

\* The steps at which a thread holds the mutex.
Critical == {"push", "flushCheck", "check", "finish", "stop"}

\* A thread is at a step of a critical section exactly when it holds n_mux.
Exclusion == \A t \in Threads : pc[t] \in Critical <=> mux = t

\* A push that has been called carries the item its counter names.
PushInHand == \A c \in Clients : pc[c] \in {"pushLock", "push"} => pushed[c] >= 1

\* n_cv holds the sleeping threads, once each.
Sleepers ==
    /\ \A t \in Threads : pc[t] = "waiting" <=> \E i \in DOMAIN cv : cv[i] = t
    /\ \A i, j \in DOMAIN cv : cv[i] = cv[j] => i = j

\* n_processing is set from the drain until the worker is back at its loop.
Processing ==
    /\ processing <=> pc[Worker] \in {"consume", "relock", "finish"}
    /\ batch # <<>> <=> pc[Worker] = "consume"

\* A flush cannot wait for more than was ever accepted.
SnapBound == \A c \in Clients : snap[c] <= Len(accepted)

\* The stages of the destructor.
Shutdown ==
    /\ running <=> pc[Owner] \in {"alive", "lock", "stop"}
    /\ pc[Owner] # "alive" => \A c \in Clients : pc[c] = "idle"
    /\ pc[Worker] = "exited" => ~running /\ queue = <<>>
    /\ pc[Owner] = "destroyed" => pc[Worker] = "exited"

\* With a first-in first-out condition variable the sleeping worker is first.
WorkerFirst == FifoWake /\ pc[Worker] = "waiting" => cv # <<>> /\ cv[1] = Worker

IInv ==
    /\ TypeOK
    /\ Exclusion
    /\ PushInHand
    /\ Sleepers
    /\ Processing
    /\ Delivery
    /\ SnapBound
    /\ Shutdown
    /\ FlushersAwake
    /\ WorkerFirst

-----------------------------------------------------------------------------
(* Liveness, under FairSpec                                                *)

(* "drains queued items of type T and hands them to a consumer callback":  *)
(* what is accepted is eventually consumed.                                *)
EventuallyConsumed ==
    \A n \in 1 .. MaxPushes : Len(accepted) >= n ~> Len(consumed) >= n

\* ~Batcher: the destructor returns, whatever the worker was doing.
DestructorReturns == pc[Owner] = "lock" ~> pc[Owner] = "destroyed"

-----------------------------------------------------------------------------
(* The promise the batcher implements                                      *)

\* How many items client c's flush waits for, if it is inside Flush.
Flushing(c) ==
    IF pc[c] \in {"flushLock", "flushCheck", "waiting"} THEN snap[c] ELSE NoFlush

AC == INSTANCE AsyncChannel WITH
        delivered <- consumed,
        flushing <- [c \in Clients |-> Flushing(c)],
        open <- pc[Owner] # "destroyed"

\* Every step of the batcher is a step of the channel, or invisible in it.
ImplementsChannelSafely == AC!Safety

(* The batcher also keeps the channel's liveness: accepted items are       *)
(* delivered and flushes return.                                           *)
ImplementsChannel == AC!Spec
=============================================================================
