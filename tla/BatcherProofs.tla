---------------------------- MODULE BatcherProofs ----------------------------
(***************************************************************************)
(* Proofs about Batcher, for any set of clients, any batch size and any    *)
(* number of pushes.                                                       *)
(***************************************************************************)
EXTENDS Batcher, SequenceTheorems, TLAPS

(* Taking one waiter out of a sequence leaves the others, in order.        *)
LEMMA RemoveAtProperties ==
    ASSUME NEW S, NEW s \in Seq(S), NEW i \in 1 .. Len(s)
    PROVE  /\ RemoveAt(s, i) \in Seq(S)
           /\ Len(RemoveAt(s, i)) = Len(s) - 1
           /\ \A j \in 1 .. Len(s) - 1 :
                 RemoveAt(s, i)[j] = IF j < i THEN s[j] ELSE s[j + 1]
<1> DEFINE a == SubSeq(s, 1, i - 1)
           b == SubSeq(s, i + 1, Len(s))
<1>1. a \in Seq(S) /\ Len(a) = i - 1 /\ \A j \in 1 .. i - 1 : a[j] = s[j]
  BY SubSeqProperties
<1>2. b \in Seq(S) /\ Len(b) = Len(s) - i /\ \A j \in 1 .. Len(s) - i : b[j] = s[j + i]
  BY SubSeqProperties
<1>3. RemoveAt(s, i) = a \o b
  BY DEF RemoveAt
<1> HIDE DEF a, b
<1>4. /\ a \o b \in Seq(S)
      /\ Len(a \o b) = Len(s) - 1
      /\ \A j \in 1 .. Len(s) - 1 : (a \o b)[j] = IF j < i THEN a[j] ELSE b[j - (i - 1)]
  <2>1. /\ a \o b \in Seq(S)
        /\ Len(a \o b) = Len(a) + Len(b)
        /\ \A j \in 1 .. Len(a) + Len(b) :
              (a \o b)[j] = IF j <= Len(a) THEN a[j] ELSE b[j - Len(a)]
    BY <1>1, <1>2, ConcatProperties
  <2> QED BY <1>1, <1>2, <2>1, LenProperties
<1> QED BY <1>1, <1>2, <1>3, <1>4

(* Out of a sequence without duplicates exactly the one waiter goes.       *)
LEMMA RemoveAtRange ==
    ASSUME NEW S, NEW s \in Seq(S), NEW i \in 1 .. Len(s),
           \A j, k \in DOMAIN s : s[j] = s[k] => j = k
    PROVE  /\ \A t : (\E j \in DOMAIN RemoveAt(s, i) : RemoveAt(s, i)[j] = t)
                        <=> t # s[i] /\ \E j \in DOMAIN s : s[j] = t
           /\ \A j, k \in DOMAIN RemoveAt(s, i) :
                 RemoveAt(s, i)[j] = RemoveAt(s, i)[k] => j = k
<1> DEFINE r == RemoveAt(s, i)
<1>1. r \in Seq(S) /\ Len(r) = Len(s) - 1
  BY RemoveAtProperties
<1>2. \A j \in 1 .. Len(s) - 1 : r[j] = IF j < i THEN s[j] ELSE s[j + 1]
  BY RemoveAtProperties
<1>3. DOMAIN s = 1 .. Len(s) /\ DOMAIN r = 1 .. Len(s) - 1 /\ Len(s) \in Nat
  BY <1>1, LenProperties
<1> HIDE DEF r
<1>4. ASSUME NEW t, NEW j \in DOMAIN r, r[j] = t
      PROVE  t # s[i] /\ \E k \in DOMAIN s : s[k] = t
  <2>1. CASE j < i
    BY <2>1, <1>2, <1>3, <1>4
  <2>2. CASE ~(j < i)
    BY <2>2, <1>2, <1>3, <1>4
  <2> QED BY <2>1, <2>2
<1>5. ASSUME NEW t, t # s[i], NEW k \in DOMAIN s, s[k] = t
      PROVE  \E j \in DOMAIN r : r[j] = t
  <2>1. CASE k < i
    <3>1. k \in DOMAIN r /\ r[k] = t
      BY <2>1, <1>2, <1>3, <1>5
    <3> QED BY <3>1
  <2>2. CASE k > i
    <3>1. k - 1 \in DOMAIN r /\ r[k - 1] = t
      BY <2>2, <1>2, <1>3, <1>5
    <3> QED BY <3>1
  <2> QED BY <2>1, <2>2, <1>3, <1>5
<1>6. \A j, k \in DOMAIN r : r[j] = r[k] => j = k
  BY <1>2, <1>3
<1> QED BY <1>4, <1>5, <1>6 DEF r

(* Cutting a batch off the front of the queue loses and reorders nothing.  *)
LEMMA DrainSplitsQueue ==
    ASSUME NEW q \in Seq(Items), NEW n \in 0 .. Len(q)
    PROVE  /\ SubSeq(q, 1, n) \in Seq(Items)
           /\ SubSeq(q, n + 1, Len(q)) \in Seq(Items)
           /\ Len(SubSeq(q, 1, n)) = n
           /\ q = SubSeq(q, 1, n) \o SubSeq(q, n + 1, Len(q))
<1>1. SubSeq(q, 1, n) \o SubSeq(q, n + 1, Len(q)) = SubSeq(q, 1, Len(q))
  <2>1. 1 \in 1 .. Len(q) + 1 /\ n \in 1 - 1 .. Len(q) /\ Len(q) \in n .. Len(q)
    BY LenProperties
  <2> QED BY <2>1, ConcatAdjacentSubSeq
<1>2. SubSeq(q, 1, Len(q)) = q
  BY SubSeqFull
<1>3. SubSeq(q, 1, n) \in Seq(Items) /\ Len(SubSeq(q, 1, n)) = n
  BY SubSeqProperties
<1>4. SubSeq(q, n + 1, Len(q)) \in Seq(Items)
  BY SubSeqProperties
<1> QED BY <1>1, <1>2, <1>3, <1>4

SeqTypes == /\ queue \in Seq(Items) /\ batch \in Seq(Items)
            /\ consumed \in Seq(Items) /\ accepted \in Seq(Items)

(* Appending to the last of three sequences appends to the whole.          *)
LEMMA AppendToLast ==
    ASSUME NEW s \in Seq(Items), NEW b \in Seq(Items), NEW q \in Seq(Items), NEW e \in Items
    PROVE  Append(s \o b \o q, e) = s \o b \o Append(q, e)
  BY SMTT(40)

(* PushEnqueue: the new item comes after everything consumed, being        *)
(* consumed and queued.                                                    *)
LEMMA PushKeepsOrder ==
    ASSUME Delivery, SeqTypes, NEW e \in Items,
           accepted' = Append(accepted, e), queue' = Append(queue, e),
           batch' = batch, consumed' = consumed
    PROVE  Delivery'
<1>1. Append(consumed \o batch \o queue, e) = consumed \o batch \o Append(queue, e)
  BY AppendToLast, ZenonT(40) DEF SeqTypes
<1> QED BY <1>1, Zenon DEF Delivery

(* WorkerDrain: a queue cut in two still comes after what was consumed.    *)
LEMMA DrainKeepsOrder ==
    ASSUME Delivery, SeqTypes, SeqTypes', batch = <<>>, queue = batch' \o queue',
           accepted' = accepted, consumed' = consumed
    PROVE  Delivery'
<1>1. consumed \o <<>> \o (batch' \o queue') = consumed \o batch' \o queue'
  BY DEF SeqTypes
<1> QED BY <1>1, Zenon DEF Delivery

(* WorkerConsume: taking the head off one sequence and putting it at the   *)
(* end of another keeps the whole.                                         *)
LEMMA ConsumeKeepsOrder ==
    ASSUME Delivery, SeqTypes, batch # <<>>,
           consumed' = Append(consumed, Head(batch)), batch' = Tail(batch),
           accepted' = accepted, queue' = queue
    PROVE  Delivery'
<1>1. Append(consumed, Head(batch)) \o Tail(batch) \o queue = consumed \o batch \o queue
  BY DEF SeqTypes
<1> QED BY <1>1, Zenon DEF Delivery

(* WorkerConsume: the batch is used up by its last item.                   *)
LEMMA LastOfBatch ==
    ASSUME NEW S, NEW t \in Seq(S), t # <<>>
    PROVE  Tail(t) = <<>> <=> Len(t) = 1
<1>1. Tail(t) \in Seq(S) /\ Len(Tail(t)) = Len(t) - 1 /\ Len(t) \in Nat
  BY HeadTailProperties, LenProperties
<1>2. Tail(t) = <<>> <=> Len(Tail(t)) = 0
  BY <1>1, EmptySeq
<1> QED BY <1>1, <1>2

-----------------------------------------------------------------------------
(* Type correctness                                                        *)

\* TypeOK needs to know that an item in hand has a number.
TypeInv == TypeOK /\ PushInHand

\* The sets of steps, for the leaves that only ask where a thread may be.
LEMMA SignalTypes ==
    ASSUME TypeInv, ThreadsAssumption, NEW t \in Clients, pc[t] = "signal",
           Signal(t, "idle")
    PROVE  /\ pc' \in [Threads -> ClientPc \cup WorkerPc \cup OwnerPc]
           /\ \A c \in Clients : pc'[c] \in ClientPc
           /\ pc'[Worker] \in WorkerPc
           /\ pc'[Owner] = pc[Owner]
           /\ cv' \in Seq(Clients \cup {Worker})
           /\ \A c \in Clients : pc'[c] \in {"pushLock", "push"} => pc[c] = pc'[c]
<1>1. CASE cv = <<>> /\ Goto(t, "idle") /\ UNCHANGED cv
  BY <1>1 DEF TypeInv, TypeOK, Goto, Threads, ClientPc, WorkerPc, OwnerPc, ThreadsAssumption
<1>2. ASSUME NEW i \in Wakeable,
             pc' = [pc EXCEPT ![t] = "idle", ![cv[i]] = Resume(cv[i])],
             cv' = RemoveAt(cv, i)
      PROVE  /\ pc' \in [Threads -> ClientPc \cup WorkerPc \cup OwnerPc]
             /\ \A c \in Clients : pc'[c] \in ClientPc
             /\ pc'[Worker] \in WorkerPc
             /\ pc'[Owner] = pc[Owner]
             /\ cv' \in Seq(Clients \cup {Worker})
             /\ \A c \in Clients : pc'[c] \in {"pushLock", "push"} => pc[c] = pc'[c]
  <2>1. i \in 1 .. Len(cv) /\ cv[i] \in Clients \cup {Worker}
    BY <1>2, LenProperties DEF Wakeable, TypeInv, TypeOK
  <2>2. cv' \in Seq(Clients \cup {Worker})
    BY <1>2, <2>1, RemoveAtProperties DEF TypeInv, TypeOK
  <2> QED
    BY <1>2, <2>1, <2>2
    DEF TypeInv, TypeOK, Resume, Threads, ClientPc, WorkerPc, OwnerPc, ThreadsAssumption
<1> QED BY <1>1, <1>2 DEF Signal

LEMMA TypeInvStep == ThreadsAssumption /\ SizesAssumption /\ TypeInv /\ [Next]_vars => TypeInv'
<1> SUFFICES ASSUME ThreadsAssumption, SizesAssumption, TypeInv, [Next]_vars
             PROVE  TypeInv'
  OBVIOUS
<1> USE DEF ThreadsAssumption, SizesAssumption, TypeInv, TypeOK, PushInHand, Goto, Threads,
            ClientPc, WorkerPc, OwnerPc
<1>1. ASSUME NEW c \in Clients, PushCall(c) PROVE TypeInv'
  BY <1>1 DEF PushCall
<1>2. ASSUME NEW c \in Clients, FlushCall(c) PROVE TypeInv'
  BY <1>2, LenProperties DEF FlushCall
<1>3. ASSUME NEW c \in Clients, PushLock(c) PROVE TypeInv'
  BY <1>3 DEF PushLock, Lock
<1>4. ASSUME NEW c \in Clients, FlushLock(c) PROVE TypeInv'
  BY <1>4 DEF FlushLock, Lock
<1>5. ASSUME NEW c \in Clients, PushEnqueue(c) PROVE TypeInv'
  <2>1. <<c, pushed[c]>> \in Items
    BY <1>5 DEF PushEnqueue, Items
  <2>2. queue' \in Seq(Items) /\ accepted' \in Seq(Items)
    BY <1>5, <2>1, AppendProperties DEF PushEnqueue
  <2> QED BY <1>5, <2>2 DEF PushEnqueue
<1>6. ASSUME NEW c \in Clients, PushSignal(c) PROVE TypeInv'
  BY <1>6, SignalTypes DEF PushSignal
<1>7. ASSUME NEW c \in Clients, FlushWait(c) PROVE TypeInv'
  <2>1. cv' \in Seq(Clients \cup {Worker})
    BY <1>7, AppendProperties DEF FlushWait, Wait
  <2> QED BY <1>7, <2>1 DEF FlushWait, Wait
<1>8. ASSUME NEW c \in Clients, FlushReturn(c) PROVE TypeInv'
  BY <1>8 DEF FlushReturn
<1>9. ASSUME WorkerLock PROVE TypeInv'
  BY <1>9 DEF WorkerLock, Lock
<1>10. ASSUME WorkerRelock PROVE TypeInv'
  BY <1>10 DEF WorkerRelock, Lock
<1>11. ASSUME WorkerWait PROVE TypeInv'
  <2>1. cv' \in Seq(Clients \cup {Worker})
    BY <1>11, AppendProperties DEF WorkerWait, Wait
  <2> QED BY <1>11, <2>1 DEF WorkerWait, Wait
<1>12. ASSUME WorkerDrain PROVE TypeInv'
  <2>1. DrainCount \in 0 .. Len(queue)
    BY LenProperties DEF DrainCount
  <2>2. batch' \in Seq(Items) /\ queue' \in Seq(Items)
    BY <1>12, <2>1, DrainSplitsQueue DEF WorkerDrain
  <2> QED BY <1>12, <2>2 DEF WorkerDrain
<1>13. ASSUME WorkerConsume PROVE TypeInv'
  <2>1. batch' \in Seq(Items) /\ consumed' \in Seq(Items)
    BY <1>13, HeadTailProperties, AppendProperties DEF WorkerConsume
  <2> QED BY <1>13, <2>1 DEF WorkerConsume
<1>14. ASSUME WorkerFinish PROVE TypeInv'
  <2>1. cv' \in Seq(Clients \cup {Worker})
    BY <1>14 DEF WorkerFinish, SignalAll
  <2>2. Owner \notin ToSet(cv)
    BY LenProperties DEF ToSet
  <2> QED BY <1>14, <2>1, <2>2 DEF WorkerFinish, SignalAll, Resume
<1>15. ASSUME WorkerExit PROVE TypeInv'
  BY <1>15 DEF WorkerExit
<1>16. ASSUME DestroyCall PROVE TypeInv'
  BY <1>16 DEF DestroyCall
<1>17. ASSUME DestroyLock PROVE TypeInv'
  BY <1>17 DEF DestroyLock, Lock
<1>18. ASSUME DestroyStop PROVE TypeInv'
  BY <1>18 DEF DestroyStop
<1>19. ASSUME DestroySignal PROVE TypeInv'
  <2>1. cv' \in Seq(Clients \cup {Worker})
    BY <1>19 DEF DestroySignal, SignalAll
  <2> QED BY <1>19, <2>1 DEF DestroySignal, SignalAll, Resume
<1>20. ASSUME DestroyJoin PROVE TypeInv'
  BY <1>20 DEF DestroyJoin
<1>21. ASSUME SpuriousWakeup PROVE TypeInv'
  <2>1. PICK i \in DOMAIN cv : Goto(cv[i], Resume(cv[i])) /\ cv' = RemoveAt(cv, i)
    BY <1>21 DEF SpuriousWakeup
  <2>2. i \in 1 .. Len(cv) /\ cv[i] \in Clients \cup {Worker}
    BY LenProperties
  <2>3. cv' \in Seq(Clients \cup {Worker})
    BY <2>1, <2>2, RemoveAtProperties
  <2> QED BY <1>21, <2>1, <2>2, <2>3 DEF SpuriousWakeup, Resume
<1>22. ASSUME UNCHANGED vars PROVE TypeInv'
  BY <1>22 DEF vars
<1> QED
  BY <1>1, <1>2, <1>3, <1>4, <1>5, <1>6, <1>7, <1>8, <1>9, <1>10, <1>11, <1>12, <1>13, <1>14,
     <1>15, <1>16, <1>17, <1>18, <1>19, <1>20, <1>21, <1>22
  DEF Next, ClientCall, ClientLock, ClientStep, WorkerStep, OwnerStep, Terminated

-----------------------------------------------------------------------------
(* What waiting and waking do to the threads' steps                        *)

\* Every thread but t stays where it is, or is woken.
OthersWake(t) ==
    \A u \in Threads \ {t} :
        pc'[u] = pc[u] \/ (pc[u] = "waiting" /\ pc'[u] = Resume(u))

(* A waiter that leaves the sequence leaves the other sleepers as they are. *)
LEMMA OneLeaves ==
    ASSUME TypeInv, Sleepers, ThreadsAssumption, NEW i \in DOMAIN cv,
           cv' = RemoveAt(cv, i),
           pc' \in [Threads -> ClientPc \cup WorkerPc \cup OwnerPc],
           pc'[cv[i]] # "waiting",
           \A u \in Threads \ {cv[i]} : pc[u] = "waiting" <=> pc'[u] = "waiting"
    PROVE  Sleepers'
<1>1. cv \in Seq(Clients \cup {Worker}) /\ DOMAIN cv = 1 .. Len(cv)
  BY LenProperties DEF TypeInv, TypeOK
<1>2. /\ \A t : (\E j \in DOMAIN cv' : cv'[j] = t) <=> t # cv[i] /\ \E j \in DOMAIN cv : cv[j] = t
      /\ \A j, k \in DOMAIN cv' : cv'[j] = cv'[k] => j = k
  <2>1. i \in 1 .. Len(cv) /\ \A j, k \in DOMAIN cv : cv[j] = cv[k] => j = k
    BY <1>1 DEF Sleepers
  <2>2. /\ \A t : (\E j \in DOMAIN RemoveAt(cv, i) : RemoveAt(cv, i)[j] = t)
                     <=> t # cv[i] /\ \E j \in DOMAIN cv : cv[j] = t
        /\ \A j, k \in DOMAIN RemoveAt(cv, i) :
              RemoveAt(cv, i)[j] = RemoveAt(cv, i)[k] => j = k
    BY <1>1, <2>1, RemoveAtRange
  <2> QED BY <2>2
<1>3. ASSUME NEW t \in Threads
      PROVE  pc'[t] = "waiting" <=> \E j \in DOMAIN cv' : cv'[j] = t
  BY <1>2, <1>3 DEF Sleepers
<1> QED BY <1>2, <1>3 DEF Sleepers

LEMMA SignalEffect ==
    ASSUME TypeInv, Sleepers, ThreadsAssumption, NEW t \in Clients, pc[t] = "signal",
           Signal(t, "idle")
    PROVE  /\ pc'[t] = "idle"
           /\ OthersWake(t)
           /\ Sleepers'
           /\ WorkerFirst /\ FifoWake /\ pc[Worker] = "waiting" => pc'[Worker] = "lock"
<1>1. CASE cv = <<>> /\ Goto(t, "idle") /\ UNCHANGED cv
  BY <1>1 DEF TypeInv, TypeOK, Sleepers, OthersWake, Goto, Threads, WorkerFirst
<1>2. ASSUME NEW i \in Wakeable,
             pc' = [pc EXCEPT ![t] = "idle", ![cv[i]] = Resume(cv[i])],
             cv' = RemoveAt(cv, i)
      PROVE  /\ pc'[t] = "idle"
             /\ OthersWake(t)
             /\ Sleepers'
             /\ WorkerFirst /\ FifoWake /\ pc[Worker] = "waiting" => pc'[Worker] = "lock"
  <2>1. i \in DOMAIN cv /\ cv[i] \in Clients \cup {Worker} /\ (FifoWake => i = 1)
    BY <1>2, LenProperties DEF Wakeable, TypeInv, TypeOK
  <2>2. pc[cv[i]] = "waiting" /\ cv[i] # t /\ cv[i] \in Threads
    BY <2>1 DEF Sleepers, Threads
  <2>3. pc' \in [Threads -> ClientPc \cup WorkerPc \cup OwnerPc]
    BY SignalTypes
  <2>4. /\ pc'[t] = "idle"
        /\ pc'[cv[i]] = Resume(cv[i])
        /\ \A u \in Threads \ {t, cv[i]} : pc'[u] = pc[u]
    BY <1>2, <2>2 DEF TypeInv, TypeOK, Threads
  <2>5. Sleepers'
    BY <1>2, <2>1, <2>2, <2>3, <2>4, OneLeaves DEF Resume
  <2> QED
    BY <2>1, <2>2, <2>4, <2>5 DEF OthersWake, WorkerFirst, Resume
<1> QED BY <1>1, <1>2 DEF Signal

LEMMA SignalAllEffect ==
    ASSUME TypeInv, Sleepers, ThreadsAssumption, NEW t \in Threads, NEW next,
           next # "waiting", pc[t] # "waiting", SignalAll(t, next)
    PROVE  /\ pc'[t] = next
           /\ \A u \in Threads \ {t} :
                 pc'[u] = IF pc[u] = "waiting" THEN Resume(u) ELSE pc[u]
           /\ OthersWake(t)
           /\ Sleepers'
<1>1. \A u \in Threads : u \in ToSet(cv) <=> pc[u] = "waiting"
  BY DEF Sleepers, ToSet
<1>2. /\ pc'[t] = next
      /\ \A u \in Threads \ {t} :
            pc'[u] = IF pc[u] = "waiting" THEN Resume(u) ELSE pc[u]
  BY <1>1 DEF SignalAll
<1>3. cv' = <<>>
  BY DEF SignalAll
<1>4. Sleepers'
  BY <1>2, <1>3 DEF Sleepers, Resume
<1> QED BY <1>2, <1>4 DEF OthersWake

LEMMA WaitEffect ==
    ASSUME TypeInv, Sleepers, ThreadsAssumption, NEW t \in Clients \cup {Worker},
           pc[t] # "waiting", Wait(t)
    PROVE  Sleepers' /\ Len(cv') = Len(cv) + 1 /\ (cv # <<>> => cv'[1] = cv[1])
           /\ cv'[Len(cv) + 1] = t /\ cv' # <<>>
<1>1. /\ cv \in Seq(Clients \cup {Worker}) /\ DOMAIN cv = 1 .. Len(cv) /\ Len(cv) \in Nat
  BY LenProperties DEF TypeInv, TypeOK
<1>2. /\ DOMAIN cv' = 1 .. Len(cv) + 1
      /\ Len(cv') = Len(cv) + 1
      /\ \A i \in 1 .. Len(cv) : cv'[i] = cv[i]
      /\ cv'[Len(cv) + 1] = t
      /\ cv' # <<>>
  BY <1>1, AppendProperties, LenProperties DEF Wait
<1>3. pc'[t] = "waiting" /\ \A u \in Threads \ {t} : pc'[u] = pc[u]
  BY DEF Wait, Goto, TypeInv, TypeOK, Threads
<1>4. \A u \in Threads : (\E i \in DOMAIN cv' : cv'[i] = u) <=> (u = t \/ \E i \in DOMAIN cv : cv[i] = u)
  BY <1>1, <1>2
<1>5. \A i \in DOMAIN cv : cv[i] # t
  BY DEF Sleepers, Threads
<1>6. \A i, j \in DOMAIN cv' : cv'[i] = cv'[j] => i = j
  BY <1>1, <1>2, <1>5 DEF Sleepers
<1>7. Sleepers'
  BY <1>3, <1>4, <1>6 DEF Sleepers
<1> QED BY <1>1, <1>2, <1>7

LEMMA SpuriousEffect ==
    ASSUME TypeInv, Sleepers, ThreadsAssumption, SpuriousWakeup
    PROVE  /\ \E w \in Clients \cup {Worker} :
                 pc[w] = "waiting" /\ pc'[w] = Resume(w) /\ OthersWake(w)
           /\ \A u \in Threads :
                 pc'[u] = pc[u] \/ (pc[u] = "waiting" /\ pc'[u] = Resume(u))
           /\ Sleepers'
           /\ WorkerFirst => WorkerFirst'
<1>1. PICK i \in DOMAIN cv : Goto(cv[i], Resume(cv[i])) /\ cv' = RemoveAt(cv, i)
  BY DEF SpuriousWakeup
<1>2. /\ i \in 1 .. Len(cv) /\ cv[i] \in Clients \cup {Worker} /\ pc[cv[i]] = "waiting"
      /\ cv \in Seq(Clients \cup {Worker}) /\ DOMAIN cv = 1 .. Len(cv) /\ Len(cv) \in Nat
  BY LenProperties DEF TypeInv, TypeOK, Sleepers, Threads
<1>3. /\ pc'[cv[i]] = Resume(cv[i])
      /\ \A u \in Threads \ {cv[i]} : pc'[u] = pc[u]
      /\ pc' \in [Threads -> ClientPc \cup WorkerPc \cup OwnerPc]
  BY <1>1, <1>2 DEF Goto, TypeInv, TypeOK, Threads, Resume, ClientPc, WorkerPc
<1>4. Sleepers'
  BY <1>1, <1>2, <1>3, OneLeaves DEF Resume
<1>5. WorkerFirst => WorkerFirst'
  <2> SUFFICES ASSUME WorkerFirst, FifoWake, pc'[Worker] = "waiting"
               PROVE  cv' # <<>> /\ cv'[1] = Worker
    BY <1>1 DEF WorkerFirst
  <2>1. pc[Worker] = "waiting" /\ cv[i] # Worker /\ cv # <<>> /\ cv[1] = Worker
    BY <1>2, <1>3 DEF WorkerFirst, Resume, Threads
  <2>2. i > 1 /\ Len(cv) > 1
    BY <1>2, <2>1
  <2>3. cv' \in Seq(Clients \cup {Worker}) /\ Len(cv') = Len(cv) - 1 /\ cv'[1] = cv[1]
    <3>1. 1 \in 1 .. Len(cv) - 1 /\ 1 < i
      BY <1>2, <2>2
    <3>2. /\ RemoveAt(cv, i) \in Seq(Clients \cup {Worker})
          /\ Len(RemoveAt(cv, i)) = Len(cv) - 1
          /\ RemoveAt(cv, i)[1] = IF 1 < i THEN cv[1] ELSE cv[2]
      BY <1>2, <3>1, RemoveAtProperties
    <3> QED BY <1>1, <3>1, <3>2
  <2> QED BY <1>2, <2>1, <2>2, <2>3
<1> QED BY <1>2, <1>3, <1>4, <1>5 DEF OthersWake

-----------------------------------------------------------------------------
(* The inductive step                                                      *)

\* IInv without the types.
Others ==
    /\ Exclusion /\ Sleepers /\ Processing /\ Delivery /\ SnapBound
    /\ Shutdown /\ FlushersAwake /\ WorkerFirst

LEMMA OthersStep ==
    ASSUME ThreadsAssumption, SizesAssumption, IInv, TypeInv', [Next]_vars
    PROVE  Others'
<1> USE DEF ThreadsAssumption, Threads, IInv, TypeInv, TypeOK, Others
<1>a. Len(queue) \in Nat /\ Len(accepted) \in Nat /\ Len(cv) \in Nat /\ DOMAIN cv = 1 .. Len(cv)
  BY LenProperties
<1>1. ASSUME NEW c \in Clients, PushCall(c) PROVE Others'
  <2>1. Exclusion' /\ Processing' /\ Shutdown'
    BY <1>1, <1>a
    DEF PushCall, Goto, Exclusion, Critical, Sleepers, Processing, Shutdown
  <2>2. Sleepers' /\ FlushersAwake' /\ WorkerFirst'
    BY <1>1, <1>a
    DEF PushCall, Goto, Sleepers, FlushersAwake, Busy, Processing, WorkerFirst
  <2>3. Delivery' /\ SnapBound'
    BY <1>1, <1>a
    DEF PushCall, Goto, Delivery, Processing, SnapBound
  <2> QED BY <2>1, <2>2, <2>3
<1>2. ASSUME NEW c \in Clients, FlushCall(c) PROVE Others'
  <2>1. Exclusion' /\ Processing' /\ Shutdown'
    BY <1>2, <1>a
    DEF FlushCall, Goto, Exclusion, Critical, Sleepers, Processing, Shutdown
  <2>2. Sleepers' /\ FlushersAwake' /\ WorkerFirst'
    BY <1>2, <1>a
    DEF FlushCall, Goto, Sleepers, FlushersAwake, Busy, Processing, WorkerFirst
  <2>3. Delivery' /\ SnapBound'
    BY <1>2, <1>a
    DEF FlushCall, Goto, Delivery, Processing, SnapBound
  <2> QED BY <2>1, <2>2, <2>3
<1>3. ASSUME NEW c \in Clients, PushLock(c) PROVE Others'
  <2>1. Exclusion' /\ Processing' /\ Shutdown'
    BY <1>3, <1>a
    DEF PushLock, Lock, Goto, Exclusion, Critical, Sleepers, Processing, Shutdown
  <2>2. Sleepers' /\ FlushersAwake' /\ WorkerFirst'
    BY <1>3, <1>a
    DEF PushLock, Lock, Goto, Sleepers, FlushersAwake, Busy, Processing, WorkerFirst
  <2>3. Delivery' /\ SnapBound'
    BY <1>3, <1>a
    DEF PushLock, Lock, Goto, Delivery, Processing, SnapBound
  <2> QED BY <2>1, <2>2, <2>3
<1>4. ASSUME NEW c \in Clients, FlushLock(c) PROVE Others'
  <2>1. Exclusion' /\ Processing' /\ Shutdown'
    BY <1>4, <1>a
    DEF FlushLock, Lock, Goto, Exclusion, Critical, Sleepers, Processing, Shutdown
  <2>2. Sleepers' /\ FlushersAwake' /\ WorkerFirst'
    BY <1>4, <1>a
    DEF FlushLock, Lock, Goto, Sleepers, FlushersAwake, Busy, Processing, WorkerFirst
  <2>3. Delivery' /\ SnapBound'
    BY <1>4, <1>a
    DEF FlushLock, Lock, Goto, Delivery, Processing, SnapBound
  <2> QED BY <2>1, <2>2, <2>3
<1>5. ASSUME NEW c \in Clients, PushEnqueue(c) PROVE Others'
  <2>1. Exclusion' /\ Processing' /\ Shutdown'
    BY <1>5, <1>a
    DEF PushEnqueue, Goto, Exclusion, Critical, Sleepers, Processing, Shutdown
  <2>2. Sleepers' /\ WorkerFirst'
    BY <1>5, <1>a
    DEF PushEnqueue, Goto, Sleepers, WorkerFirst, FlushersAwake, Busy, Processing
  <2>3. FlushersAwake'
    <3>1. <<c, pushed[c]>> \in Items
      BY <1>5 DEF PushEnqueue, PushInHand, Items
    <3>2. queue' # <<>>
      BY <1>5, <3>1, AppendProperties DEF PushEnqueue
    <3> QED BY <3>2 DEF FlushersAwake, Busy
  <2>4. Delivery'
    <3>1. <<c, pushed[c]>> \in Items
      BY <1>5 DEF PushEnqueue, PushInHand, Items
    <3> QED BY <1>5, <3>1, PushKeepsOrder DEF PushEnqueue, SeqTypes
  <2>5. SnapBound'
    <3>1. <<c, pushed[c]>> \in Items
      BY <1>5 DEF PushEnqueue, PushInHand, Items
    <3>2. Len(accepted') = Len(accepted) + 1
      BY <1>5, <3>1, AppendProperties DEF PushEnqueue
    <3> QED BY <1>5, <1>a, <3>2 DEF PushEnqueue, SnapBound
  <2> QED BY <2>1, <2>2, <2>3, <2>4, <2>5
<1>6. ASSUME NEW c \in Clients, PushSignal(c) PROVE Others'
  <2>e. /\ pc'[c] = "idle" /\ OthersWake(c) /\ Sleepers'
        /\ WorkerFirst /\ FifoWake /\ pc[Worker] = "waiting" => pc'[Worker] = "lock"
    BY <1>6, SignalEffect DEF PushSignal
  <2>1. Exclusion' /\ Processing' /\ Shutdown'
    BY <1>6, <1>a, <2>e
    DEF PushSignal, OthersWake, Resume, Exclusion, Critical, Sleepers, Processing, Shutdown
  <2>2. Sleepers' /\ FlushersAwake' /\ WorkerFirst'
    BY <1>6, <1>a, <2>e
    DEF PushSignal, OthersWake, Resume, Sleepers, FlushersAwake, Busy, Processing, WorkerFirst
  <2>3. Delivery' /\ SnapBound'
    BY <1>6, <1>a, <2>e
    DEF PushSignal, OthersWake, Resume, Delivery, Processing, SnapBound
  <2> QED BY <2>1, <2>2, <2>3
<1>7. ASSUME NEW c \in Clients, FlushWait(c) PROVE Others'
  <2>e. /\ Sleepers' /\ Len(cv') = Len(cv) + 1 /\ (cv # <<>> => cv'[1] = cv[1])
        /\ cv'[Len(cv) + 1] = c /\ cv' # <<>>
    BY <1>7, WaitEffect DEF FlushWait
  <2>1. Exclusion' /\ Processing' /\ Shutdown'
    BY <1>7, <1>a, <2>e
    DEF FlushWait, Wait, Goto, Exclusion, Critical, Sleepers, Processing, Shutdown
  <2>2. Sleepers' /\ FlushersAwake' /\ WorkerFirst'
    BY <1>7, <1>a, <2>e
    DEF FlushWait, Wait, Goto, Sleepers, FlushersAwake, Busy, Processing, WorkerFirst
  <2>3. Delivery' /\ SnapBound'
    BY <1>7, <1>a, <2>e
    DEF FlushWait, Wait, Goto, Delivery, Processing, SnapBound
  <2> QED BY <2>1, <2>2, <2>3
<1>8. ASSUME NEW c \in Clients, FlushReturn(c) PROVE Others'
  <2>1. Exclusion' /\ Processing' /\ Shutdown'
    BY <1>8, <1>a
    DEF FlushReturn, Goto, Exclusion, Critical, Sleepers, Processing, Shutdown
  <2>2. Sleepers' /\ FlushersAwake' /\ WorkerFirst'
    BY <1>8, <1>a
    DEF FlushReturn, Goto, Sleepers, FlushersAwake, Busy, Processing, WorkerFirst
  <2>3. Delivery' /\ SnapBound'
    BY <1>8, <1>a
    DEF FlushReturn, Goto, Delivery, Processing, SnapBound
  <2> QED BY <2>1, <2>2, <2>3
<1>9. ASSUME WorkerLock PROVE Others'
  <2>1. Exclusion' /\ Processing' /\ Shutdown'
    BY <1>9, <1>a
    DEF WorkerLock, Lock, Goto, Exclusion, Critical, Sleepers, Processing, Shutdown
  <2>2. Sleepers' /\ FlushersAwake' /\ WorkerFirst'
    BY <1>9, <1>a
    DEF WorkerLock, Lock, Goto, Sleepers, FlushersAwake, Busy, Processing, WorkerFirst
  <2>3. Delivery' /\ SnapBound'
    BY <1>9, <1>a
    DEF WorkerLock, Lock, Goto, Delivery, Processing, SnapBound
  <2> QED BY <2>1, <2>2, <2>3
<1>10. ASSUME WorkerRelock PROVE Others'
  <2>1. Exclusion' /\ Processing' /\ Shutdown'
    BY <1>10, <1>a
    DEF WorkerRelock, Lock, Goto, Exclusion, Critical, Sleepers, Processing, Shutdown
  <2>2. Sleepers' /\ FlushersAwake' /\ WorkerFirst'
    BY <1>10, <1>a
    DEF WorkerRelock, Lock, Goto, Sleepers, FlushersAwake, Busy, Processing, WorkerFirst
  <2>3. Delivery' /\ SnapBound'
    BY <1>10, <1>a
    DEF WorkerRelock, Lock, Goto, Delivery, Processing, SnapBound
  <2> QED BY <2>1, <2>2, <2>3
<1>11. ASSUME WorkerWait PROVE Others'
  <2>e. /\ Sleepers' /\ Len(cv') = Len(cv) + 1 /\ (cv # <<>> => cv'[1] = cv[1])
        /\ cv'[Len(cv) + 1] = Worker /\ cv' # <<>>
    BY <1>11, WaitEffect DEF WorkerWait
  <2>1. Exclusion' /\ Processing' /\ Shutdown'
    BY <1>11, <1>a, <2>e
    DEF WorkerWait, Wait, Goto, Exclusion, Critical, Sleepers, Processing, Shutdown
  <2>2. Sleepers' /\ FlushersAwake'
    BY <1>11, <1>a, <2>e
    DEF WorkerWait, Wait, Goto, Sleepers, FlushersAwake, Busy, Processing
  <2>3. WorkerFirst'
    <3>1. ~Busy
      BY <1>11 DEF WorkerWait, Busy, Processing
    <3>2. \A i \in DOMAIN cv : cv[i] \in Clients \cup {Worker} /\ pc[cv[i]] = "waiting"
      BY <1>a, SMTT(40) DEF Sleepers
    <3>3. DOMAIN cv = {}
      BY <1>11, <3>1, <3>2 DEF WorkerWait, FlushersAwake
    <3>4. Len(cv) = 0
      BY <1>a, <3>3
    <3> QED BY <2>e, <3>4 DEF WorkerFirst
  <2>4. Delivery' /\ SnapBound'
    BY <1>11, <1>a, <2>e
    DEF WorkerWait, Wait, Goto, Delivery, Processing, SnapBound
  <2> QED BY <2>1, <2>2, <2>3, <2>4
<1>12. ASSUME WorkerDrain PROVE Others'
  <2>d. DrainCount \in 1 .. Len(queue)
    BY <1>12, <1>a DEF WorkerDrain, DrainCount, SizesAssumption
  <2>b. /\ batch' = SubSeq(queue, 1, DrainCount)
        /\ queue' = SubSeq(queue, DrainCount + 1, Len(queue))
    BY <1>12 DEF WorkerDrain
  <2>c. queue \in Seq(Items) /\ DrainCount \in 0 .. Len(queue)
    BY <1>a, <2>d
  <2>e. batch' # <<>>
    <3>1. Len(batch') = DrainCount /\ batch' \in Seq(Items)
      BY <2>b, <2>c, DrainSplitsQueue
    <3> QED BY <2>d, <3>1, EmptySeq
  <2>1. Exclusion' /\ Shutdown'
    BY <1>12, <1>a, <2>e
    DEF WorkerDrain, Goto, Exclusion, Critical, Sleepers, Shutdown
  <2>2. Processing'
    <3>1. batch' # <<>>
      BY <2>e
    <3> QED BY <1>12, <3>1 DEF WorkerDrain, Goto, Processing
  <2>3. Sleepers' /\ FlushersAwake' /\ WorkerFirst'
    BY <1>12, <1>a, <2>e
    DEF WorkerDrain, Goto, Sleepers, FlushersAwake, Busy, Processing, WorkerFirst
  <2>4. SnapBound'
    BY <1>12, <1>a, <2>e
    DEF WorkerDrain, Goto, SnapBound
  <2>5. Delivery'
    <3>1. batch = <<>>
      BY <1>12 DEF WorkerDrain, Processing
    <3>2. queue = batch' \o queue'
      BY <2>b, <2>c, DrainSplitsQueue, Zenon
    <3> QED BY <1>12, <3>1, <3>2, DrainKeepsOrder DEF WorkerDrain, SeqTypes
  <2> QED BY <2>1, <2>2, <2>3, <2>4, <2>5
<1>13. ASSUME WorkerConsume PROVE Others'
  <2>1. Exclusion' /\ Shutdown'
    BY <1>13, <1>a
    DEF WorkerConsume, Goto, Exclusion, Critical, Sleepers, Shutdown
  <2>2. Processing'
    <3>1. batch \in Seq(Items) /\ batch # <<>>
      BY <1>13 DEF WorkerConsume
    <3>2. Tail(batch) = <<>> <=> Len(batch) = 1
      BY <3>1, LastOfBatch
    <3> QED BY <1>13, <3>2 DEF WorkerConsume, Goto, Processing
  <2>3. Sleepers' /\ FlushersAwake' /\ WorkerFirst'
    BY <1>13, <1>a
    DEF WorkerConsume, Goto, Sleepers, FlushersAwake, Busy, Processing, WorkerFirst
  <2>4. SnapBound'
    BY <1>13, <1>a
    DEF WorkerConsume, Goto, SnapBound
  <2>5. Delivery'
    BY <1>13, ConsumeKeepsOrder DEF WorkerConsume, SeqTypes
  <2> QED BY <2>1, <2>2, <2>3, <2>4, <2>5
<1>14. ASSUME WorkerFinish PROVE Others'
  <2>d. Worker \in Threads /\ pc[Worker] # "waiting" /\ SignalAll(Worker, "check")
    BY <1>14 DEF WorkerFinish
  <2>e. /\ pc'[Worker] = "check" /\ OthersWake(Worker) /\ Sleepers'
        /\ \A u \in Threads \ {Worker} :
              pc'[u] = IF pc[u] = "waiting" THEN Resume(u) ELSE pc[u]
    <3>1. "check" # "waiting"
      OBVIOUS
    <3> QED BY <2>d, <3>1, SignalAllEffect
  <2>1. Exclusion' /\ Processing' /\ Shutdown'
    BY <1>14, <1>a, <2>e
    DEF WorkerFinish, OthersWake, Resume, Exclusion, Critical, Sleepers, Processing, Shutdown
  <2>2. Sleepers' /\ FlushersAwake' /\ WorkerFirst'
    BY <1>14, <1>a, <2>e
    DEF WorkerFinish, OthersWake, Resume, Sleepers, FlushersAwake, Busy, Processing, WorkerFirst
  <2>3. Delivery' /\ SnapBound'
    BY <1>14, <1>a, <2>e
    DEF WorkerFinish, OthersWake, Resume, Delivery, Processing, SnapBound
  <2> QED BY <2>1, <2>2, <2>3
<1>15. ASSUME WorkerExit PROVE Others'
  <2>1. Exclusion' /\ Processing' /\ Shutdown'
    BY <1>15, <1>a
    DEF WorkerExit, Goto, Exclusion, Critical, Sleepers, Processing, Shutdown
  <2>2. Sleepers' /\ FlushersAwake' /\ WorkerFirst'
    BY <1>15, <1>a
    DEF WorkerExit, Goto, Sleepers, FlushersAwake, Busy, Processing, WorkerFirst
  <2>3. Delivery' /\ SnapBound'
    BY <1>15, <1>a
    DEF WorkerExit, Goto, Delivery, Processing, SnapBound
  <2> QED BY <2>1, <2>2, <2>3
<1>16. ASSUME DestroyCall PROVE Others'
  <2>1. Exclusion' /\ Processing' /\ Shutdown'
    BY <1>16, <1>a
    DEF DestroyCall, Goto, Exclusion, Critical, Sleepers, Processing, Shutdown
  <2>2. Sleepers' /\ FlushersAwake' /\ WorkerFirst'
    BY <1>16, <1>a
    DEF DestroyCall, Goto, Sleepers, FlushersAwake, Busy, Processing, WorkerFirst
  <2>3. Delivery' /\ SnapBound'
    BY <1>16, <1>a
    DEF DestroyCall, Goto, Delivery, Processing, SnapBound
  <2> QED BY <2>1, <2>2, <2>3
<1>17. ASSUME DestroyLock PROVE Others'
  <2>1. Exclusion' /\ Processing' /\ Shutdown'
    BY <1>17, <1>a
    DEF DestroyLock, Lock, Goto, Exclusion, Critical, Sleepers, Processing, Shutdown
  <2>2. Sleepers' /\ FlushersAwake' /\ WorkerFirst'
    BY <1>17, <1>a
    DEF DestroyLock, Lock, Goto, Sleepers, FlushersAwake, Busy, Processing, WorkerFirst
  <2>3. Delivery' /\ SnapBound'
    BY <1>17, <1>a
    DEF DestroyLock, Lock, Goto, Delivery, Processing, SnapBound
  <2> QED BY <2>1, <2>2, <2>3
<1>18. ASSUME DestroyStop PROVE Others'
  <2>1. Exclusion' /\ Processing' /\ Shutdown'
    BY <1>18, <1>a
    DEF DestroyStop, Goto, Exclusion, Critical, Sleepers, Processing, Shutdown
  <2>2. Sleepers' /\ FlushersAwake' /\ WorkerFirst'
    BY <1>18, <1>a
    DEF DestroyStop, Goto, Sleepers, FlushersAwake, Busy, Processing, WorkerFirst
  <2>3. Delivery' /\ SnapBound'
    BY <1>18, <1>a
    DEF DestroyStop, Goto, Delivery, Processing, SnapBound
  <2> QED BY <2>1, <2>2, <2>3
<1>19. ASSUME DestroySignal PROVE Others'
  <2>d. Owner \in Threads /\ pc[Owner] # "waiting" /\ SignalAll(Owner, "join")
    BY <1>19 DEF DestroySignal
  <2>e. /\ pc'[Owner] = "join" /\ OthersWake(Owner) /\ Sleepers'
        /\ \A u \in Threads \ {Owner} :
              pc'[u] = IF pc[u] = "waiting" THEN Resume(u) ELSE pc[u]
    <3>1. "join" # "waiting"
      OBVIOUS
    <3> QED BY <2>d, <3>1, SignalAllEffect
  <2>1. Exclusion'
    BY <1>19, <1>a, <2>e
    DEF DestroySignal, OthersWake, Resume, Exclusion, Critical, Sleepers
  <2>2. Processing' /\ Shutdown'
    BY <1>19, <1>a, <2>e
    DEF DestroySignal, OthersWake, Resume, Processing, Exclusion, Critical, Shutdown
  <2>3. Sleepers' /\ FlushersAwake' /\ WorkerFirst'
    BY <1>19, <1>a, <2>e
    DEF DestroySignal, OthersWake, Resume, Sleepers, FlushersAwake, Busy, Processing, WorkerFirst
  <2>4. Delivery' /\ SnapBound'
    BY <1>19, <1>a, <2>e
    DEF DestroySignal, OthersWake, Resume, Delivery, Processing, SnapBound
  <2> QED BY <2>1, <2>2, <2>3, <2>4
<1>20. ASSUME DestroyJoin PROVE Others'
  <2>1. Exclusion' /\ Processing' /\ Shutdown'
    BY <1>20, <1>a
    DEF DestroyJoin, Goto, Exclusion, Critical, Sleepers, Processing, Shutdown
  <2>2. Sleepers' /\ FlushersAwake' /\ WorkerFirst'
    BY <1>20, <1>a
    DEF DestroyJoin, Goto, Sleepers, FlushersAwake, Busy, Processing, WorkerFirst
  <2>3. Delivery' /\ SnapBound'
    BY <1>20, <1>a
    DEF DestroyJoin, Goto, Delivery, Processing, SnapBound
  <2> QED BY <2>1, <2>2, <2>3
<1>21. ASSUME SpuriousWakeup PROVE Others'
  <2>e. /\ \A u \in Threads : pc'[u] = pc[u] \/ (pc[u] = "waiting" /\ pc'[u] = Resume(u))
        /\ Sleepers' /\ WorkerFirst'
    BY <1>21, SpuriousEffect
  <2>1. Exclusion'
    BY <1>21, <1>a, <2>e
    DEF SpuriousWakeup, Resume, Exclusion, Critical, Sleepers
  <2>2. Processing' /\ Shutdown'
    BY <1>21, <1>a, <2>e
    DEF SpuriousWakeup, Resume, Processing, Exclusion, Critical, Shutdown
  <2>3. Sleepers' /\ FlushersAwake' /\ WorkerFirst'
    BY <1>21, <1>a, <2>e
    DEF SpuriousWakeup, Resume, Sleepers, FlushersAwake, Busy, Processing, WorkerFirst
  <2>4. Delivery' /\ SnapBound'
    BY <1>21, <1>a, <2>e
    DEF SpuriousWakeup, Resume, Delivery, Processing, SnapBound
  <2> QED BY <2>1, <2>2, <2>3, <2>4
<1>22. ASSUME UNCHANGED vars PROVE Others'
  BY <1>22 DEF vars, Exclusion, Sleepers, Processing, Delivery, SnapBound, Shutdown,
       FlushersAwake, Busy, WorkerFirst
<1> QED
  BY <1>1, <1>2, <1>3, <1>4, <1>5, <1>6, <1>7, <1>8, <1>9, <1>10, <1>11, <1>12, <1>13, <1>14, <1>15, <1>16, <1>17, <1>18, <1>19, <1>20, <1>21, <1>22
  DEF Next, ClientCall, ClientLock, ClientStep, WorkerStep, OwnerStep, Terminated

-----------------------------------------------------------------------------
(* The theorems                                                            *)

\* The batcher as it is constructed satisfies the inductive invariant.
LEMMA InitIInv == ThreadsAssumption /\ SizesAssumption /\ Init => TypeInv /\ IInv
<1> SUFFICES ASSUME ThreadsAssumption, SizesAssumption, Init PROVE TypeInv /\ IInv
  OBVIOUS
<1> USE DEF ThreadsAssumption, SizesAssumption, Init, Threads
<1>1. TypeOK
  <2>1. /\ pc \in [Threads -> ClientPc \cup WorkerPc \cup OwnerPc]
        /\ \A c \in Clients : pc[c] \in ClientPc
        /\ pc[Worker] \in WorkerPc /\ pc[Owner] \in OwnerPc
    BY DEF ClientPc, WorkerPc, OwnerPc
  <2>2. pushed \in [Clients -> 0 .. MaxPushes] /\ snap \in [Clients -> Nat]
    BY SMT
  <2>3. cv \in Seq(Clients \cup {Worker}) /\ queue \in Seq(Items) /\ batch \in Seq(Items)
        /\ accepted \in Seq(Items) /\ consumed \in Seq(Items)
    BY EmptySeq
  <2> QED BY <2>1, <2>2, <2>3 DEF TypeOK
<1>1a. PushInHand
  BY DEF PushInHand
<1>2. Exclusion /\ Sleepers /\ Processing /\ Shutdown
  BY DEF Exclusion, Critical, Sleepers, Processing, Shutdown
<1>3. Delivery /\ SnapBound /\ FlushersAwake /\ WorkerFirst
  BY ConcatEmptySeq DEF Delivery, SnapBound, FlushersAwake, WorkerFirst
<1> QED BY <1>1, <1>1a, <1>2, <1>3 DEF IInv, TypeInv

LEMMA IInvStep == ThreadsAssumption /\ SizesAssumption /\ IInv /\ [Next]_vars => IInv'
<1> SUFFICES ASSUME ThreadsAssumption, SizesAssumption, IInv, [Next]_vars PROVE IInv'
  OBVIOUS
<1>1. TypeInv'
  BY TypeInvStep DEF IInv, TypeInv
<1>2. Others'
  BY <1>1, OthersStep
<1> QED BY <1>1, <1>2 DEF IInv, TypeInv, Others

(* Batcher.h, whole: in every reachable state the variables have their     *)
(* types.                                                                  *)
THEOREM TypeCorrect == Spec => []TypeOK
<1>1. Init => IInv
  BY InitIInv, ThreadsAssumption, SizesAssumption
<1>2. IInv /\ [Next]_vars => IInv'
  BY IInvStep, ThreadsAssumption, SizesAssumption
<1>3. IInv => TypeOK
  BY DEF IInv
<1> QED BY <1>1, <1>2, <1>3, PTL DEF Spec

(* The inductive invariant: mutual exclusion, the bookkeeping of n_cv and  *)
(* n_processing, the order of the items and the stages of the destructor.  *)
THEOREM Invariance == Spec => []IInv
<1>1. Init => IInv
  BY InitIInv, ThreadsAssumption, SizesAssumption
<1>2. IInv /\ [Next]_vars => IInv'
  BY IInvStep, ThreadsAssumption, SizesAssumption
<1> QED BY <1>1, <1>2, PTL DEF Spec

(* Push to consumer: no item is lost, duplicated or overtaken.             *)
THEOREM ItemsDelivered == Spec => []Delivery
<1>1. IInv => Delivery
  BY DEF IInv
<1> QED BY <1>1, Invariance, PTL

(* Flush: no client sleeps in a flush that has nothing to wait for.        *)
THEOREM FlushersNeverForgotten == Spec => []FlushersAwake
<1>1. IInv => FlushersAwake
  BY DEF IInv
<1> QED BY <1>1, Invariance, PTL

-----------------------------------------------------------------------------
(* What the inductive invariant says about the two ends of a batcher       *)

\* When nothing is queued and nothing is being consumed, all is delivered.
LEMMA IdleIsDelivered == IInv /\ ~Busy => consumed = accepted
<1> SUFFICES ASSUME IInv, ~Busy PROVE consumed = accepted
  OBVIOUS
<1>1. queue = <<>> /\ batch = <<>>
  BY DEF IInv, Busy, Processing
<1>2. consumed \in Seq(Items)
  BY DEF IInv, TypeOK
<1>3. consumed \o <<>> \o <<>> = consumed
  BY <1>2
<1> QED BY <1>1, <1>3, Zenon DEF IInv, Delivery

(* ~Batcher: a destroyed batcher has consumed everything and stopped.      *)
THEOREM DestructorDrains == Spec => []DrainedWhenDestroyed
<1>1. IInv => DrainedWhenDestroyed
  <2> SUFFICES ASSUME IInv, pc[Owner] = "destroyed"
               PROVE  pc[Worker] = "exited" /\ consumed = accepted
    BY DEF DrainedWhenDestroyed
  <2>1. pc[Worker] = "exited" /\ queue = <<>>
    BY DEF IInv, Shutdown
  <2>2. ~Busy
    BY <2>1 DEF IInv, Processing, Busy
  <2> QED BY <2>1, <2>2, IdleIsDelivered
<1> QED BY <1>1, Invariance, PTL

(* Flush: only its own return takes a client out of its check to the end   *)
(* of the call.                                                            *)
LEMMA OnlyFlushReturns ==
    ASSUME ThreadsAssumption, IInv, Next,
           NEW c \in Clients, pc[c] = "flushCheck", pc'[c] = "idle"
    PROVE  FlushReturn(c)
<1> USE DEF ThreadsAssumption, Threads
<1>0. pc \in [Threads -> ClientPc \cup WorkerPc \cup OwnerPc] /\ TypeInv /\ Sleepers
  BY DEF IInv, TypeInv, TypeOK
<1>1. ASSUME NEW d \in Clients, ClientCall(d) \/ ClientLock(d) PROVE FALSE
  BY <1>0, <1>1 DEF ClientCall, ClientLock, PushCall, FlushCall, PushLock, FlushLock, Lock, Goto
<1>2. ASSUME NEW d \in Clients, PushEnqueue(d) \/ FlushWait(d) PROVE FALSE
  BY <1>0, <1>2 DEF PushEnqueue, FlushWait, Wait, Goto
<1>3. ASSUME NEW d \in Clients, PushSignal(d) PROVE FALSE
  <2>1. OthersWake(d) /\ pc[d] = "signal"
    BY <1>0, <1>3, SignalEffect DEF PushSignal
  <2> QED BY <2>1 DEF OthersWake
<1>4. ASSUME NEW d \in Clients, FlushReturn(d) PROVE FlushReturn(c)
  BY <1>0, <1>4 DEF FlushReturn, Goto
<1>5. ASSUME WorkerLock \/ WorkerRelock \/ WorkerWait \/ WorkerDrain \/ WorkerConsume
             \/ WorkerExit PROVE FALSE
  BY <1>0, <1>5 DEF WorkerLock, WorkerRelock, WorkerWait, WorkerDrain, WorkerConsume,
       WorkerExit, Lock, Wait, Goto
<1>6. ASSUME DestroyCall \/ DestroyLock \/ DestroyStop \/ DestroyJoin PROVE FALSE
  BY <1>0, <1>6 DEF DestroyCall, DestroyLock, DestroyStop, DestroyJoin, Lock, Goto
<1>7. ASSUME NEW t \in {Worker, Owner}, NEW next, SignalAll(t, next) PROVE FALSE
  <2>1. pc'[c] = IF c \in ToSet(cv) THEN "flushLock" ELSE pc[c]
    BY <1>7 DEF SignalAll, Resume
  <2> QED BY <2>1
<1>8. ASSUME SpuriousWakeup PROVE FALSE
  BY <1>0, <1>8, SpuriousEffect
<1>9. ASSUME Terminated PROVE FALSE
  BY <1>9 DEF Terminated, vars
<1> QED
  BY <1>1, <1>2, <1>3, <1>4, <1>5, <1>6, <1>7, <1>8, <1>9
  DEF Next, ClientStep, WorkerStep, OwnerStep, WorkerFinish, DestroySignal

(* Flush: a call that returns has waited for everything accepted before it. *)
THEOREM FlushIsABarrier == Spec => FlushBarrier
<1>1. IInv /\ [Next]_vars =>
        [\A c \in Clients :
           pc[c] = "flushCheck" /\ pc'[c] = "idle" => snap[c] <= Len(consumed)]_vars
  <2> SUFFICES ASSUME IInv, Next, NEW c \in Clients, pc[c] = "flushCheck", pc'[c] = "idle"
               PROVE  snap[c] <= Len(consumed)
    BY DEF vars
  <2>1. ~Busy
    BY OnlyFlushReturns, ThreadsAssumption DEF FlushReturn
  <2> QED BY <2>1, IdleIsDelivered DEF IInv, SnapBound
<1> QED BY <1>1, Invariance, PTL DEF Spec, FlushBarrier

-----------------------------------------------------------------------------
(* The consumer is never handed too much                                   *)

\* The worker's batch is within Options::MaxBatchSize.
WithinLimit == MaxBatchSize # 0 => Len(batch) <= MaxBatchSize

(* workerLoop: the drain loop takes no more than the limit, and the        *)
(* consumer only shortens what it was handed.                              *)
LEMMA WithinLimitStep ==
    ASSUME ThreadsAssumption, SizesAssumption, IInv, WithinLimit, [Next]_vars
    PROVE  WithinLimit'
<1> USE DEF WithinLimit
<1>1. CASE WorkerDrain
  <2>1. queue \in Seq(Items) /\ Len(queue) \in Nat
    BY LenProperties DEF IInv, TypeOK
  <2>2. DrainCount \in 0 .. Len(queue)
    BY <2>1 DEF DrainCount, SizesAssumption
  <2>3. MaxBatchSize # 0 => DrainCount <= MaxBatchSize
    BY <2>1 DEF DrainCount, SizesAssumption
  <2>4. Len(batch') = DrainCount
    <3>1. Len(SubSeq(queue, 1, DrainCount)) = DrainCount
      BY <2>1, <2>2, DrainSplitsQueue
    <3> QED BY <3>1, <1>1 DEF WorkerDrain
  <2> QED BY <2>3, <2>4
<1>2. CASE WorkerConsume
  <2>1. batch \in Seq(Items) /\ batch # <<>> /\ batch' = Tail(batch)
    BY <1>2 DEF IInv, TypeOK, WorkerConsume
  <2>2. Len(batch') = Len(batch) - 1 /\ Len(batch) \in Nat
    BY <2>1
  <2> QED BY <2>2 DEF SizesAssumption
<1>3. CASE UNCHANGED batch
  BY <1>3
<1> QED
  <2>1. ASSUME NEW c \in Clients, ClientCall(c) \/ ClientLock(c) \/ ClientStep(c)
        PROVE  UNCHANGED batch
    BY <2>1 DEF ClientCall, ClientLock, ClientStep, PushCall, FlushCall, PushLock,
         FlushLock, PushEnqueue, PushSignal, FlushWait, FlushReturn
  <2>2. ASSUME WorkerLock \/ WorkerRelock \/ WorkerWait \/ WorkerFinish \/ WorkerExit
        PROVE  UNCHANGED batch
    BY <2>2 DEF WorkerLock, WorkerRelock, WorkerWait, WorkerFinish, WorkerExit
  <2>3. ASSUME DestroyCall \/ DestroyLock \/ OwnerStep PROVE UNCHANGED batch
    BY <2>3 DEF DestroyCall, DestroyLock, OwnerStep, DestroyStop, DestroySignal, DestroyJoin
  <2>4. ASSUME SpuriousWakeup \/ Terminated \/ UNCHANGED vars PROVE UNCHANGED batch
    BY <2>4 DEF SpuriousWakeup, Terminated, vars
  <2> QED BY <1>1, <1>2, <1>3, <2>1, <2>2, <2>3, <2>4 DEF Next, WorkerStep

(* workerLoop: the consumer is handed batches that are not empty and not   *)
(* larger than MaxBatchSize.                                               *)
THEOREM BatchesAreLimited == Spec => []BatchLimit
<1>1. Init => WithinLimit
  BY SizesAssumption DEF Init, WithinLimit
<1>2. IInv /\ WithinLimit /\ [Next]_vars => WithinLimit'
  BY WithinLimitStep, ThreadsAssumption, SizesAssumption
<1>3. IInv /\ WithinLimit => BatchLimit
  BY DEF IInv, Processing, WithinLimit, BatchLimit
<1> QED BY <1>1, <1>2, <1>3, Invariance, PTL DEF Spec

-----------------------------------------------------------------------------
(* The worker is never forgotten by a first-in first-out condition variable *)

(* ~Batcher, Push: a worker that sleeps although there is something to do  *)
(* is about to be signalled.                                               *)
LEMMA WorkerAwakeStep ==
    ASSUME ThreadsAssumption, FifoWake, IInv, IInv', WorkerAwake, [Next]_vars
    PROVE  WorkerAwake'
<1> USE DEF ThreadsAssumption, Threads, WorkerAwake
<1>0. /\ pc \in [Threads -> ClientPc \cup WorkerPc \cup OwnerPc] /\ TypeInv /\ Sleepers
      /\ WorkerFirst
  BY DEF IInv, TypeInv, TypeOK
<1>1. ASSUME NEW c \in Clients, ClientCall(c) \/ ClientLock(c) PROVE WorkerAwake'
  BY <1>0, <1>1 DEF ClientCall, ClientLock, PushCall, FlushCall, PushLock, FlushLock, Lock, Goto
<1>2. ASSUME NEW c \in Clients, PushEnqueue(c) PROVE WorkerAwake'
  BY <1>0, <1>2 DEF PushEnqueue, Goto
<1>3. ASSUME NEW c \in Clients, PushSignal(c) PROVE WorkerAwake'
  <2>1. /\ pc[Worker] = "waiting" => pc'[Worker] = "lock"
        /\ OthersWake(c) /\ pc[c] = "signal"
    BY <1>0, <1>3, SignalEffect DEF PushSignal
  <2> QED BY <2>1 DEF OthersWake, Resume
<1>4. ASSUME NEW c \in Clients, FlushWait(c) \/ FlushReturn(c) PROVE WorkerAwake'
  BY <1>0, <1>4 DEF FlushWait, FlushReturn, Wait, Goto
<1>5. ASSUME WorkerLock \/ WorkerRelock \/ WorkerDrain \/ WorkerConsume \/ WorkerExit
      PROVE  WorkerAwake'
  BY <1>0, <1>5 DEF WorkerLock, WorkerRelock, WorkerDrain, WorkerConsume, WorkerExit, Lock, Goto
<1>6. ASSUME WorkerWait PROVE WorkerAwake'
  BY <1>6 DEF WorkerWait
<1>7. ASSUME WorkerFinish PROVE WorkerAwake'
  BY <1>7 DEF WorkerFinish, SignalAll
<1>8. ASSUME DestroyCall \/ DestroyLock \/ DestroyStop PROVE WorkerAwake'
  BY <1>0, <1>8 DEF DestroyCall, DestroyLock, DestroyStop, Lock, Goto
<1>9. ASSUME DestroySignal PROVE WorkerAwake'
  <2>1. pc[Owner] # "waiting" /\ SignalAll(Owner, "join") /\ "join" # "waiting"
    BY <1>9 DEF DestroySignal
  <2>2. pc'[Worker] # "waiting"
    BY <1>0, <2>1, SignalAllEffect DEF Resume
  <2> QED BY <2>2
<1>10. ASSUME DestroyJoin PROVE WorkerAwake'
  BY <1>0, <1>10 DEF DestroyJoin, Goto
<1>11. ASSUME SpuriousWakeup PROVE WorkerAwake'
  <2>1. /\ \A u \in Threads : pc'[u] = pc[u] \/ (pc[u] = "waiting" /\ pc'[u] = Resume(u))
        /\ queue' = queue /\ running' = running
    BY <1>0, <1>11, SpuriousEffect DEF SpuriousWakeup
  <2> QED BY <2>1 DEF Resume
<1>12. ASSUME UNCHANGED vars PROVE WorkerAwake'
  BY <1>12 DEF vars
<1> QED
  BY <1>1, <1>2, <1>3, <1>4, <1>5, <1>6, <1>7, <1>8, <1>9, <1>10, <1>11, <1>12
  DEF Next, ClientStep, WorkerStep, OwnerStep, Terminated

(* Push and ~Batcher never leave the worker asleep with work to do, if     *)
(* Condvar::Signal wakes the longest waiter.                               *)
THEOREM WorkerNeverForgotten == ASSUME FifoWake PROVE Spec => []WorkerAwake
<1>1. Init => WorkerAwake
  BY ThreadsAssumption DEF Init, WorkerAwake, Threads
<1>2. IInv /\ IInv' /\ WorkerAwake /\ [Next]_vars => WorkerAwake'
  BY WorkerAwakeStep, ThreadsAssumption, FifoWake
<1> QED BY <1>1, <1>2, Invariance, PTL DEF Spec
=============================================================================
