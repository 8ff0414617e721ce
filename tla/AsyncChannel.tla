---------------------------- MODULE AsyncChannel ----------------------------
(***************************************************************************)
(* What an asynchronous sink promises its callers (AsyncSink.h): a record  *)
(* is taken over by the call that enqueues it, records reach the consumer  *)
(* once each and in the order they were taken over, a flush returns only   *)
(* when everything enqueued before it has been processed, and the          *)
(* destructor returns only when nothing is left to process.                *)
(*                                                                         *)
(* There is no thread, lock or batch here: Batcher implements this.        *)
(***************************************************************************)
EXTENDS Naturals, Sequences

CONSTANTS Clients,   \* the threads that enqueue and flush
          Items,     \* the records they may enqueue
          NoFlush    \* flushing[c] while c is not inside Flush: not a number

VARIABLES accepted,  \* every record taken over so far, in order
          delivered, \* those the consumer has processed, in the order it did
          flushing,  \* for each client, how many records its flush waits for
          open       \* the sink has not been destroyed

vars == <<accepted, delivered, flushing, open>>

Init ==
    /\ accepted = <<>>
    /\ delivered = <<>>
    /\ flushing = [c \in Clients |-> NoFlush]
    /\ open = TRUE

\* AsyncSink::Enqueue takes over one more record.
Accept ==
    /\ open
    /\ \E i \in Items : accepted' = Append(accepted, i)
    /\ UNCHANGED <<delivered, flushing, open>>

\* The consumer finishes the oldest record it has not processed.
Deliver ==
    /\ Len(delivered) < Len(accepted)
    /\ delivered' = Append(delivered, accepted[Len(delivered) + 1])
    /\ UNCHANGED <<accepted, flushing, open>>

\* AsyncSink::Flush is called: it owes its caller what is accepted now.
FlushCall(c) ==
    /\ open
    /\ flushing[c] = NoFlush
    /\ flushing' = [flushing EXCEPT ![c] = Len(accepted)]
    /\ UNCHANGED <<accepted, delivered, open>>

\* AsyncSink::Flush returns.
FlushReturn(c) ==
    /\ flushing[c] # NoFlush
    /\ flushing[c] <= Len(delivered)
    /\ flushing' = [flushing EXCEPT ![c] = NoFlush]
    /\ UNCHANGED <<accepted, delivered, open>>

\* AsyncSink::~AsyncSink returns.
Close ==
    /\ open
    /\ delivered = accepted
    /\ \A c \in Clients : flushing[c] = NoFlush
    /\ open' = FALSE
    /\ UNCHANGED <<accepted, delivered, flushing>>

Next ==
    \/ Accept
    \/ Deliver
    \/ Close
    \/ \E c \in Clients : FlushCall(c) \/ FlushReturn(c)

Safety == Init /\ [][Next]_vars

\* What is accepted is eventually processed, and a flush eventually returns.
Spec ==
    /\ Safety
    /\ WF_vars(Deliver)
    /\ \A c \in Clients : WF_vars(FlushReturn(c))
=============================================================================
