---------------------------- MODULE BoundedFifo ----------------------------
(***************************************************************************)
(* What common/HdlsStatePairQueue promises its callers: a FIFO of at most  *)
(* Capacity pairs.  An enqueue is two steps, because the code stores the   *)
(* pair under the mutex and posts the resource semaphore only after it has *)
(* released it: a stored pair cannot be taken before it is published.      *)
(*                                                                         *)
(* HdlsStatePairQueue.tla implements this specification; Recorder.tla and  *)
(* Player.tla use its actions for the queue between their two threads.     *)
(***************************************************************************)
EXTENDS Naturals, Sequences

CONSTANTS Consumers,  \* the threads that dequeue
          Pairs,      \* the values that are queued (HdlsStatePair)
          NoPair,     \* what a consumer's buffer holds before its first pair
          Capacity    \* MAX_SIZE

VARIABLES items,      \* the stored pairs, oldest first
          ready,      \* how many of them are published
          got         \* got[c]: the pair that consumer c dequeued last

fifoVars == <<items, ready, got>>

TypeOK ==
  /\ items \in Seq(Pairs) /\ Len(items) <= Capacity
  /\ ready \in 0..Len(items)
  /\ got \in [Consumers -> Pairs \cup {NoPair}]

Init ==
  /\ items = <<>>
  /\ ready = 0
  /\ got = [c \in Consumers |-> NoPair]

HasSpace == Len(items) < Capacity

(* Store a pair; it blocks while the queue is full.                        *)
Put(v) ==
  /\ HasSpace
  /\ items' = Append(items, v)
  /\ UNCHANGED <<ready, got>>

(* Make one more stored pair available.                                    *)
Publish ==
  /\ ready < Len(items)
  /\ ready' = ready + 1
  /\ UNCHANGED <<items, got>>

(* Take the oldest pair; only a published one may be taken.                *)
Take(c) ==
  /\ ready > 0
  /\ got' = [got EXCEPT ![c] = Head(items)]
  /\ items' = Tail(items)
  /\ ready' = ready - 1

Next ==
  \/ \E v \in Pairs : Put(v)
  \/ Publish
  \/ \E c \in Consumers : Take(c)

Spec == Init /\ [][Next]_fifoVars
=============================================================================
