------------------------- MODULE HdlsStatePairQueue -------------------------
(***************************************************************************)
(* The circular buffer of common/HdlsStatePairQueue.c: MAX_SIZE slots, two *)
(* counting semaphores (resource: pairs to take, space: free slots) and    *)
(* the mutex g_mutex, all of which its threads go through one step at a    *)
(* time.  A step is one call on a semaphore or on the mutex, or the work   *)
(* done between two of them; the body of an operation is split where a     *)
(* second thread could see the buffer half updated if the mutex were not   *)
(* held.                                                                   *)
(*                                                                         *)
(* The semaphores and the mutex are libnx's: a counter that waits while it *)
(* is zero, and a lock with one owner.                                     *)
(***************************************************************************)
EXTENDS Naturals, Sequences, FiniteSets

CONSTANTS Producers,  \* threads that call hdlsStatePairQueueEnqueue
          Consumers,  \* threads that call hdlsStatePairQueue(Try)Dequeue
          Pairs,      \* the values of type HdlsStatePair
          NoPair,     \* the content of zeroed memory
          NoThread,   \* g_mutex when nobody owns it
          MAX_SIZE    \* the number of slots

Threads == Producers \cup Consumers

ASSUME QueueAssumption ==
  /\ IsFiniteSet(Producers) /\ IsFiniteSet(Consumers)
  /\ Producers \cap Consumers = {}
  /\ NoThread \notin Producers \cup Consumers
  /\ MAX_SIZE \in Nat \ {0}

VARIABLES
  statePair, front, rear, size,  \* the fields of HdlsStatePairQueue
  resource, space,               \* its semaphores' counts
  initialized,                   \* its flag
  g_mutex,                       \* the owner of the mutex
  pc,                            \* where each thread is
  value                          \* value[t]: the pair t enqueues or has dequeued

ring == <<statePair, front, rear, size>>
vars == <<ring, resource, space, initialized, g_mutex, pc, value>>

Slots == 0..(MAX_SIZE - 1)

(* pc "boot" is a thread about to call hdlsStatePairQueueInit, "idle" a    *)
(* thread between two operations.                                          *)
InitLabels == {"boot", "init", "initUnlock", "idle"}
EnqueueLabels == {"enqLock", "enqStore", "enqAdvance", "enqUnlock", "enqSignal"}
DequeueLabels == {"deqLock", "deqLoad", "deqAdvance", "deqSignal", "deqUnlock"}

(* Where a thread owns g_mutex.                                            *)
Critical == {"init", "initUnlock", "enqStore", "enqAdvance", "enqUnlock",
             "deqLoad", "deqAdvance", "deqSignal", "deqUnlock"}

Labels == InitLabels \cup EnqueueLabels \cup DequeueLabels

(* The number of threads that are at one of some labels.                   *)
Count(labels) == Cardinality({t \in Threads : pc[t] \in labels})

Init ==
  /\ statePair = [i \in Slots |-> NoPair]
  /\ front = 0 /\ rear = 0 /\ size = 0
  /\ resource = 0 /\ space = 0
  /\ initialized = FALSE
  /\ g_mutex = NoThread
  /\ pc = [t \in Threads |-> "boot"]
  /\ value = [t \in Threads |-> NoPair]

-----------------------------------------------------------------------------
(* The steps operations are made of.                                       *)

Goto(t, from, to) == pc[t] = from /\ pc' = [pc EXCEPT ![t] = to]

LockAlways(t) == g_mutex' = t
LockFree(t) == g_mutex = NoThread /\ g_mutex' = t

(* mutexLock(&g_mutex)                                                     *)
MutexLock(t) == LockFree(t)

(* mutexUnlock(&g_mutex)                                                   *)
MutexUnlock == g_mutex' = NoThread

(* (i + 1) % MAX_SIZE                                                      *)
NextSlot(i) == (i + 1) % MAX_SIZE

(* The count semaphoreInit(&q->space, ...) is given.                       *)
SpaceTokens == MAX_SIZE

-----------------------------------------------------------------------------
(* hdlsStatePairQueueInit: every recorder and player thread calls it when  *)
(* it starts, whatever its peer has already done.                          *)

InitLock(t) ==
  /\ Goto(t, "boot", "init")
  /\ MutexLock(t)
  /\ UNCHANGED <<ring, resource, space, initialized, value>>

ResetQueue ==
  /\ front' = 0 /\ rear' = 0 /\ size' = 0
  /\ resource' = 0 /\ space' = SpaceTokens
  /\ initialized' = TRUE
  /\ UNCHANGED statePair

(* Without the early return of a queue that is already initialised.        *)
InitUnguarded == ResetQueue

InitOnce ==
  IF initialized
    THEN UNCHANGED <<ring, resource, space, initialized>>
    ELSE ResetQueue

InitBody(t) ==
  /\ Goto(t, "init", "initUnlock")
  /\ InitOnce
  /\ UNCHANGED <<g_mutex, value>>

InitUnlock(t) ==
  /\ Goto(t, "initUnlock", "idle")
  /\ MutexUnlock
  /\ UNCHANGED <<ring, resource, space, initialized, value>>

(* The thread ends and the next session starts one in its place.           *)
Restart(t) ==
  /\ Goto(t, "idle", "boot")
  /\ UNCHANGED <<ring, resource, space, initialized, g_mutex, value>>

-----------------------------------------------------------------------------
(* hdlsStatePairQueueEnqueue                                               *)

(* semaphoreWait(&q->space): waits while no slot is free.                  *)
EnqueueWait(p, v) ==
  /\ Goto(p, "idle", "enqLock")
  /\ space > 0
  /\ space' = space - 1
  /\ value' = [value EXCEPT ![p] = v]
  /\ UNCHANGED <<ring, resource, initialized, g_mutex>>

EnqueueLock(p) ==
  /\ Goto(p, "enqLock", "enqStore")
  /\ MutexLock(p)
  /\ UNCHANGED <<ring, resource, space, initialized, value>>

EnqueueStore(p) ==
  /\ Goto(p, "enqStore", "enqAdvance")
  /\ statePair' = [statePair EXCEPT ![rear] = value[p]]
  /\ UNCHANGED <<front, rear, size, resource, space, initialized, g_mutex, value>>

EnqueueAdvance(p) ==
  /\ Goto(p, "enqAdvance", "enqUnlock")
  /\ rear' = NextSlot(rear)
  /\ size' = size + 1
  /\ UNCHANGED <<statePair, front, resource, space, initialized, g_mutex, value>>

EnqueueUnlock(p) ==
  /\ Goto(p, "enqUnlock", "enqSignal")
  /\ MutexUnlock
  /\ UNCHANGED <<ring, resource, space, initialized, value>>

(* semaphoreSignal(&q->resource), after the mutex is released.             *)
EnqueueSignal(p) ==
  /\ Goto(p, "enqSignal", "idle")
  /\ resource' = resource + 1
  /\ UNCHANGED <<ring, space, initialized, g_mutex, value>>

-----------------------------------------------------------------------------
(* hdlsStatePairQueueDequeue and hdlsStatePairQueueTryDequeue: they differ *)
(* when resource is zero, where the first waits and the second returns     *)
(* false without changing anything.                                        *)

DequeueTake(c) ==
  /\ Goto(c, "idle", "deqLock")
  /\ resource > 0
  /\ resource' = resource - 1
  /\ UNCHANGED <<ring, space, initialized, g_mutex, value>>

DequeueLock(c) ==
  /\ Goto(c, "deqLock", "deqLoad")
  /\ MutexLock(c)
  /\ UNCHANGED <<ring, resource, space, initialized, value>>

DequeueLoad(c) ==
  /\ Goto(c, "deqLoad", "deqAdvance")
  /\ value' = [value EXCEPT ![c] = statePair[front]]
  /\ UNCHANGED <<ring, resource, space, initialized, g_mutex>>

DequeueAdvance(c) ==
  /\ Goto(c, "deqAdvance", "deqSignal")
  /\ front' = NextSlot(front)
  /\ size' = size - 1
  /\ UNCHANGED <<statePair, rear, resource, space, initialized, g_mutex, value>>

NoSpaceSignal == space' = space

(* semaphoreSignal(&q->space), before the mutex is released.               *)
SpaceSignal == space' = space + 1

DequeueSignal(c) ==
  /\ Goto(c, "deqSignal", "deqUnlock")
  /\ SpaceSignal
  /\ UNCHANGED <<ring, resource, initialized, g_mutex, value>>

DequeueUnlock(c) ==
  /\ Goto(c, "deqUnlock", "idle")
  /\ MutexUnlock
  /\ UNCHANGED <<ring, resource, space, initialized, value>>

-----------------------------------------------------------------------------
InitStep(t) == InitLock(t) \/ InitBody(t) \/ InitUnlock(t)

EnqueueStep(p) ==
  \/ EnqueueLock(p) \/ EnqueueStore(p) \/ EnqueueAdvance(p)
  \/ EnqueueUnlock(p) \/ EnqueueSignal(p)

DequeueStep(c) ==
  \/ DequeueTake(c) \/ DequeueLock(c) \/ DequeueLoad(c)
  \/ DequeueAdvance(c) \/ DequeueSignal(c) \/ DequeueUnlock(c)

Next ==
  \/ \E t \in Threads : InitStep(t) \/ Restart(t)
  \/ \E p \in Producers : EnqueueStep(p) \/ \E v \in Pairs : EnqueueWait(p, v)
  \/ \E c \in Consumers : DequeueStep(c)

Spec == Init /\ [][Next]_vars

(* A thread inside a call keeps running.  A consumer keeps polling, even if *)
(* sessions end in between (recordThreadWrite and playThreadWrite end only *)
(* after a poll that found nothing).  The mutex is handed to a waiting     *)
(* thread when it is released, so a thread that waits for it is not passed *)
(* over for ever.  Nothing forces a producer to enqueue.                   *)
FairSpec ==
  /\ Spec
  /\ \A t \in Threads : WF_vars(InitStep(t)) /\ SF_vars(InitLock(t))
  /\ \A p \in Producers : WF_vars(EnqueueStep(p)) /\ SF_vars(EnqueueLock(p))
  /\ \A c \in Consumers : /\ WF_vars(DequeueStep(c))
                          /\ SF_vars(DequeueTake(c)) /\ SF_vars(DequeueLock(c))

-----------------------------------------------------------------------------
(* What the variables are, without the bounds that the semaphores enforce. *)
Typed ==
  /\ statePair \in [Slots -> Pairs \cup {NoPair}]
  /\ front \in Slots /\ rear \in Slots /\ size \in Nat
  /\ resource \in Nat /\ space \in Nat
  /\ initialized \in BOOLEAN
  /\ g_mutex \in Threads \cup {NoThread}
  /\ pc \in [Threads -> Labels]
  /\ value \in [Threads -> Pairs \cup {NoPair}]

(* Type invariant: every field stays in its range; in particular front and *)
(* rear stay inside the array and size never passes MAX_SIZE.              *)
TypeOK ==
  /\ Typed
  /\ size <= MAX_SIZE /\ resource <= MAX_SIZE /\ space <= MAX_SIZE

(* Slots reserved by a producer that has not filled them yet, slots        *)
(* emptied by a consumer that has not given them back yet.                 *)
Reserved == Count({"enqLock", "enqStore", "enqAdvance"})
Returning == Count({"deqSignal"})

(* Every slot is accounted for: it is free and counted by space, reserved, *)
(* filled and counted by size, or on its way back.                         *)
SlotsConserved == initialized => space + Reserved + size + Returning = MAX_SIZE

(* Pairs stored and not posted yet, pairs claimed and not removed yet.     *)
Posting == Count({"enqUnlock", "enqSignal"})
Claimed == Count({"deqLock", "deqLoad", "deqAdvance"})

(* Every stored pair is accounted for: resource counts it, its producer is *)
(* about to post it, or a consumer has claimed it.  When all threads are   *)
(* idle, resource is exactly the number of stored pairs, so a consumer     *)
(* that polls until TryDequeue fails has drained the queue: what           *)
(* recorder.c:129-141 and player.c:72-88 rely on.                          *)
PairsConserved == size = resource + Posting + Claimed

(* What the semaphores are for: a producer about to store finds a free     *)
(* slot and a consumer about to load finds a pair, whoever ran in between. *)
NeverOverwritesOrUnderflows ==
  /\ \A p \in Producers : pc[p] \in {"enqStore", "enqAdvance"} => size < MAX_SIZE
  /\ \A c \in Consumers : pc[c] \in {"deqLoad", "deqAdvance"} => size > 0

(* A thread is inside only the operations that are its own.                *)
Roles ==
  /\ \A p \in Producers : pc[p] \in InitLabels \cup EnqueueLabels
  /\ \A c \in Consumers : pc[c] \in InitLabels \cup DequeueLabels

(* A thread owns g_mutex exactly where the code relies on owning it.       *)
MutualExclusion == \A t \in Threads : pc[t] \in Critical <=> g_mutex = t

(* Until the first initialisation nothing can be waited for.               *)
Uninitialised ==
  ~initialized =>
    /\ size = 0 /\ resource = 0 /\ space = 0
    /\ \A t \in Threads : pc[t] \in {"boot", "init"}

(* rear is where front and size say that it is.                            *)
RearInPlace == rear = (front + size) % MAX_SIZE

(* Half-way through an operation, slot and argument agree.                 *)
SlotAgrees ==
  /\ \A p \in Producers :
       /\ pc[p] \in EnqueueLabels => value[p] \in Pairs
       /\ pc[p] = "enqAdvance" => statePair[rear] = value[p]
  /\ \A c \in Consumers : pc[c] = "deqAdvance" => value[c] = statePair[front]

(* The inductive invariant.                                                *)
Inv ==
  /\ Typed /\ Roles /\ MutualExclusion /\ Uninitialised
  /\ SlotsConserved /\ PairsConserved /\ RearInPlace /\ SlotAgrees

(* The pairs in the buffer, oldest first.  A pair that a consumer has      *)
(* copied out is no longer among them, although front still points at it.  *)
Loaded == IF \E c \in Consumers : pc[c] = "deqAdvance" THEN 1 ELSE 0

Stored ==
  [i \in 1..(size - Loaded) |-> statePair[(front + Loaded + i - 1) % MAX_SIZE]]

Published == resource + Count({"deqLock", "deqLoad"})

Fifo == INSTANCE BoundedFifo
          WITH items <- Stored, ready <- Published,
               got <- [c \in Consumers |-> value[c]], Capacity <- MAX_SIZE

(* The buffer implements the bounded FIFO: pairs come out once each, in    *)
(* the order in which they were stored, and none is lost to a second call  *)
(* of hdlsStatePairQueueInit.                                              *)
ImplementsFifo == Fifo!Spec

(* A full queue does not stay full: a recorder or player thread that waits *)
(* in hdlsStatePairQueueEnqueue is let through.                            *)
FullQueueDrains == (initialized /\ space = 0) ~> (space > 0)

(* An enqueue that was let through completes.                              *)
EnqueueCompletes == \A p \in Producers : (pc[p] = "enqLock") ~> (pc[p] = "idle")

(* Nobody waits for ever: a recording or a macro of any length gets        *)
(* through the queue.                                                      *)
QueueProgresses == FullQueueDrains /\ EnqueueCompletes

(* Why not, without reference to fairness: no wake-up is lost.  When there *)
(* is neither a free slot nor a pair to wait for successfully, and when    *)
(* anybody is inside an operation, some thread is inside one that does not *)
(* wait for g_mutex in vain.                                               *)
Inside(t) == pc[t] \notin {"boot", "idle"}
WaitsForMutex(t) == pc[t] \in {"enqLock", "deqLock"} /\ g_mutex # NoThread
NoLostWakeUp ==
  (initialized /\ space = 0 /\ resource = 0) \/ (\E t \in Threads : Inside(t))
    => \E t \in Threads : Inside(t) /\ ~WaitsForMutex(t)
=============================================================================
