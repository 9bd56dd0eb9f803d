-------------------------- MODULE PairQueueProofs --------------------------
(***************************************************************************)
(* Proofs about HdlsStatePairQueue, for any numbers of threads, any pairs  *)
(* and any MAX_SIZE.  Inv is inductive; the type invariant, the two        *)
(* conservation laws and the absence of overwriting and underflow follow,  *)
(* and so does the refinement of BoundedFifo: the pairs that are stored,   *)
(* the number that is published and the consumers' buffers take the steps  *)
(* of Fifo!Spec.                                                           *)
(***************************************************************************)
EXTENDS HdlsStatePairQueue, FiniteSetTheorems, SequenceTheorems, Integers, TLAPS

-----------------------------------------------------------------------------
(* Arithmetic of (i + 1) % MAX_SIZE.                                       *)

(* Below M, a % M is a.                                                    *)
LEMMA ModSmall ==
  ASSUME NEW M \in Nat \ {0}, NEW a \in 0..(M - 1)
  PROVE  a % M = a
  BY SMT

(* Once around, a % M is a - M.                                            *)
LEMMA ModBig ==
  ASSUME NEW M \in Nat \ {0}, NEW a \in M..(2 * M - 1)
  PROVE  a % M = a - M
  BY SMT

(* NextSlot stays inside the array.                                        *)
LEMMA NextSlotInside ==
  ASSUME NEW i \in Slots
  PROVE  NextSlot(i) \in Slots /\ NextSlot(i) = IF i = MAX_SIZE - 1 THEN 0 ELSE i + 1
  <1>1. CASE i = MAX_SIZE - 1
    BY <1>1, ModBig, QueueAssumption DEF NextSlot, Slots, QueueAssumption
  <1>2. CASE i # MAX_SIZE - 1
    BY <1>2, ModSmall, QueueAssumption DEF NextSlot, Slots, QueueAssumption
  <1>3. QED BY <1>1, <1>2

(* The slot n places behind i.                                             *)
LEMMA SlotAt ==
  ASSUME NEW i \in Slots, NEW n \in 0..MAX_SIZE
  PROVE  (i + n) % MAX_SIZE = IF i + n < MAX_SIZE THEN i + n ELSE i + n - MAX_SIZE
  <1>1. CASE i + n < MAX_SIZE
    BY <1>1, ModSmall, QueueAssumption DEF Slots, QueueAssumption
  <1>2. CASE i + n >= MAX_SIZE
    BY <1>2, ModBig, QueueAssumption DEF Slots, QueueAssumption
  <1>3. QED BY <1>1, <1>2, QueueAssumption DEF Slots, QueueAssumption

(* The rear advances with size ...                                         *)
LEMMA RearAdvances ==
  ASSUME NEW i \in Slots, NEW n \in 0..(MAX_SIZE - 1)
  PROVE  NextSlot((i + n) % MAX_SIZE) = (i + (n + 1)) % MAX_SIZE
  <1>1. n \in 0..MAX_SIZE /\ n + 1 \in 0..MAX_SIZE
    BY QueueAssumption DEF QueueAssumption
  <1>2. (i + n) % MAX_SIZE = IF i + n < MAX_SIZE THEN i + n ELSE i + n - MAX_SIZE
    BY <1>1, SlotAt
  <1>3. (i + (n + 1)) % MAX_SIZE =
          IF i + (n + 1) < MAX_SIZE THEN i + (n + 1) ELSE i + (n + 1) - MAX_SIZE
    BY <1>1, SlotAt
  <1>4. (i + n) % MAX_SIZE \in Slots
    BY <1>2, QueueAssumption DEF Slots, QueueAssumption
  <1> DEFINE j == (i + n) % MAX_SIZE
  <1>5. NextSlot(j) = IF j = MAX_SIZE - 1 THEN 0 ELSE j + 1
    BY <1>4, NextSlotInside
  <1>6. QED BY <1>2, <1>3, <1>5, QueueAssumption DEF Slots, QueueAssumption

(* ... and stays where it is when front advances and size shrinks.         *)
LEMMA FrontAdvances ==
  ASSUME NEW i \in Slots, NEW n \in 1..MAX_SIZE
  PROVE  (NextSlot(i) + (n - 1)) % MAX_SIZE = (i + n) % MAX_SIZE
  <1> DEFINE j == NextSlot(i)
  <1>1. j \in Slots /\ j = IF i = MAX_SIZE - 1 THEN 0 ELSE i + 1
    BY NextSlotInside
  <1>2. n \in 0..MAX_SIZE /\ n - 1 \in 0..MAX_SIZE
    BY QueueAssumption DEF QueueAssumption
  <1>3. (i + n) % MAX_SIZE = IF i + n < MAX_SIZE THEN i + n ELSE i + n - MAX_SIZE
    BY <1>2, SlotAt
  <1> HIDE DEF j
  <1>4. (j + (n - 1)) % MAX_SIZE =
          IF j + (n - 1) < MAX_SIZE THEN j + (n - 1) ELSE j + (n - 1) - MAX_SIZE
    BY <1>1, <1>2, SlotAt
  <1>5. (j + (n - 1)) % MAX_SIZE = (i + n) % MAX_SIZE
    BY <1>1, <1>3, <1>4, QueueAssumption DEF Slots, QueueAssumption
  <1>6. QED BY <1>5 DEF j

-----------------------------------------------------------------------------
(* Counting threads.                                                       *)

(* There are finitely many threads at any labels.                          *)
LEMMA ThreadsFinite ==
  /\ IsFiniteSet(Threads)
  /\ \A labels : IsFiniteSet({t \in Threads : pc[t] \in labels})
  <1>1. IsFiniteSet(Threads)
    BY FS_Union, QueueAssumption DEF Threads, QueueAssumption
  <1>2. QED BY <1>1, FS_Subset

(* A count is a natural number, and positive where a thread is.            *)
LEMMA CountType ==
  ASSUME NEW labels
  PROVE  /\ Count(labels) \in Nat
         /\ \A t \in Threads : pc[t] \in labels => Count(labels) > 0
  <1> DEFINE A == {t \in Threads : pc[t] \in labels}
  <1>1. IsFiniteSet(A) /\ Cardinality(A) \in Nat
    BY ThreadsFinite, FS_CardinalityType
  <1>2. Cardinality(A) = 0 <=> A = {}
    BY <1>1, FS_EmptySet
  <1>3. QED BY <1>1, <1>2 DEF Count

(* The four counts of the conservation laws are natural numbers.           *)
LEMMA CountTypes ==
  /\ Reserved \in Nat /\ Returning \in Nat /\ Posting \in Nat /\ Claimed \in Nat
  BY CountType DEF Reserved, Returning, Posting, Claimed

(* How a step of one thread changes a count.                               *)
LEMMA CountChanges ==
  ASSUME Typed, NEW t \in Threads, NEW a, NEW b, Goto(t, a, b), NEW labels
  PROVE  Count(labels)' = Count(labels) + (IF b \in labels THEN 1 ELSE 0)
                                        - (IF a \in labels THEN 1 ELSE 0)
  <1> DEFINE A == {u \in Threads : pc[u] \in labels}
             B == {u \in Threads : pc'[u] \in labels}
  <1>1. IsFiniteSet(A) /\ Cardinality(A) \in Nat
    BY ThreadsFinite, FS_CardinalityType
  <1>2. pc[t] = a /\ pc' = [pc EXCEPT ![t] = b] /\ pc \in [Threads -> Labels]
    BY DEF Goto, Typed
  <1>3. \A u \in Threads : pc'[u] = IF u = t THEN b ELSE pc[u]
    BY <1>2
  <1>4. CASE (a \in labels) <=> (b \in labels)
    <2>1. B = A BY <1>2, <1>3, <1>4
    <2>2. Count(labels)' = Count(labels) BY <2>1 DEF Count
    <2>3. QED BY <1>1, <1>4, <2>2 DEF Count
  <1>5. CASE a \notin labels /\ b \in labels
    <2>1. B = A \cup {t} /\ t \notin A BY <1>2, <1>3, <1>5
    <2>2. Cardinality(B) = Cardinality(A) + 1 BY <1>1, <2>1, FS_AddElement
    <2>3. QED BY <1>1, <1>5, <2>2 DEF Count
  <1>6. CASE a \in labels /\ b \notin labels
    <2>1. B = A \ {t} /\ t \in A BY <1>2, <1>3, <1>6
    <2>2. Cardinality(B) = Cardinality(A) - 1 BY <1>1, <2>1, FS_RemoveElement
    <2>3. QED BY <1>1, <1>6, <2>2 DEF Count
  <1>7. QED BY <1>4, <1>5, <1>6

(* The changes of the four counts.                                         *)
LEMMA CountsChange ==
  ASSUME Typed, NEW t \in Threads, NEW a, NEW b, Goto(t, a, b)
  PROVE  /\ Reserved' = Reserved
              + (IF b \in {"enqLock", "enqStore", "enqAdvance"} THEN 1 ELSE 0)
              - (IF a \in {"enqLock", "enqStore", "enqAdvance"} THEN 1 ELSE 0)
         /\ Returning' = Returning + (IF b \in {"deqSignal"} THEN 1 ELSE 0)
                                  - (IF a \in {"deqSignal"} THEN 1 ELSE 0)
         /\ Posting' = Posting + (IF b \in {"enqUnlock", "enqSignal"} THEN 1 ELSE 0)
                              - (IF a \in {"enqUnlock", "enqSignal"} THEN 1 ELSE 0)
         /\ Claimed' = Claimed
              + (IF b \in {"deqLock", "deqLoad", "deqAdvance"} THEN 1 ELSE 0)
              - (IF a \in {"deqLock", "deqLoad", "deqAdvance"} THEN 1 ELSE 0)
  BY CountChanges DEF Reserved, Returning, Posting, Claimed

(* Nobody is at labels that no thread is at.                               *)
LEMMA CountZero ==
  ASSUME NEW labels, \A t \in Threads : pc[t] \notin labels
  PROVE  Count(labels) = 0
  <1>1. {t \in Threads : pc[t] \in labels} = {} OBVIOUS
  <1>2. QED BY <1>1, FS_EmptySet DEF Count

-----------------------------------------------------------------------------
(* What moving one thread does to the parts of Inv that are about pc.      *)

(* pc after a step.                                                        *)
LEMMA PcAfter ==
  ASSUME Typed, NEW t \in Threads, NEW a, NEW b \in Labels, Goto(t, a, b)
  PROVE  /\ pc[t] = a
         /\ pc' \in [Threads -> Labels]
         /\ \A u \in Threads : pc'[u] = IF u = t THEN b ELSE pc[u]
  BY DEF Typed, Goto

(* A producer keeps to its labels if it goes to one of them.               *)
LEMMA RolesKept ==
  ASSUME Typed, Roles, NEW t \in Threads, NEW a, NEW b \in Labels, Goto(t, a, b),
         t \in Producers => b \in InitLabels \cup EnqueueLabels,
         t \in Consumers => b \in InitLabels \cup DequeueLabels
  PROVE  Roles'
  BY PcAfter DEF Roles, Threads

(* The mutex: taken on entry to the critical section, kept inside, given   *)
(* back on exit.                                                           *)
LEMMA MutexKept ==
  ASSUME Typed, MutualExclusion,
         NEW t \in Threads, NEW a, NEW b \in Labels, Goto(t, a, b),
         \/ a \notin Critical /\ b \in Critical /\ MutexLock(t)
         \/ a \in Critical /\ b \notin Critical /\ MutexUnlock
         \/ (a \in Critical <=> b \in Critical) /\ g_mutex' = g_mutex
  PROVE  MutualExclusion'
  <1>1. NoThread \notin Threads
    BY QueueAssumption DEF QueueAssumption, Threads
  <1>2. /\ pc[t] = a
        /\ \A u \in Threads : pc'[u] = IF u = t THEN b ELSE pc[u]
    BY PcAfter
  <1>3. CASE a \notin Critical /\ b \in Critical /\ MutexLock(t)
    BY <1>1, <1>2, <1>3 DEF MutualExclusion, MutexLock, LockFree
  <1>4. CASE a \in Critical /\ b \notin Critical /\ MutexUnlock
    BY <1>1, <1>2, <1>4 DEF MutualExclusion, MutexUnlock
  <1>5. CASE (a \in Critical <=> b \in Critical) /\ g_mutex' = g_mutex
    BY <1>2, <1>5 DEF MutualExclusion
  <1>6. QED BY <1>3, <1>4, <1>5

(* Inside an operation the queue has been initialised.                     *)
LEMMA InitialisedInside ==
  ASSUME Uninitialised, NEW t \in Threads, pc[t] \notin {"boot", "init"}
  PROVE  initialized
  BY DEF Uninitialised

-----------------------------------------------------------------------------
(* Inv holds initially.                                                    *)
LEMMA InvInit == Init => Inv
  <1> SUFFICES ASSUME Init PROVE Inv OBVIOUS
  <1>1. Typed
    <2>1. 0 \in Slots BY QueueAssumption DEF Slots, QueueAssumption
    <2>2. "boot" \in Labels BY DEF Labels, InitLabels
    <2>3. QED BY <2>1, <2>2 DEF Init, Typed
  <1>2. Roles /\ MutualExclusion /\ Uninitialised /\ SlotAgrees
    BY QueueAssumption
    DEF Init, Roles, MutualExclusion, Uninitialised, SlotAgrees, InitLabels,
        EnqueueLabels, Critical, Threads, QueueAssumption
  <1>3. SlotsConserved BY DEF Init, SlotsConserved
  <1>4. Posting = 0 /\ Claimed = 0
    BY CountZero DEF Init, Posting, Claimed
  <1>5. PairsConserved BY <1>4 DEF Init, PairsConserved
  <1>6. RearInPlace
    <2>1. 0 \in Slots /\ 0 \in 0..MAX_SIZE /\ 0 < MAX_SIZE
      BY QueueAssumption DEF Slots, QueueAssumption
    <2>2. (0 + 0) % MAX_SIZE = 0 BY <2>1, SlotAt
    <2>3. QED BY <2>2 DEF Init, RearInPlace
  <1>7. QED BY <1>1, <1>2, <1>3, <1>5, <1>6 DEF Inv

-----------------------------------------------------------------------------
(* Inv is kept: one lemma for each action.  Steps <1>1 to <1>3 say which   *)
(* thread moves where; then one step for each part of Inv.                 *)

(* Locking for the initialisation keeps Inv.                               *)
LEMMA InitLockKeepsInv ==
  ASSUME Inv, NEW t \in Threads, InitLock(t)
  PROVE  Inv'
  <1> USE DEF Inv
  <1>1. Goto(t, "boot", "init") /\ "init" \in Labels
    BY DEF InitLock, Labels, InitLabels
  <1>2. Typed'
    BY PcAfter, <1>1 DEF InitLock, Typed, MutexLock, LockFree, ring
  <1>3. Roles' /\ MutualExclusion'
    BY <1>1, RolesKept, MutexKept DEF InitLock, InitLabels, Critical
  <1>4. Uninitialised'
    BY <1>1, PcAfter DEF InitLock, Uninitialised, ring
  <1>5. SlotsConserved' /\ PairsConserved'
    BY <1>1, CountsChange, CountTypes
    DEF InitLock, SlotsConserved, PairsConserved, ring, Typed
  <1>6. RearInPlace'
    BY DEF InitLock, RearInPlace, ring
  <1>7. SlotAgrees'
    BY <1>1, PcAfter DEF InitLock, SlotAgrees, ring, EnqueueLabels, Threads
  <1>8. QED BY <1>2, <1>3, <1>4, <1>5, <1>6, <1>7

(* The initialisation, done or found to be done, keeps Inv.                *)
LEMMA InitBodyKeepsInv ==
  ASSUME Inv, NEW t \in Threads, InitBody(t)
  PROVE  Inv'
  <1> USE DEF Inv
  <1>1. Goto(t, "init", "initUnlock") /\ "initUnlock" \in Labels
    BY DEF InitBody, Labels, InitLabels
  <1>2. CASE initialized
    <2>1. UNCHANGED <<ring, resource, space, initialized, value, g_mutex>>
      BY <1>2 DEF InitBody, InitOnce
    <2>2. Typed'
      BY <2>1, <1>1, PcAfter DEF Typed, ring
    <2>3. Roles' /\ MutualExclusion'
      BY <2>1, <1>1, RolesKept, MutexKept DEF InitLabels, Critical
    <2>4. Uninitialised' /\ RearInPlace'
      BY <1>2, <2>1 DEF Uninitialised, RearInPlace, ring
    <2>5. SlotsConserved' /\ PairsConserved'
      BY <2>1, <1>1, CountsChange, CountTypes DEF SlotsConserved, PairsConserved, ring, Typed
    <2>6. SlotAgrees'
      BY <2>1, <1>1, PcAfter DEF SlotAgrees, ring, EnqueueLabels, Threads
    <2>7. QED BY <2>2, <2>3, <2>4, <2>5, <2>6
  <1>3. CASE ~initialized
    <2>1. /\ front' = 0 /\ rear' = 0 /\ size' = 0 /\ resource' = 0
          /\ space' = MAX_SIZE /\ initialized' = TRUE
          /\ UNCHANGED <<statePair, value, g_mutex>>
      BY <1>3 DEF InitBody, InitOnce, ResetQueue, SpaceTokens
    <2>2. \A u \in Threads : pc[u] \in {"boot", "init"}
      BY <1>3 DEF Uninitialised
    <2>3. Typed'
      BY <2>1, <1>1, PcAfter, QueueAssumption DEF Typed, Slots, QueueAssumption
    <2>4. Roles' /\ MutualExclusion'
      BY <2>1, <1>1, RolesKept, MutexKept DEF InitLabels, Critical
    <2>5. Uninitialised'
      BY <2>1 DEF Uninitialised
    <2>6. SlotsConserved' /\ PairsConserved'
      <3>1. Reserved = 0 /\ Returning = 0 /\ Posting = 0 /\ Claimed = 0
        BY <2>2, CountZero DEF Reserved, Returning, Posting, Claimed
      <3>2. Reserved' = 0 /\ Returning' = 0 /\ Posting' = 0 /\ Claimed' = 0
        BY <3>1, <1>1, CountsChange
      <3>3. QED BY <3>2, <2>1, QueueAssumption
                DEF SlotsConserved, PairsConserved, QueueAssumption
    <2>7. RearInPlace'
      <3>1. 0 \in Slots /\ 0 \in 0..MAX_SIZE /\ 0 < MAX_SIZE
        BY QueueAssumption DEF Slots, QueueAssumption
      <3>2. (0 + 0) % MAX_SIZE = 0 BY <3>1, SlotAt
      <3>3. QED BY <3>2, <2>1 DEF RearInPlace
    <2>8. SlotAgrees'
      BY <2>2, <1>1, PcAfter DEF SlotAgrees, EnqueueLabels, Threads
    <2>9. QED BY <2>3, <2>4, <2>5, <2>6, <2>7, <2>8
  <1>4. QED BY <1>2, <1>3

(* Leaving the initialisation keeps Inv.                                   *)
LEMMA InitUnlockKeepsInv ==
  ASSUME Inv, NEW t \in Threads, InitUnlock(t)
  PROVE  Inv'
  <1> USE DEF Inv
  <1>1. Goto(t, "initUnlock", "idle") /\ "idle" \in Labels
    BY DEF InitUnlock, Labels, InitLabels
  <1>2. Typed'
    BY <1>1, PcAfter DEF InitUnlock, Typed, ring, MutexUnlock
  <1>3. Roles' /\ MutualExclusion'
    BY <1>1, RolesKept, MutexKept, QueueAssumption
    DEF InitUnlock, InitLabels, EnqueueLabels, DequeueLabels, Critical, QueueAssumption, ring
  <1>4. Uninitialised'
    BY <1>1, PcAfter DEF InitUnlock, Uninitialised, ring
  <1>5. /\ Reserved' = Reserved /\ Returning' = Returning
        /\ Posting' = Posting /\ Claimed' = Claimed
    BY <1>1, CountsChange, CountTypes
  <1>6. SlotsConserved' /\ PairsConserved'
    BY <1>5, CountTypes DEF InitUnlock, SlotsConserved, PairsConserved, Typed, ring
  <1>7. RearInPlace'
    BY DEF InitUnlock, RearInPlace, ring
  <1>8. SlotAgrees'
    BY <1>1, PcAfter, QueueAssumption
    DEF InitUnlock, SlotAgrees, ring, InitLabels, EnqueueLabels, DequeueLabels, Threads,
        Roles, Typed, QueueAssumption
  <1>9. QED BY <1>2, <1>3, <1>4, <1>6, <1>7, <1>8

(* A new session's thread in the place of an old one keeps Inv.            *)
LEMMA RestartKeepsInv ==
  ASSUME Inv, NEW t \in Threads, Restart(t)
  PROVE  Inv'
  <1> USE DEF Inv
  <1>1. Goto(t, "idle", "boot") /\ "boot" \in Labels
    BY DEF Restart, Labels, InitLabels
  <1>2. Typed'
    BY <1>1, PcAfter DEF Restart, Typed, ring
  <1>3. Roles' /\ MutualExclusion'
    BY <1>1, RolesKept, MutexKept, QueueAssumption
    DEF Restart, InitLabels, EnqueueLabels, DequeueLabels, Critical, QueueAssumption, ring
  <1>4. Uninitialised'
    BY <1>1, PcAfter DEF Restart, Uninitialised, ring
  <1>5. /\ Reserved' = Reserved /\ Returning' = Returning
        /\ Posting' = Posting /\ Claimed' = Claimed
    BY <1>1, CountsChange, CountTypes
  <1>6. SlotsConserved' /\ PairsConserved'
    BY <1>5, CountTypes DEF Restart, SlotsConserved, PairsConserved, Typed, ring
  <1>7. RearInPlace'
    BY DEF Restart, RearInPlace, ring
  <1>8. SlotAgrees'
    BY <1>1, PcAfter, QueueAssumption
    DEF Restart, SlotAgrees, ring, InitLabels, EnqueueLabels, DequeueLabels, Threads,
        Roles, Typed, QueueAssumption
  <1>9. QED BY <1>2, <1>3, <1>4, <1>6, <1>7, <1>8

(* Reserving a slot keeps Inv.                                             *)
LEMMA EnqueueWaitKeepsInv ==
  ASSUME Inv, NEW p \in Producers, NEW v \in Pairs, EnqueueWait(p, v)
  PROVE  Inv'
  <1> USE DEF Inv
  <1>0. p \in Threads BY DEF Threads
  <1>1. Goto(p, "idle", "enqLock") /\ "enqLock" \in Labels
    BY DEF EnqueueWait, Labels, EnqueueLabels
  <1>2. Typed'
    BY <1>0, <1>1, PcAfter DEF EnqueueWait, Typed, ring
  <1>3. Roles' /\ MutualExclusion'
    BY <1>0, <1>1, RolesKept, MutexKept, QueueAssumption
    DEF EnqueueWait, InitLabels, EnqueueLabels, DequeueLabels, Critical, QueueAssumption, ring
  <1>4. Uninitialised'
    BY <1>0, <1>1, PcAfter DEF EnqueueWait, Uninitialised, ring
  <1>5. /\ Reserved' = Reserved + 1 /\ Returning' = Returning
        /\ Posting' = Posting /\ Claimed' = Claimed
    BY <1>0, <1>1, CountsChange, CountTypes
  <1>6. SlotsConserved' /\ PairsConserved'
    BY <1>5, CountTypes DEF EnqueueWait, SlotsConserved, PairsConserved, Typed, ring
  <1>7. RearInPlace'
    BY DEF EnqueueWait, RearInPlace, ring
  <1>8. SlotAgrees'
    BY <1>0, <1>1, PcAfter, QueueAssumption
    DEF EnqueueWait, SlotAgrees, ring, InitLabels, EnqueueLabels, DequeueLabels, Threads,
        Roles, Typed, QueueAssumption
  <1>9. QED BY <1>2, <1>3, <1>4, <1>6, <1>7, <1>8

(* A producer's lock keeps Inv.                                            *)
LEMMA EnqueueLockKeepsInv ==
  ASSUME Inv, NEW p \in Producers, EnqueueLock(p)
  PROVE  Inv'
  <1> USE DEF Inv
  <1>0. p \in Threads BY DEF Threads
  <1>1. Goto(p, "enqLock", "enqStore") /\ "enqStore" \in Labels
    BY DEF EnqueueLock, Labels, EnqueueLabels
  <1>2. Typed'
    BY <1>0, <1>1, PcAfter DEF EnqueueLock, Typed, ring, MutexLock, LockFree
  <1>3. Roles' /\ MutualExclusion'
    BY <1>0, <1>1, RolesKept, MutexKept, QueueAssumption
    DEF EnqueueLock, InitLabels, EnqueueLabels, DequeueLabels, Critical, QueueAssumption, ring
  <1>4. Uninitialised'
    BY <1>0, <1>1, PcAfter DEF EnqueueLock, Uninitialised, ring
  <1>5. /\ Reserved' = Reserved /\ Returning' = Returning
        /\ Posting' = Posting /\ Claimed' = Claimed
    BY <1>0, <1>1, CountsChange, CountTypes
  <1>6. SlotsConserved' /\ PairsConserved'
    BY <1>5, CountTypes DEF EnqueueLock, SlotsConserved, PairsConserved, Typed, ring
  <1>7. RearInPlace'
    BY DEF EnqueueLock, RearInPlace, ring
  <1>8. SlotAgrees'
    BY <1>0, <1>1, PcAfter, QueueAssumption
    DEF EnqueueLock, SlotAgrees, ring, InitLabels, EnqueueLabels, DequeueLabels, Threads,
        Roles, Typed, QueueAssumption
  <1>9. QED BY <1>2, <1>3, <1>4, <1>6, <1>7, <1>8

(* Filling the reserved slot keeps Inv.                                    *)
LEMMA EnqueueStoreKeepsInv ==
  ASSUME Inv, NEW p \in Producers, EnqueueStore(p)
  PROVE  Inv'
  <1> USE DEF Inv
  <1>0. p \in Threads BY DEF Threads
  <1>1. Goto(p, "enqStore", "enqAdvance") /\ "enqAdvance" \in Labels
    BY DEF EnqueueStore, Labels, EnqueueLabels
  <1>2. Typed'
    BY <1>0, <1>1, PcAfter DEF EnqueueStore, Typed, ring
  <1>3. Roles' /\ MutualExclusion'
    BY <1>0, <1>1, RolesKept, MutexKept, QueueAssumption
    DEF EnqueueStore, InitLabels, EnqueueLabels, DequeueLabels, Critical, QueueAssumption, ring
  <1>4. Uninitialised'
    BY <1>0, <1>1, PcAfter DEF EnqueueStore, Uninitialised, ring
  <1>5. /\ Reserved' = Reserved /\ Returning' = Returning
        /\ Posting' = Posting /\ Claimed' = Claimed
    BY <1>0, <1>1, CountsChange, CountTypes
  <1>6. SlotsConserved' /\ PairsConserved'
    BY <1>5, CountTypes DEF EnqueueStore, SlotsConserved, PairsConserved, Typed, ring
  <1>7. RearInPlace'
    BY DEF EnqueueStore, RearInPlace, ring
  <1>8. SlotAgrees'
    <2>1. \A u \in Threads : u # p => pc'[u] \notin Critical
      BY <1>0, <1>1, PcAfter DEF MutualExclusion, Critical
    <2>2. QED BY <2>1, <1>0, <1>1, PcAfter, QueueAssumption
              DEF EnqueueStore, SlotAgrees, EnqueueLabels, DequeueLabels, Critical, Threads,
                  Typed, QueueAssumption
  <1>9. QED BY <1>2, <1>3, <1>4, <1>6, <1>7, <1>8

(* Advancing rear and size keeps Inv.                                      *)
LEMMA EnqueueAdvanceKeepsInv ==
  ASSUME Inv, NEW p \in Producers, EnqueueAdvance(p)
  PROVE  Inv'
  <1> USE DEF Inv
  <1>0. p \in Threads BY DEF Threads
  <1>1. Goto(p, "enqAdvance", "enqUnlock") /\ "enqUnlock" \in Labels
    BY DEF EnqueueAdvance, Labels, EnqueueLabels
  <1>2. Typed'
    BY <1>0, <1>1, PcAfter, NextSlotInside DEF EnqueueAdvance, Typed, ring, Slots
  <1>3. Roles' /\ MutualExclusion'
    BY <1>0, <1>1, RolesKept, MutexKept, QueueAssumption
    DEF EnqueueAdvance, InitLabels, EnqueueLabels, DequeueLabels, Critical, QueueAssumption, ring
  <1>4. Uninitialised'
    BY <1>0, <1>1, PcAfter DEF EnqueueAdvance, Uninitialised, ring
  <1>5. /\ Reserved' = Reserved - 1 /\ Returning' = Returning
        /\ Posting' = Posting + 1 /\ Claimed' = Claimed
    BY <1>0, <1>1, CountsChange, CountTypes
  <1>6. SlotsConserved' /\ PairsConserved'
    BY <1>5, CountTypes DEF EnqueueAdvance, SlotsConserved, PairsConserved, Typed, ring
  <1>7. RearInPlace'
    <2>1. size < MAX_SIZE
      <3>1. Reserved > 0 BY <1>0, <1>1, CountType DEF Reserved, Goto
      <3>2. initialized BY <1>0, <1>1, InitialisedInside DEF Goto
      <3>3. QED BY <3>1, <3>2, CountTypes, QueueAssumption
                DEF SlotsConserved, Typed, QueueAssumption
    <2>2. front \in Slots /\ size \in 0..(MAX_SIZE - 1)
      BY <2>1, QueueAssumption DEF Typed, QueueAssumption
    <2>3. NextSlot(rear) = (front + (size + 1)) % MAX_SIZE
      BY <2>2, RearAdvances DEF RearInPlace
    <2>4. QED BY <2>3 DEF EnqueueAdvance, RearInPlace
  <1>8. SlotAgrees'
    <2>1. \A u \in Threads : u # p => pc'[u] \notin Critical
      BY <1>0, <1>1, PcAfter DEF MutualExclusion, Critical
    <2>2. QED BY <2>1, <1>0, <1>1, PcAfter, QueueAssumption
              DEF EnqueueAdvance, SlotAgrees, EnqueueLabels, DequeueLabels, Critical, Threads,
                  Typed, QueueAssumption
  <1>9. QED BY <1>2, <1>3, <1>4, <1>6, <1>7, <1>8

(* A producer's unlock keeps Inv.                                          *)
LEMMA EnqueueUnlockKeepsInv ==
  ASSUME Inv, NEW p \in Producers, EnqueueUnlock(p)
  PROVE  Inv'
  <1> USE DEF Inv
  <1>0. p \in Threads BY DEF Threads
  <1>1. Goto(p, "enqUnlock", "enqSignal") /\ "enqSignal" \in Labels
    BY DEF EnqueueUnlock, Labels, EnqueueLabels
  <1>2. Typed'
    BY <1>0, <1>1, PcAfter DEF EnqueueUnlock, Typed, ring, MutexUnlock
  <1>3. Roles' /\ MutualExclusion'
    BY <1>0, <1>1, RolesKept, MutexKept, QueueAssumption
    DEF EnqueueUnlock, InitLabels, EnqueueLabels, DequeueLabels, Critical, QueueAssumption, ring
  <1>4. Uninitialised'
    BY <1>0, <1>1, PcAfter DEF EnqueueUnlock, Uninitialised, ring
  <1>5. /\ Reserved' = Reserved /\ Returning' = Returning
        /\ Posting' = Posting /\ Claimed' = Claimed
    BY <1>0, <1>1, CountsChange, CountTypes
  <1>6. SlotsConserved' /\ PairsConserved'
    BY <1>5, CountTypes DEF EnqueueUnlock, SlotsConserved, PairsConserved, Typed, ring
  <1>7. RearInPlace'
    BY DEF EnqueueUnlock, RearInPlace, ring
  <1>8. SlotAgrees'
    BY <1>0, <1>1, PcAfter, QueueAssumption
    DEF EnqueueUnlock, SlotAgrees, ring, InitLabels, EnqueueLabels, DequeueLabels, Threads,
        Roles, Typed, QueueAssumption
  <1>9. QED BY <1>2, <1>3, <1>4, <1>6, <1>7, <1>8

(* Publishing the pair keeps Inv.                                          *)
LEMMA EnqueueSignalKeepsInv ==
  ASSUME Inv, NEW p \in Producers, EnqueueSignal(p)
  PROVE  Inv'
  <1> USE DEF Inv
  <1>0. p \in Threads BY DEF Threads
  <1>1. Goto(p, "enqSignal", "idle") /\ "idle" \in Labels
    BY DEF EnqueueSignal, Labels, InitLabels
  <1>2. Typed'
    BY <1>0, <1>1, PcAfter DEF EnqueueSignal, Typed, ring
  <1>3. Roles' /\ MutualExclusion'
    BY <1>0, <1>1, RolesKept, MutexKept, QueueAssumption
    DEF EnqueueSignal, InitLabels, EnqueueLabels, DequeueLabels, Critical, QueueAssumption, ring
  <1>4. Uninitialised'
    BY <1>0, <1>1, PcAfter DEF EnqueueSignal, Uninitialised, ring
  <1>5. /\ Reserved' = Reserved /\ Returning' = Returning
        /\ Posting' = Posting - 1 /\ Claimed' = Claimed
    BY <1>0, <1>1, CountsChange, CountTypes
  <1>6. SlotsConserved' /\ PairsConserved'
    BY <1>5, CountTypes DEF EnqueueSignal, SlotsConserved, PairsConserved, Typed, ring
  <1>7. RearInPlace'
    BY DEF EnqueueSignal, RearInPlace, ring
  <1>8. SlotAgrees'
    BY <1>0, <1>1, PcAfter, QueueAssumption
    DEF EnqueueSignal, SlotAgrees, ring, InitLabels, EnqueueLabels, DequeueLabels, Threads,
        Roles, Typed, QueueAssumption
  <1>9. QED BY <1>2, <1>3, <1>4, <1>6, <1>7, <1>8

(* Claiming a pair keeps Inv.                                              *)
LEMMA DequeueTakeKeepsInv ==
  ASSUME Inv, NEW c \in Consumers, DequeueTake(c)
  PROVE  Inv'
  <1> USE DEF Inv
  <1>0. c \in Threads BY DEF Threads
  <1>1. Goto(c, "idle", "deqLock") /\ "deqLock" \in Labels
    BY DEF DequeueTake, Labels, DequeueLabels
  <1>2. Typed'
    BY <1>0, <1>1, PcAfter DEF DequeueTake, Typed, ring
  <1>3. Roles' /\ MutualExclusion'
    BY <1>0, <1>1, RolesKept, MutexKept, QueueAssumption
    DEF DequeueTake, InitLabels, EnqueueLabels, DequeueLabels, Critical, QueueAssumption, ring
  <1>4. Uninitialised'
    BY <1>0, <1>1, PcAfter DEF DequeueTake, Uninitialised, ring
  <1>5. /\ Reserved' = Reserved /\ Returning' = Returning
        /\ Posting' = Posting /\ Claimed' = Claimed + 1
    BY <1>0, <1>1, CountsChange, CountTypes
  <1>6. SlotsConserved' /\ PairsConserved'
    BY <1>5, CountTypes DEF DequeueTake, SlotsConserved, PairsConserved, Typed, ring
  <1>7. RearInPlace'
    BY DEF DequeueTake, RearInPlace, ring
  <1>8. SlotAgrees'
    BY <1>0, <1>1, PcAfter, QueueAssumption
    DEF DequeueTake, SlotAgrees, ring, InitLabels, EnqueueLabels, DequeueLabels, Threads,
        Roles, Typed, QueueAssumption
  <1>9. QED BY <1>2, <1>3, <1>4, <1>6, <1>7, <1>8

(* A consumer's lock keeps Inv.                                            *)
LEMMA DequeueLockKeepsInv ==
  ASSUME Inv, NEW c \in Consumers, DequeueLock(c)
  PROVE  Inv'
  <1> USE DEF Inv
  <1>0. c \in Threads BY DEF Threads
  <1>1. Goto(c, "deqLock", "deqLoad") /\ "deqLoad" \in Labels
    BY DEF DequeueLock, Labels, DequeueLabels
  <1>2. Typed'
    BY <1>0, <1>1, PcAfter DEF DequeueLock, Typed, ring, MutexLock, LockFree
  <1>3. Roles' /\ MutualExclusion'
    BY <1>0, <1>1, RolesKept, MutexKept, QueueAssumption
    DEF DequeueLock, InitLabels, EnqueueLabels, DequeueLabels, Critical, QueueAssumption, ring
  <1>4. Uninitialised'
    BY <1>0, <1>1, PcAfter DEF DequeueLock, Uninitialised, ring
  <1>5. /\ Reserved' = Reserved /\ Returning' = Returning
        /\ Posting' = Posting /\ Claimed' = Claimed
    BY <1>0, <1>1, CountsChange, CountTypes
  <1>6. SlotsConserved' /\ PairsConserved'
    BY <1>5, CountTypes DEF DequeueLock, SlotsConserved, PairsConserved, Typed, ring
  <1>7. RearInPlace'
    BY DEF DequeueLock, RearInPlace, ring
  <1>8. SlotAgrees'
    BY <1>0, <1>1, PcAfter, QueueAssumption
    DEF DequeueLock, SlotAgrees, ring, InitLabels, EnqueueLabels, DequeueLabels, Threads,
        Roles, Typed, QueueAssumption
  <1>9. QED BY <1>2, <1>3, <1>4, <1>6, <1>7, <1>8

(* Copying the oldest pair out keeps Inv.                                  *)
LEMMA DequeueLoadKeepsInv ==
  ASSUME Inv, NEW c \in Consumers, DequeueLoad(c)
  PROVE  Inv'
  <1> USE DEF Inv
  <1>0. c \in Threads BY DEF Threads
  <1>1. Goto(c, "deqLoad", "deqAdvance") /\ "deqAdvance" \in Labels
    BY DEF DequeueLoad, Labels, DequeueLabels
  <1>2. Typed'
    BY <1>0, <1>1, PcAfter DEF DequeueLoad, Typed, ring
  <1>3. Roles' /\ MutualExclusion'
    BY <1>0, <1>1, RolesKept, MutexKept, QueueAssumption
    DEF DequeueLoad, InitLabels, EnqueueLabels, DequeueLabels, Critical, QueueAssumption, ring
  <1>4. Uninitialised'
    BY <1>0, <1>1, PcAfter DEF DequeueLoad, Uninitialised, ring
  <1>5. /\ Reserved' = Reserved /\ Returning' = Returning
        /\ Posting' = Posting /\ Claimed' = Claimed
    BY <1>0, <1>1, CountsChange, CountTypes
  <1>6. SlotsConserved' /\ PairsConserved'
    BY <1>5, CountTypes DEF DequeueLoad, SlotsConserved, PairsConserved, Typed, ring
  <1>7. RearInPlace'
    BY DEF DequeueLoad, RearInPlace, ring
  <1>8. SlotAgrees'
    BY <1>0, <1>1, PcAfter, QueueAssumption
    DEF DequeueLoad, SlotAgrees, ring, InitLabels, EnqueueLabels, DequeueLabels, Threads,
        Roles, Typed, QueueAssumption
  <1>9. QED BY <1>2, <1>3, <1>4, <1>6, <1>7, <1>8

(* Advancing front and shrinking size keeps Inv.                           *)
LEMMA DequeueAdvanceKeepsInv ==
  ASSUME Inv, NEW c \in Consumers, DequeueAdvance(c)
  PROVE  Inv'
  <1> USE DEF Inv
  <1>0. c \in Threads BY DEF Threads
  <1>1. Goto(c, "deqAdvance", "deqSignal") /\ "deqSignal" \in Labels
    BY DEF DequeueAdvance, Labels, DequeueLabels
  <1>2. Typed'
    <2>1. size > 0
      <3>1. Claimed > 0 BY <1>0, <1>1, CountType DEF Claimed, Goto
      <3>2. QED BY <3>1, CountTypes DEF PairsConserved, Typed
    <2>2. QED BY <2>1, <1>0, <1>1, PcAfter, NextSlotInside DEF DequeueAdvance, Typed
  <1>3. Roles' /\ MutualExclusion'
    BY <1>0, <1>1, RolesKept, MutexKept, QueueAssumption
    DEF DequeueAdvance, InitLabels, EnqueueLabels, DequeueLabels, Critical, QueueAssumption, ring
  <1>4. Uninitialised'
    BY <1>0, <1>1, PcAfter DEF DequeueAdvance, Uninitialised, ring
  <1>5. /\ Reserved' = Reserved /\ Returning' = Returning + 1
        /\ Posting' = Posting /\ Claimed' = Claimed - 1
    BY <1>0, <1>1, CountsChange, CountTypes
  <1>6. SlotsConserved' /\ PairsConserved'
    BY <1>5, CountTypes DEF DequeueAdvance, SlotsConserved, PairsConserved, Typed, ring
  <1>7. RearInPlace'
    <2>1. size > 0
      <3>1. Claimed > 0 BY <1>0, <1>1, CountType DEF Claimed, Goto
      <3>2. QED BY <3>1, CountTypes DEF PairsConserved, Typed
    <2>2. size <= MAX_SIZE
      <3>1. initialized BY <1>0, <1>1, InitialisedInside DEF Goto
      <3>2. QED BY <3>1, CountTypes, QueueAssumption
                DEF SlotsConserved, Typed, QueueAssumption
    <2>3. front \in Slots /\ size \in 1..MAX_SIZE
      BY <2>1, <2>2, QueueAssumption DEF Typed, QueueAssumption
    <2>4. (NextSlot(front) + (size - 1)) % MAX_SIZE = (front + size) % MAX_SIZE
      BY <2>3, FrontAdvances
    <2>5. QED BY <2>4 DEF DequeueAdvance, RearInPlace
  <1>8. SlotAgrees'
    <2>1. \A u \in Threads : u # c => pc'[u] \notin Critical
      BY <1>0, <1>1, PcAfter DEF MutualExclusion, Critical
    <2>2. QED BY <2>1, <1>0, <1>1, PcAfter, QueueAssumption
              DEF DequeueAdvance, SlotAgrees, EnqueueLabels, DequeueLabels, Critical, Threads,
                  Typed, QueueAssumption
  <1>9. QED BY <1>2, <1>3, <1>4, <1>6, <1>7, <1>8

(* Giving the slot back keeps Inv.                                         *)
LEMMA DequeueSignalKeepsInv ==
  ASSUME Inv, NEW c \in Consumers, DequeueSignal(c)
  PROVE  Inv'
  <1> USE DEF Inv
  <1>0. c \in Threads BY DEF Threads
  <1>1. Goto(c, "deqSignal", "deqUnlock") /\ "deqUnlock" \in Labels
    BY DEF DequeueSignal, Labels, DequeueLabels
  <1>2. Typed'
    BY <1>0, <1>1, PcAfter DEF DequeueSignal, Typed, ring, SpaceSignal
  <1>3. Roles' /\ MutualExclusion'
    BY <1>0, <1>1, RolesKept, MutexKept, QueueAssumption
    DEF DequeueSignal, InitLabels, EnqueueLabels, DequeueLabels, Critical, QueueAssumption, ring
  <1>4. Uninitialised'
    BY <1>0, <1>1, PcAfter DEF DequeueSignal, Uninitialised, ring
  <1>5. /\ Reserved' = Reserved /\ Returning' = Returning - 1
        /\ Posting' = Posting /\ Claimed' = Claimed
    BY <1>0, <1>1, CountsChange, CountTypes
  <1>6. SlotsConserved' /\ PairsConserved'
    BY <1>5, CountTypes DEF DequeueSignal, SlotsConserved, PairsConserved, Typed, ring, SpaceSignal
  <1>7. RearInPlace'
    BY DEF DequeueSignal, RearInPlace, ring
  <1>8. SlotAgrees'
    BY <1>0, <1>1, PcAfter, QueueAssumption
    DEF DequeueSignal, SlotAgrees, ring, InitLabels, EnqueueLabels, DequeueLabels, Threads,
        Roles, Typed, QueueAssumption
  <1>9. QED BY <1>2, <1>3, <1>4, <1>6, <1>7, <1>8

(* A consumer's unlock keeps Inv.                                          *)
LEMMA DequeueUnlockKeepsInv ==
  ASSUME Inv, NEW c \in Consumers, DequeueUnlock(c)
  PROVE  Inv'
  <1> USE DEF Inv
  <1>0. c \in Threads BY DEF Threads
  <1>1. Goto(c, "deqUnlock", "idle") /\ "idle" \in Labels
    BY DEF DequeueUnlock, Labels, InitLabels
  <1>2. Typed'
    BY <1>0, <1>1, PcAfter DEF DequeueUnlock, Typed, ring, MutexUnlock
  <1>3. Roles' /\ MutualExclusion'
    BY <1>0, <1>1, RolesKept, MutexKept, QueueAssumption
    DEF DequeueUnlock, InitLabels, EnqueueLabels, DequeueLabels, Critical, QueueAssumption, ring
  <1>4. Uninitialised'
    BY <1>0, <1>1, PcAfter DEF DequeueUnlock, Uninitialised, ring
  <1>5. /\ Reserved' = Reserved /\ Returning' = Returning
        /\ Posting' = Posting /\ Claimed' = Claimed
    BY <1>0, <1>1, CountsChange, CountTypes
  <1>6. SlotsConserved' /\ PairsConserved'
    BY <1>5, CountTypes DEF DequeueUnlock, SlotsConserved, PairsConserved, Typed, ring
  <1>7. RearInPlace'
    BY DEF DequeueUnlock, RearInPlace, ring
  <1>8. SlotAgrees'
    BY <1>0, <1>1, PcAfter, QueueAssumption
    DEF DequeueUnlock, SlotAgrees, ring, InitLabels, EnqueueLabels, DequeueLabels, Threads,
        Roles, Typed, QueueAssumption
  <1>9. QED BY <1>2, <1>3, <1>4, <1>6, <1>7, <1>8

-----------------------------------------------------------------------------
(* The theorems.                                                           *)

(* No step of any thread breaks Inv.                                       *)
LEMMA InvStep == Inv /\ [Next]_vars => Inv'
  <1> SUFFICES ASSUME Inv, [Next]_vars PROVE Inv' OBVIOUS
  <1>1. ASSUME NEW t \in Threads, InitStep(t) \/ Restart(t) PROVE Inv'
    BY <1>1, InitLockKeepsInv, InitBodyKeepsInv, InitUnlockKeepsInv, RestartKeepsInv
    DEF InitStep
  <1>2. ASSUME NEW p \in Producers, EnqueueStep(p) PROVE Inv'
    BY <1>2, EnqueueLockKeepsInv, EnqueueStoreKeepsInv, EnqueueAdvanceKeepsInv,
       EnqueueUnlockKeepsInv, EnqueueSignalKeepsInv
    DEF EnqueueStep
  <1>3. ASSUME NEW p \in Producers, NEW v \in Pairs, EnqueueWait(p, v) PROVE Inv'
    BY <1>3, EnqueueWaitKeepsInv
  <1>4. ASSUME NEW c \in Consumers, DequeueStep(c) PROVE Inv'
    BY <1>4, DequeueTakeKeepsInv, DequeueLockKeepsInv, DequeueLoadKeepsInv,
       DequeueAdvanceKeepsInv, DequeueSignalKeepsInv, DequeueUnlockKeepsInv
    DEF DequeueStep
  <1>5. CASE UNCHANGED vars
    <2>1. /\ UNCHANGED <<statePair, front, rear, size, resource, space>>
          /\ UNCHANGED <<initialized, g_mutex, pc, value>>
      BY <1>5 DEF vars, ring
    <2>2. Typed' /\ Roles' /\ MutualExclusion' /\ Uninitialised' /\ RearInPlace' /\ SlotAgrees'
      BY <2>1
      DEF Inv, Typed, Roles, MutualExclusion, Uninitialised, RearInPlace, SlotAgrees
    <2>3. SlotsConserved' /\ PairsConserved'
      BY <2>1
      DEF Inv, SlotsConserved, PairsConserved, Count, Reserved, Returning, Posting, Claimed
    <2>4. QED BY <2>2, <2>3 DEF Inv
  <1>6. QED BY <1>1, <1>2, <1>3, <1>4, <1>5 DEF Next

(* The inductive invariant of the pair queue holds in every behaviour.     *)
THEOREM InvHolds == Spec => []Inv
  BY InvInit, InvStep, PTL DEF Spec

(* What Inv implies.                                                       *)
LEMMA InvImplies == Inv => TypeOK /\ NeverOverwritesOrUnderflows
  <1> SUFFICES ASSUME Inv PROVE TypeOK /\ NeverOverwritesOrUnderflows OBVIOUS
  <1> USE DEF Inv
  <1>1. size \in Nat /\ resource \in Nat /\ space \in Nat /\ MAX_SIZE \in Nat \ {0}
    BY QueueAssumption DEF Typed, QueueAssumption
  <1>2. TypeOK
    <2>1. CASE initialized
      BY <1>1, <2>1, CountTypes DEF TypeOK, SlotsConserved, PairsConserved
    <2>2. CASE ~initialized
      BY <1>1, <2>2 DEF TypeOK, Uninitialised
    <2>3. QED BY <2>1, <2>2
  <1>3. ASSUME NEW p \in Producers, pc[p] \in {"enqStore", "enqAdvance"}
        PROVE  size < MAX_SIZE
    <2>1. p \in Threads BY DEF Threads
    <2>2. Reserved > 0 BY <1>3, <2>1, CountType DEF Reserved
    <2>3. initialized BY <1>3, <2>1, InitialisedInside
    <2>4. QED BY <1>1, <2>2, <2>3, CountTypes DEF SlotsConserved
  <1>4. ASSUME NEW c \in Consumers, pc[c] \in {"deqLoad", "deqAdvance"}
        PROVE  size > 0
    <2>1. c \in Threads BY DEF Threads
    <2>2. Claimed > 0 BY <1>4, <2>1, CountType DEF Claimed
    <2>3. QED BY <1>1, <2>2, CountTypes DEF PairsConserved
  <1>5. QED BY <1>2, <1>3, <1>4 DEF NeverOverwritesOrUnderflows

(* The fields of the queue stay in their ranges: no index leaves the array *)
(* and size never passes MAX_SIZE.                                         *)
THEOREM TypeCorrect == Spec => []TypeOK
  BY InvHolds, InvImplies, PTL

(* No slot is lost or handed out twice.                                    *)
THEOREM SlotsAreConserved == Spec => []SlotsConserved
  <1>1. Inv => SlotsConserved BY DEF Inv
  <1>2. QED BY <1>1, InvHolds, PTL

(* No pair is lost or counted twice.                                       *)
THEOREM PairsAreConserved == Spec => []PairsConserved
  <1>1. Inv => PairsConserved BY DEF Inv
  <1>2. QED BY <1>1, InvHolds, PTL

(* A producer never writes over a pair that was not taken; a consumer      *)
(* never reads a slot that was not filled.                                 *)
THEOREM NoOverwriteNoUnderflow == Spec => []NeverOverwritesOrUnderflows
  BY InvHolds, InvImplies, PTL

(* Whoever waits for g_mutex waits for a thread that is inside an          *)
(* operation and past that wait.                                           *)
LEMMA MutexOwnerInside ==
  ASSUME Inv, NEW t \in Threads, Inside(t)
  PROVE  \E u \in Threads : Inside(u) /\ ~WaitsForMutex(u)
  <1>1. CASE g_mutex = NoThread
    BY <1>1 DEF WaitsForMutex
  <1>2. CASE g_mutex # NoThread
    <2>1. PICK u \in Threads : g_mutex = u
      BY <1>2 DEF Inv, Typed
    <2>2. pc[u] \in Critical
      BY <2>1 DEF Inv, MutualExclusion
    <2>3. Inside(u) /\ ~WaitsForMutex(u)
      BY <2>2 DEF Inside, WaitsForMutex, Critical
    <2>4. QED BY <2>3
  <1>3. QED BY <1>1, <1>2

(* No wake-up is lost: with no slot free and no pair posted, some thread   *)
(* has the signal still to give, and none of those that are inside an      *)
(* operation wait for each other (HdlsStatePairQueue.c:36-67).             *)
THEOREM NoWakeUpIsLost == Spec => []NoLostWakeUp
  <1>1. ASSUME Inv, initialized, space = 0, resource = 0
        PROVE  \E t \in Threads : Inside(t)
    <2>1. MAX_SIZE > 0 /\ size \in Nat
      BY <1>1, QueueAssumption DEF QueueAssumption, Inv, Typed
    <2>2. Reserved + size + Returning = MAX_SIZE /\ size = Posting + Claimed
      BY <1>1, <2>1, CountTypes DEF Inv, SlotsConserved, PairsConserved
    <2>3. ASSUME \A t \in Threads : ~Inside(t)
          PROVE  FALSE
      <3>1. /\ \A t \in Threads : pc[t] \notin {"enqLock", "enqStore", "enqAdvance"}
            /\ \A t \in Threads : pc[t] \notin {"deqSignal"}
            /\ \A t \in Threads : pc[t] \notin {"enqUnlock", "enqSignal"}
            /\ \A t \in Threads : pc[t] \notin {"deqLock", "deqLoad", "deqAdvance"}
        BY <2>3 DEF Inside
      <3>2. Reserved = 0 /\ Returning = 0 /\ Posting = 0 /\ Claimed = 0
        BY <3>1, CountZero DEF Reserved, Returning, Posting, Claimed
      <3>3. QED BY <2>1, <2>2, <3>2
    <2>4. QED BY <2>3
  <1>2. Inv => NoLostWakeUp
    BY <1>1, MutexOwnerInside DEF NoLostWakeUp
  <1>3. QED BY <1>2, InvHolds, PTL

-----------------------------------------------------------------------------
(* The refinement mapping.                                                 *)

(* Any place is a slot.                                                    *)
LEMMA SlotInside ==
  ASSUME NEW i \in Slots, NEW n \in 0..MAX_SIZE
  PROVE  (i + n) % MAX_SIZE \in Slots
  BY SlotAt, QueueAssumption DEF Slots, QueueAssumption

(* What Stored is, element by element.                                     *)
StoredShape ==
  /\ Loaded \in {0, 1} /\ size - Loaded \in 0..MAX_SIZE
  /\ Stored \in Seq(Pairs \cup {NoPair}) /\ Len(Stored) = size - Loaded
  /\ \A i \in 1..(size - Loaded) :
       Stored[i] = statePair[(front + (Loaded + i - 1)) % MAX_SIZE]

(* Stored is a sequence of size - Loaded pairs; the sum in its definition  *)
(* is bracketed here so that the lemmas about slots apply.                 *)
LEMMA StoredIsSequence == Inv => StoredShape
  <1> SUFFICES ASSUME Inv PROVE StoredShape OBVIOUS
  <1> DEFINE V == Pairs \cup {NoPair}
  <1>1. size \in 0..MAX_SIZE /\ NeverOverwritesOrUnderflows
    BY InvImplies, QueueAssumption DEF TypeOK, Typed, QueueAssumption
  <1>2. Loaded \in {0, 1} /\ Loaded <= size
    BY <1>1 DEF Loaded, NeverOverwritesOrUnderflows
  <1>3. size - Loaded \in 0..MAX_SIZE
    BY <1>1, <1>2, QueueAssumption DEF QueueAssumption
  <1>4. \A i \in 1..(size - Loaded) :
          /\ front + Loaded + i - 1 = front + (Loaded + i - 1)
          /\ (front + Loaded + i - 1) % MAX_SIZE \in Slots
    <2> SUFFICES ASSUME NEW i \in 1..(size - Loaded)
                 PROVE  /\ front + Loaded + i - 1 = front + (Loaded + i - 1)
                        /\ (front + (Loaded + i - 1)) % MAX_SIZE \in Slots
      BY <1>1, <1>2 DEF Inv, Typed, Slots
    <2>1. front \in Slots /\ Loaded + i - 1 \in 0..MAX_SIZE
      BY <1>1, <1>2, QueueAssumption DEF Inv, Typed, QueueAssumption
    <2>2. (front + (Loaded + i - 1)) % MAX_SIZE \in Slots
      BY <2>1, SlotInside
    <2>3. QED BY <2>1, <2>2, <1>2 DEF Slots
  <1>5. Stored \in [1..(size - Loaded) -> V]
    BY <1>4 DEF Stored, Inv, Typed
  <1>6. Stored \in Seq(V) /\ Len(Stored) = size - Loaded
    BY <1>3, <1>5
  <1>7. QED BY <1>2, <1>3, <1>4, <1>6 DEF StoredShape, Stored

(* Two places less than MAX_SIZE apart are two slots.                      *)
LEMMA SlotsDiffer ==
  ASSUME NEW i \in Slots, NEW m \in 0..(MAX_SIZE - 1), NEW n \in 0..(MAX_SIZE - 1),
         m # n
  PROVE  (i + m) % MAX_SIZE # (i + n) % MAX_SIZE
  <1>1. m \in 0..MAX_SIZE /\ n \in 0..MAX_SIZE
    BY QueueAssumption DEF QueueAssumption
  <1>2. /\ (i + m) % MAX_SIZE = IF i + m < MAX_SIZE THEN i + m ELSE i + m - MAX_SIZE
        /\ (i + n) % MAX_SIZE = IF i + n < MAX_SIZE THEN i + n ELSE i + n - MAX_SIZE
    BY <1>1, SlotAt
  <1>3. QED BY <1>2, QueueAssumption DEF Slots, QueueAssumption

(* Loaded changes only when a thread goes to or leaves deqAdvance.         *)
LEMMA LoadedKept ==
  ASSUME Typed, NEW t \in Threads, NEW a, NEW b \in Labels, Goto(t, a, b),
         a # "deqAdvance", b # "deqAdvance"
  PROVE  Loaded' = Loaded
  <1>1. \A c \in Consumers : (pc'[c] = "deqAdvance") <=> (pc[c] = "deqAdvance")
    BY PcAfter DEF Threads
  <1>2. QED BY <1>1 DEF Loaded

(* Published changes with resource and with the threads at deqLock and     *)
(* deqLoad.                                                                *)
LEMMA PublishedChanges ==
  ASSUME Typed, NEW t \in Threads, NEW a, NEW b, Goto(t, a, b), resource' \in Nat
  PROVE  Published' = resource' + Count({"deqLock", "deqLoad"})
                       + (IF b \in {"deqLock", "deqLoad"} THEN 1 ELSE 0)
                       - (IF a \in {"deqLock", "deqLoad"} THEN 1 ELSE 0)
  <1>1. Count({"deqLock", "deqLoad"})' = Count({"deqLock", "deqLoad"})
          + (IF b \in {"deqLock", "deqLoad"} THEN 1 ELSE 0)
          - (IF a \in {"deqLock", "deqLoad"} THEN 1 ELSE 0)
    BY CountChanges
  <1>2. Published' = resource' + Count({"deqLock", "deqLoad"})'
    BY DEF Published
  <1>3. Count({"deqLock", "deqLoad"}) \in Nat BY CountType
  <1>4. QED BY <1>1, <1>2, <1>3

(* Every stored pair is published, or its producer is about to publish it. *)
LEMMA StoredPublished == Inv => Len(Stored) = Published + Posting
  <1> SUFFICES ASSUME Inv PROVE Len(Stored) = Published + Posting OBVIOUS
  <1> DEFINE A == {t \in Threads : pc[t] \in {"deqLock", "deqLoad"}}
             B == {t \in Threads : pc[t] \in {"deqLock", "deqLoad", "deqAdvance"}}
  <1>1. IsFiniteSet(A) /\ Cardinality(A) \in Nat
    BY ThreadsFinite, FS_CardinalityType
  <1>2. Cardinality(B) = Cardinality(A) + Loaded
    <2>1. CASE \E c \in Consumers : pc[c] = "deqAdvance"
      <3>1. PICK c \in Consumers : pc[c] = "deqAdvance" BY <2>1
      <3>2. \A t \in Threads : pc[t] = "deqAdvance" => t = c
        BY <3>1 DEF Inv, MutualExclusion, Critical, Threads
      <3>3. B = A \cup {c} /\ c \notin A
        BY <3>1, <3>2 DEF Threads
      <3>4. Cardinality(B) = Cardinality(A) + 1
        BY <1>1, <3>3, FS_AddElement
      <3>5. QED BY <2>1, <3>4 DEF Loaded
    <2>2. CASE ~ \E c \in Consumers : pc[c] = "deqAdvance"
      <3>1. \A t \in Threads : pc[t] # "deqAdvance"
        BY <2>2 DEF Inv, Roles, InitLabels, EnqueueLabels, Threads
      <3>2. A = B BY <3>1
      <3>3. Cardinality(B) = Cardinality(A) + 0 BY <1>1, <3>2
      <3>4. QED BY <2>2, <3>3 DEF Loaded
    <2>3. QED BY <2>1, <2>2
  <1>3. Claimed = Cardinality(A) + Loaded /\ Published = resource + Cardinality(A)
    BY <1>2 DEF Claimed, Published, Count
  <1>4. Len(Stored) = size - Loaded /\ Loaded \in {0, 1}
    BY StoredIsSequence DEF StoredShape
  <1>5. size = resource + Posting + Claimed /\ resource \in Nat
    BY DEF Inv, PairsConserved, Typed
  <1>6. QED BY <1>1, <1>3, <1>4, <1>5, CountTypes

-----------------------------------------------------------------------------
(* The steps that the FIFO does not see.                                   *)

(* A thread moves and neither the ring nor a consumer's buffer changes.    *)
LEMMA QuietStep ==
  ASSUME Inv, NEW t \in Threads, NEW a, NEW b \in Labels, Goto(t, a, b),
         a # "deqAdvance", b # "deqAdvance",
         UNCHANGED ring, \A c \in Consumers : value'[c] = value[c],
         \/ /\ a \in {"deqLock", "deqLoad"} <=> b \in {"deqLock", "deqLoad"}
            /\ resource' = resource
         \/ a = "idle" /\ b = "deqLock" /\ resource' = resource - 1 /\ resource' \in Nat
  PROVE  UNCHANGED Fifo!fifoVars
  <1>1. Stored' = Stored
    <2>1. Loaded' = Loaded BY LoadedKept DEF Inv
    <2>2. QED BY <2>1 DEF Stored, ring
  <1>2. Published' = Published
    <2>1. resource \in Nat /\ resource' \in Nat /\ Typed BY DEF Inv, Typed
    <2>2. Count({"deqLock", "deqLoad"}) \in Nat BY CountType
    <2>3. QED BY <2>1, <2>2, PublishedChanges DEF Published
  <1>3. [c \in Consumers |-> value[c]]' = [c \in Consumers |-> value[c]]
    OBVIOUS
  <1>4. QED BY <1>1, <1>2, <1>3 DEF Fifo!fifoVars

(* Locking for the initialisation is a stutter of the FIFO.                *)
LEMMA InitLockIsQuiet ==
  ASSUME Inv, NEW t \in Threads, InitLock(t)
  PROVE  UNCHANGED Fifo!fifoVars
  <1>1. Goto(t, "boot", "init") /\ "init" \in Labels
    BY DEF InitLock, Labels, InitLabels, EnqueueLabels, DequeueLabels
  <1>2. QED BY <1>1, QuietStep DEF InitLock

(* Leaving the initialisation is a stutter of the FIFO.                    *)
LEMMA InitUnlockIsQuiet ==
  ASSUME Inv, NEW t \in Threads, InitUnlock(t)
  PROVE  UNCHANGED Fifo!fifoVars
  <1>1. Goto(t, "initUnlock", "idle") /\ "idle" \in Labels
    BY DEF InitUnlock, Labels, InitLabels, EnqueueLabels, DequeueLabels
  <1>2. QED BY <1>1, QuietStep DEF InitUnlock

(* A new session's thread in the place of an old one is a stutter of the FIFO.*)
LEMMA RestartIsQuiet ==
  ASSUME Inv, NEW t \in Threads, Restart(t)
  PROVE  UNCHANGED Fifo!fifoVars
  <1>1. Goto(t, "idle", "boot") /\ "boot" \in Labels
    BY DEF Restart, Labels, InitLabels, EnqueueLabels, DequeueLabels
  <1>2. QED BY <1>1, QuietStep DEF Restart

(* A producer's lock is a stutter of the FIFO.                             *)
LEMMA EnqueueLockIsQuiet ==
  ASSUME Inv, NEW p \in Producers, EnqueueLock(p)
  PROVE  UNCHANGED Fifo!fifoVars
  <1>0. p \in Threads BY DEF Threads
  <1>1. Goto(p, "enqLock", "enqStore") /\ "enqStore" \in Labels
    BY DEF EnqueueLock, Labels, InitLabels, EnqueueLabels, DequeueLabels
  <1>2. QED BY <1>0, <1>1, QuietStep DEF EnqueueLock

(* A producer's unlock is a stutter of the FIFO.                           *)
LEMMA EnqueueUnlockIsQuiet ==
  ASSUME Inv, NEW p \in Producers, EnqueueUnlock(p)
  PROVE  UNCHANGED Fifo!fifoVars
  <1>0. p \in Threads BY DEF Threads
  <1>1. Goto(p, "enqUnlock", "enqSignal") /\ "enqSignal" \in Labels
    BY DEF EnqueueUnlock, Labels, InitLabels, EnqueueLabels, DequeueLabels
  <1>2. QED BY <1>0, <1>1, QuietStep DEF EnqueueUnlock

(* Claiming a pair is a stutter of the FIFO.                               *)
LEMMA DequeueTakeIsQuiet ==
  ASSUME Inv, NEW c \in Consumers, DequeueTake(c)
  PROVE  UNCHANGED Fifo!fifoVars
  <1>0. c \in Threads BY DEF Threads
  <1>1. Goto(c, "idle", "deqLock") /\ "deqLock" \in Labels
    BY DEF DequeueTake, Labels, InitLabels, EnqueueLabels, DequeueLabels
  <1>2. QED BY <1>0, <1>1, QuietStep DEF DequeueTake, Inv, Typed

(* A consumer's lock is a stutter of the FIFO.                             *)
LEMMA DequeueLockIsQuiet ==
  ASSUME Inv, NEW c \in Consumers, DequeueLock(c)
  PROVE  UNCHANGED Fifo!fifoVars
  <1>0. c \in Threads BY DEF Threads
  <1>1. Goto(c, "deqLock", "deqLoad") /\ "deqLoad" \in Labels
    BY DEF DequeueLock, Labels, InitLabels, EnqueueLabels, DequeueLabels
  <1>2. QED BY <1>0, <1>1, QuietStep DEF DequeueLock

(* Giving the slot back is a stutter of the FIFO.                          *)
LEMMA DequeueSignalIsQuiet ==
  ASSUME Inv, NEW c \in Consumers, DequeueSignal(c)
  PROVE  UNCHANGED Fifo!fifoVars
  <1>0. c \in Threads BY DEF Threads
  <1>1. Goto(c, "deqSignal", "deqUnlock") /\ "deqUnlock" \in Labels
    BY DEF DequeueSignal, Labels, InitLabels, EnqueueLabels, DequeueLabels
  <1>2. QED BY <1>0, <1>1, QuietStep DEF DequeueSignal

(* A consumer's unlock is a stutter of the FIFO.                           *)
LEMMA DequeueUnlockIsQuiet ==
  ASSUME Inv, NEW c \in Consumers, DequeueUnlock(c)
  PROVE  UNCHANGED Fifo!fifoVars
  <1>0. c \in Threads BY DEF Threads
  <1>1. Goto(c, "deqUnlock", "idle") /\ "idle" \in Labels
    BY DEF DequeueUnlock, Labels, InitLabels, EnqueueLabels, DequeueLabels
  <1>2. QED BY <1>0, <1>1, QuietStep DEF DequeueUnlock

(* The argument of an enqueue is not a consumer's buffer.                  *)
LEMMA EnqueueWaitIsQuiet ==
  ASSUME Inv, NEW p \in Producers, NEW v \in Pairs, EnqueueWait(p, v)
  PROVE  UNCHANGED Fifo!fifoVars
  <1>0. p \in Threads BY DEF Threads
  <1>1. Goto(p, "idle", "enqLock") /\ "enqLock" \in Labels
    BY DEF EnqueueWait, Labels, EnqueueLabels
  <1>2. \A c \in Consumers : value'[c] = value[c]
    BY QueueAssumption DEF EnqueueWait, Inv, Typed, Threads, QueueAssumption
  <1>3. QED BY <1>0, <1>1, <1>2, QuietStep DEF EnqueueWait

(* The first initialisation finds an empty queue, a later one changes      *)
(* nothing.                                                                *)
LEMMA InitBodyIsQuiet ==
  ASSUME Inv, NEW t \in Threads, InitBody(t)
  PROVE  UNCHANGED Fifo!fifoVars
  <1>1. Goto(t, "init", "initUnlock") /\ "initUnlock" \in Labels
    BY DEF InitBody, Labels, InitLabels
  <1>2. CASE initialized
    BY <1>1, <1>2, QuietStep DEF InitBody, InitOnce
  <1>3. CASE ~initialized
    <2>1. size = 0 /\ size' = 0 /\ resource' = 0 /\ resource = 0 /\ value' = value
      BY <1>3 DEF InitBody, InitOnce, ResetQueue, Inv, Uninitialised
    <2>2. Loaded' = Loaded BY <1>1, LoadedKept DEF Inv
    <2>3. Loaded = 0
      BY <1>3 DEF Loaded, Inv, Uninitialised, Threads
    <2>4. Stored' = Stored
      <3>1. 1..(size - Loaded) = {} /\ (1..(size - Loaded))' = {}
        BY <2>1, <2>2, <2>3
      <3>2. QED BY <3>1 DEF Stored
    <2>5. Published' = Published
      <3>1. Count({"deqLock", "deqLoad"}) \in Nat BY CountType
      <3>2. Typed BY DEF Inv
      <3>3. QED BY <2>1, <1>1, <3>1, <3>2, PublishedChanges DEF Published
    <2>6. QED BY <2>1, <2>4, <2>5 DEF Fifo!fifoVars
  <1>4. QED BY <1>2, <1>3

(* The slot written is not one of those that hold stored pairs.            *)
LEMMA EnqueueStoreIsQuiet ==
  ASSUME Inv, NEW p \in Producers, EnqueueStore(p)
  PROVE  UNCHANGED Fifo!fifoVars
  <1>0. p \in Threads BY DEF Threads
  <1>1. Goto(p, "enqStore", "enqAdvance") /\ "enqAdvance" \in Labels
    BY DEF EnqueueStore, Labels, EnqueueLabels
  <1>2. /\ statePair' = [statePair EXCEPT ![rear] = value[p]]
        /\ UNCHANGED <<front, rear, size, resource, value>>
    BY DEF EnqueueStore
  <1>3. Loaded' = Loaded BY <1>0, <1>1, LoadedKept DEF Inv
  <1>4. StoredShape BY StoredIsSequence
  <1>5. Inv' BY EnqueueStoreKeepsInv
  <1>6. StoredShape' BY <1>5, StoredIsSequence, PTL
  <1>7. size < MAX_SIZE
    BY <1>1, InvImplies DEF NeverOverwritesOrUnderflows, Goto
  <1>8. ASSUME NEW i \in 1..(size - Loaded)
        PROVE  Stored'[i] = Stored[i]
    <2>1. Loaded + i - 1 \in 0..(MAX_SIZE - 1) /\ size \in 0..(MAX_SIZE - 1)
          /\ Loaded + i - 1 # size
      BY <1>4, <1>7, QueueAssumption DEF StoredShape, Inv, Typed, QueueAssumption
    <2>2. (front + (Loaded + i - 1)) % MAX_SIZE # rear
      BY <2>1, SlotsDiffer DEF Inv, Typed, RearInPlace
    <2>3. (front + (Loaded + i - 1)) % MAX_SIZE \in Slots
      <3>1. Loaded + i - 1 \in 0..MAX_SIZE /\ front \in Slots
        BY <2>1, QueueAssumption DEF Inv, Typed, QueueAssumption
      <3>2. QED BY <3>1, SlotInside
    <2>4. Stored'[i] = statePair'[(front + (Loaded + i - 1)) % MAX_SIZE]
      BY <1>2, <1>3, <1>6 DEF StoredShape
    <2>5. QED BY <2>2, <2>3, <2>4, <1>2, <1>4 DEF StoredShape, Inv, Typed
  <1>9. Stored' = Stored
    BY <1>2, <1>3, <1>4, <1>6, <1>8, SeqEqual DEF StoredShape
  <1>10. Published' = Published
    <2>1. Count({"deqLock", "deqLoad"}) \in Nat BY CountType
    <2>2. Typed /\ resource \in Nat BY DEF Inv, Typed
    <2>3. QED BY <1>0, <1>1, <1>2, <2>1, <2>2, PublishedChanges DEF Published
  <1>11. QED BY <1>2, <1>9, <1>10 DEF Fifo!fifoVars

(* A pair that was loaded is not stored any more when front moves past it. *)
LEMMA DequeueAdvanceIsQuiet ==
  ASSUME Inv, NEW c \in Consumers, DequeueAdvance(c)
  PROVE  UNCHANGED Fifo!fifoVars
  <1>0. c \in Threads BY DEF Threads
  <1>1. Goto(c, "deqAdvance", "deqSignal") /\ "deqSignal" \in Labels
    BY DEF DequeueAdvance, Labels, DequeueLabels
  <1>2. /\ front' = NextSlot(front) /\ size' = size - 1
        /\ UNCHANGED <<statePair, resource, value>>
    BY DEF DequeueAdvance
  <1>3. Loaded = 1 BY <1>1 DEF Loaded, Goto
  <1>4. Loaded' = 0
    <2>1. \A u \in Threads : u # c => pc[u] # "deqAdvance"
      BY <1>0, <1>1 DEF Inv, MutualExclusion, Critical, Goto
    <2>2. \A u \in Threads : pc'[u] # "deqAdvance"
      BY <2>1, <1>0, <1>1, PcAfter DEF Inv
    <2>3. QED BY <2>2 DEF Loaded, Threads
  <1>5. StoredShape BY StoredIsSequence
  <1>6. Inv' BY DequeueAdvanceKeepsInv
  <1>7. StoredShape' BY <1>6, StoredIsSequence, PTL
  <1>8. size \in 1..MAX_SIZE /\ front \in Slots
    BY <1>3, <1>5, InvImplies, QueueAssumption
    DEF StoredShape, Inv, Typed, TypeOK, QueueAssumption
  <1>9. ASSUME NEW i \in 1..(size - 1)
        PROVE  Stored'[i] = Stored[i]
    <2>1. i \in 1..MAX_SIZE /\ 0 + i - 1 = i - 1 /\ 1 + i - 1 = i
      BY <1>8, QueueAssumption DEF QueueAssumption
    <2>2. (NextSlot(front) + (i - 1)) % MAX_SIZE = (front + i) % MAX_SIZE
      BY <2>1, <1>8, FrontAdvances
    <2>3. size' - Loaded' = size - 1 /\ size - Loaded = size - 1
      BY <1>2, <1>3, <1>4, <1>8
    <2>4. Stored'[i] = statePair[(NextSlot(front) + (i - 1)) % MAX_SIZE]
      BY <2>1, <2>3, <1>2, <1>4, <1>7 DEF StoredShape
    <2>5. Stored[i] = statePair[(front + i) % MAX_SIZE]
      BY <2>1, <2>3, <1>3, <1>5 DEF StoredShape
    <2>6. QED BY <2>2, <2>4, <2>5
  <1>10. Stored' = Stored
    <2>1. Len(Stored) = size - 1 /\ Len(Stored') = size - 1
      BY <1>2, <1>3, <1>4, <1>5, <1>7, <1>8 DEF StoredShape
    <2>2. QED BY <1>5, <1>7, <1>9, <2>1, SeqEqual DEF StoredShape
  <1>11. Published' = Published
    <2>1. Count({"deqLock", "deqLoad"}) \in Nat BY CountType
    <2>2. Typed /\ resource \in Nat BY DEF Inv, Typed
    <2>3. QED BY <1>0, <1>1, <1>2, <2>1, <2>2, PublishedChanges DEF Published
  <1>12. QED BY <1>2, <1>10, <1>11 DEF Fifo!fifoVars

-----------------------------------------------------------------------------
(* The three steps that the FIFO takes.                                    *)

(* Advancing rear stores the pair.                                         *)
LEMMA EnqueueAdvanceIsPut ==
  ASSUME Inv, NEW p \in Producers, EnqueueAdvance(p)
  PROVE  Fifo!Put(value[p]) /\ value[p] \in Pairs
  <1>0. p \in Threads BY DEF Threads
  <1>1. Goto(p, "enqAdvance", "enqUnlock") /\ "enqUnlock" \in Labels
    BY DEF EnqueueAdvance, Labels, EnqueueLabels
  <1>2. size' = size + 1 /\ UNCHANGED <<statePair, front, resource, value>>
    BY DEF EnqueueAdvance
  <1>3. Loaded = 0 /\ Loaded' = 0
    <2>1. \A u \in Threads : u # p => pc[u] # "deqAdvance"
      BY <1>0, <1>1 DEF Inv, MutualExclusion, Critical, Goto
    <2>2. Loaded = 0 BY <2>1, <1>1 DEF Loaded, Threads, Goto
    <2>3. QED BY <2>2, <1>0, <1>1, LoadedKept DEF Inv
  <1>4. StoredShape BY StoredIsSequence
  <1>5. Inv' BY EnqueueAdvanceKeepsInv
  <1>6. StoredShape' BY <1>5, StoredIsSequence, PTL
  <1>7. size \in 0..(MAX_SIZE - 1)
    BY <1>1, InvImplies, QueueAssumption
    DEF NeverOverwritesOrUnderflows, Goto, Inv, Typed, QueueAssumption
  <1>8. value[p] \in Pairs /\ statePair[rear] = value[p] /\ rear = (front + size) % MAX_SIZE
    BY <1>1 DEF Inv, SlotAgrees, RearInPlace, EnqueueLabels, Goto
  <1>9. Len(Stored) = size /\ Len(Stored') = size + 1
    BY <1>2, <1>3, <1>4, <1>6, <1>7 DEF StoredShape
  <1>10. Stored' = Append(Stored, value[p])
    <2> DEFINE V == Pairs \cup {NoPair}
    <2>1. Stored \in Seq(V) /\ Stored' \in Seq(V) /\ value[p] \in V
      BY <1>4, <1>6, <1>8 DEF StoredShape
    <2>2. ASSUME NEW i \in 1..(size + 1)
          PROVE  Stored'[i] = Append(Stored, value[p])[i]
      <3>1. 0 + i - 1 = i - 1 /\ size' - Loaded' = size + 1 /\ size - Loaded = size
        BY <1>2, <1>3, <1>7
      <3>2. Stored'[i] = statePair[(front + (i - 1)) % MAX_SIZE]
        BY <3>1, <1>2, <1>3, <1>6 DEF StoredShape
      <3>3. CASE i = size + 1
        <4>1. i - 1 = size BY <3>3, <1>7
        <4>2. Append(Stored, value[p])[i] = value[p] BY <3>3, <2>1, <1>9
        <4>3. QED BY <4>1, <4>2, <3>2, <1>8
      <3>4. CASE i # size + 1
        <4>1. i \in 1..size BY <3>4, <1>7
        <4>2. Stored[i] = statePair[(front + (i - 1)) % MAX_SIZE]
          BY <4>1, <3>1, <1>3, <1>4 DEF StoredShape
        <4>3. Append(Stored, value[p])[i] = Stored[i] BY <4>1, <2>1, <1>9
        <4>4. QED BY <4>2, <4>3, <3>2
      <3>5. QED BY <3>3, <3>4
    <2>3. Append(Stored, value[p]) \in Seq(V) /\ Len(Append(Stored, value[p])) = size + 1
      BY <2>1, <1>9
    <2>4. QED BY <2>1, <2>2, <2>3, <1>9, SeqEqual
  <1>11. Published' = Published
    <2>1. Count({"deqLock", "deqLoad"}) \in Nat BY CountType
    <2>2. Typed /\ resource \in Nat BY DEF Inv, Typed
    <2>3. QED BY <1>0, <1>1, <1>2, <2>1, <2>2, PublishedChanges DEF Published
  <1>12. Fifo!HasSpace
    BY <1>7, <1>9, QueueAssumption DEF Fifo!HasSpace, QueueAssumption
  <1>13. QED BY <1>2, <1>8, <1>10, <1>11, <1>12 DEF Fifo!Put

(* Posting resource publishes a pair.                                      *)
LEMMA EnqueueSignalIsPublish ==
  ASSUME Inv, NEW p \in Producers, EnqueueSignal(p)
  PROVE  Fifo!Publish
  <1>0. p \in Threads BY DEF Threads
  <1>1. Goto(p, "enqSignal", "idle") /\ "idle" \in Labels
    BY DEF EnqueueSignal, Labels, InitLabels
  <1>2. resource' = resource + 1 /\ UNCHANGED ring /\ value' = value
    BY DEF EnqueueSignal
  <1>3. Typed /\ resource \in Nat BY DEF Inv, Typed
  <1>4. Count({"deqLock", "deqLoad"}) \in Nat BY CountType
  <1>5. Published' = Published + 1
    BY <1>0, <1>1, <1>2, <1>3, <1>4, PublishedChanges DEF Published
  <1>6. Stored' = Stored
    <2>1. Loaded' = Loaded BY <1>0, <1>1, <1>3, LoadedKept
    <2>2. QED BY <2>1, <1>2 DEF Stored, ring
  <1>7. Published < Len(Stored)
    <2>1. Posting \in Nat /\ Posting > 0
      BY <1>0, <1>1, CountType DEF Posting, Goto
    <2>2. Published \in Nat BY <1>3, <1>4 DEF Published
    <2>3. QED BY <2>1, <2>2, StoredPublished
  <1>8. QED BY <1>2, <1>5, <1>6, <1>7 DEF Fifo!Publish

(* Loading the front slot takes the oldest pair.                           *)
LEMMA DequeueLoadIsTake ==
  ASSUME Inv, NEW c \in Consumers, DequeueLoad(c)
  PROVE  Fifo!Take(c)
  <1>0. c \in Threads BY DEF Threads
  <1>1. Goto(c, "deqLoad", "deqAdvance") /\ "deqAdvance" \in Labels
    BY DEF DequeueLoad, Labels, DequeueLabels
  <1>2. /\ value' = [value EXCEPT ![c] = statePair[front]]
        /\ UNCHANGED <<statePair, front, size, resource>>
    BY DEF DequeueLoad, ring
  <1>3. Loaded = 0 /\ Loaded' = 1
    <2>1. \A u \in Threads : pc[u] # "deqAdvance"
      BY <1>0, <1>1 DEF Inv, MutualExclusion, Critical, Goto
    <2>2. pc'[c] = "deqAdvance" BY <1>0, <1>1, PcAfter DEF Inv
    <2>3. QED BY <2>1, <2>2 DEF Loaded, Threads
  <1>4. StoredShape BY StoredIsSequence
  <1>5. Inv' BY DequeueLoadKeepsInv
  <1>6. StoredShape' BY <1>5, StoredIsSequence, PTL
  <1>7. size \in 1..MAX_SIZE /\ front \in Slots
    BY <1>1, InvImplies, QueueAssumption
    DEF NeverOverwritesOrUnderflows, TypeOK, Goto, Inv, Typed, QueueAssumption
  <1>8. Len(Stored) = size /\ Len(Stored') = size - 1
    BY <1>2, <1>3, <1>4, <1>6, <1>7 DEF StoredShape
  <1> DEFINE V == Pairs \cup {NoPair}
  <1>9. Stored \in Seq(V) /\ Stored' \in Seq(V) /\ Stored # <<>>
    BY <1>4, <1>6, <1>7, <1>8, EmptySeq DEF StoredShape
  <1>10. Head(Stored) = statePair[front]
    <2>1. 1 \in 1..(size - Loaded) /\ 0 + 1 - 1 = 0 BY <1>3, <1>7
    <2>2. Stored[1] = statePair[(front + 0) % MAX_SIZE]
      BY <2>1, <1>3, <1>4 DEF StoredShape
    <2>3. (front + 0) % MAX_SIZE = front
      <3>1. 0 \in 0..MAX_SIZE /\ front + 0 = front /\ front < MAX_SIZE
        BY <1>7, QueueAssumption DEF Slots, QueueAssumption
      <3>2. QED BY <3>1, <1>7, SlotAt
    <2>4. QED BY <2>2, <2>3, <1>9
  <1>11. Stored' = Tail(Stored)
    <2>1. Tail(Stored) \in Seq(V) /\ Len(Tail(Stored)) = size - 1
      BY <1>8, <1>9, HeadTailProperties
    <2>2. ASSUME NEW i \in 1..(size - 1)
          PROVE  Stored'[i] = Tail(Stored)[i]
      <3>1. /\ 1 + i - 1 = i /\ 0 + (i + 1) - 1 = i /\ i + 1 \in 1..size
            /\ size' - Loaded' = size - 1 /\ size - Loaded = size
        BY <1>2, <1>3, <1>7
      <3>2. Stored'[i] = statePair[(front + i) % MAX_SIZE]
        BY <3>1, <1>2, <1>3, <1>6 DEF StoredShape
      <3>3. Stored[i + 1] = statePair[(front + i) % MAX_SIZE]
        BY <3>1, <1>3, <1>4 DEF StoredShape
      <3>4. Tail(Stored)[i] = Stored[i + 1]
        BY <2>1, <1>9, HeadTailProperties
      <3>5. QED BY <3>2, <3>3, <3>4
    <2>3. QED BY <2>1, <2>2, <1>8, <1>9, SeqEqual
  <1>12. Published > 0 /\ Published' = Published - 1
    <2>1. Count({"deqLock", "deqLoad"}) \in Nat /\ Count({"deqLock", "deqLoad"}) > 0
      BY <1>0, <1>1, CountType DEF Goto
    <2>2. Typed /\ resource \in Nat BY DEF Inv, Typed
    <2>3. QED BY <1>0, <1>1, <1>2, <2>1, <2>2, PublishedChanges DEF Published
  <1>13. [u \in Consumers |-> value[u]]' =
           [[u \in Consumers |-> value[u]] EXCEPT ![c] = Head(Stored)]
    BY <1>2, <1>10 DEF Inv, Typed, Threads
  <1>14. QED BY <1>11, <1>12, <1>13 DEF Fifo!Take

-----------------------------------------------------------------------------
(* The FIFO starts empty.                                                  *)
LEMMA InitRefines == Init => Fifo!Init
  <1> SUFFICES ASSUME Init PROVE Fifo!Init OBVIOUS
  <1>1. Loaded = 0 BY DEF Init, Loaded, Threads
  <1>2. Stored = <<>>
    <2>1. StoredShape BY InvInit, StoredIsSequence
    <2>2. Len(Stored) = 0 BY <2>1, <1>1 DEF StoredShape, Init
    <2>3. QED BY <2>1, <2>2, EmptySeq DEF StoredShape
  <1>3. Published = 0
    <2>1. Count({"deqLock", "deqLoad"}) = 0 BY CountZero DEF Init
    <2>2. QED BY <2>1 DEF Published, Init
  <1>4. [c \in Consumers |-> value[c]] = [c \in Consumers |-> NoPair]
    BY DEF Init, Threads
  <1>5. QED BY <1>2, <1>3, <1>4 DEF Fifo!Init

(* Every step is a step of the FIFO or none.                               *)
LEMMA NextRefines == Inv /\ [Next]_vars => [Fifo!Next]_(Fifo!fifoVars)
  <1> SUFFICES ASSUME Inv, [Next]_vars PROVE [Fifo!Next]_(Fifo!fifoVars) OBVIOUS
  <1>1. ASSUME NEW t \in Threads, InitStep(t) \/ Restart(t)
        PROVE  UNCHANGED Fifo!fifoVars
    BY <1>1, InitLockIsQuiet, InitBodyIsQuiet, InitUnlockIsQuiet, RestartIsQuiet
    DEF InitStep
  <1>2. ASSUME NEW p \in Producers, EnqueueStep(p)
        PROVE  Fifo!Next \/ UNCHANGED Fifo!fifoVars
    BY <1>2, EnqueueLockIsQuiet, EnqueueStoreIsQuiet, EnqueueAdvanceIsPut,
       EnqueueUnlockIsQuiet, EnqueueSignalIsPublish
    DEF EnqueueStep, Fifo!Next
  <1>3. ASSUME NEW p \in Producers, NEW v \in Pairs, EnqueueWait(p, v)
        PROVE  UNCHANGED Fifo!fifoVars
    BY <1>3, EnqueueWaitIsQuiet
  <1>4. ASSUME NEW c \in Consumers, DequeueStep(c)
        PROVE  Fifo!Next \/ UNCHANGED Fifo!fifoVars
    BY <1>4, DequeueTakeIsQuiet, DequeueLockIsQuiet, DequeueLoadIsTake,
       DequeueAdvanceIsQuiet, DequeueSignalIsQuiet, DequeueUnlockIsQuiet
    DEF DequeueStep, Fifo!Next
  <1>5. CASE UNCHANGED vars
    BY <1>5
    DEF vars, ring, Fifo!fifoVars, Stored, Loaded, Published, Count
  <1>6. QED BY <1>1, <1>2, <1>3, <1>4, <1>5 DEF Next

(* The pair queue implements the bounded FIFO: pairs come out once each,   *)
(* in the order in which they were stored, whatever the numbers of         *)
(* threads and slots.                                                      *)
THEOREM QueueImplementsFifo == Spec => ImplementsFifo
  BY InitRefines, NextRefines, InvHolds, PTL DEF Spec, ImplementsFifo, Fifo!Spec
=============================================================================
