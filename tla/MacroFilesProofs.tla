--------------------------- MODULE MacroFilesProofs ---------------------------
(***************************************************************************)
(* Proofs about MacroFiles, and with it about Store, for any files, any    *)
(* contents closed under the editor, any depth of Stores and any faults.   *)
(* Inv is inductive; the safety properties that the run checks follow, and *)
(* so does that every step of the threads brings the end of ~Store nearer. *)
(***************************************************************************)
EXTENDS MacroFiles, SequenceTheorems, TLAPS

-----------------------------------------------------------------------------
(* The inductive invariant.                                                *)

(* The flag is set exactly while the thread is at a file, a Store that is  *)
(* being left is still there, and without a Store there is no thread.      *)
ThreadInStore ==
  /\ (downloading <=> dpc \in {"open", "transfer", "pushed"})
  /\ closing => stores # <<>>
  /\ stores = <<>> => dpc = "none"

(* The parameters do not change under a transfer.                          *)
ParamStable == dpc = "transfer" => target = param.file

(* Nothing points at a Store that was left.                                *)
PointersInside ==
  /\ param.store <= Len(stores)
  /\ \A i \in DOMAIN resultQueue : resultQueue[i].item.store <= Len(stores)

(* Until a thread was told to exit it serves a live item, and only a       *)
(* thread leaves results.                                                  *)
LiveUntilExit ==
  /\ downloadThreadRunning /\ ~downloadThreadExit => param.store # 0
  /\ resultQueue # <<>> => downloadThreadRunning \/ downloadThreadExit

(* The editor shows as many pairs as some file could hold.                 *)
EditorInside ==
  /\ \E c \in Contents : Len(shown) = Len(c)
  /\ page = "editor" => g_filePath \in Files

StoreInv ==
  /\ TypeOK
  /\ ThreadInStore /\ ParamStable /\ PointersInside /\ LiveUntilExit
  /\ ResultsTrue /\ FreedOnlyAfterExit

Inv == FilesTypeOK /\ StoreInv /\ EditorInside /\ PagesSeeWholeFiles

-----------------------------------------------------------------------------
(* Sequences.                                                              *)

Results == [item: Items, success: BOOLEAN]

(* The stack without its innermost Store.                                  *)
LEMMA FrontShorter ==
  ASSUME NEW S, NEW seq \in Seq(S), seq # <<>>
  PROVE  Front(seq) \in Seq(S) /\ Len(Front(seq)) = Len(seq) - 1 /\ Len(seq) \in Nat \ {0}
  <1>1. Len(seq) \in Nat \ {0}
    BY EmptySeq, LenProperties, SMT
  <1>2. SubSeq(seq, 1, Len(seq) - 1) \in Seq(S) /\ Len(SubSeq(seq, 1, Len(seq) - 1)) = Len(seq) - 1
    BY <1>1, SMT
  <1>3. QED BY <1>1, <1>2 DEF Front

(* A result that is put at the end.                                        *)
LEMMA Pushed ==
  ASSUME NEW S, NEW q \in Seq(S), NEW r \in S
  PROVE  /\ Append(q, r) \in Seq(S)
         /\ Len(Append(q, r)) = Len(q) + 1 /\ Len(q) \in Nat
         /\ \A i \in 1..Len(q) : Append(q, r)[i] = q[i]
         /\ Append(q, r)[Len(q) + 1] = r
         /\ DOMAIN q = 1..Len(q) /\ DOMAIN Append(q, r) = 1..(Len(q) + 1)
         /\ Append(q, r) # <<>>
  BY SMT

(* What an item is after the innermost Store was freed.                    *)
LEMMA FreedItem ==
  ASSUME NEW item \in Items
  PROVE  /\ Freed(item) \in Items /\ Freed(item).file = item.file
         /\ Freed(item).store = IF item.store = Len(stores) THEN 0 ELSE item.store
  BY StoreAssumption DEF Freed, Items, StoreAssumption

(* What the editor saves is a content of a file.                           *)
LEMMA SavedIsContent ==
  ASSUME shown \in Seq([state: PadStates, count: 0..MaxCount]),
         NEW c \in Contents, Len(shown) = Len(c)
  PROVE  SelectSeq(shown, IsWritten) \in Contents
  <1>1. shown \in [DOMAIN c -> [state: PadStates, count: 0..MaxCount]]
    <2>1. c \in Seq([state: PadStates, count: 1..MaxCount])
      BY MacroFilesAssumption DEF MacroFilesAssumption
    <2>2. DOMAIN c = 1..Len(c)
      BY <2>1, LenProperties
    <2>3. QED BY <2>2, LenProperties
  <1>2. SelectSeq(shown, IsWritten) \in Edited(c)
    BY <1>1 DEF Edited, IsWritten
  <1>3. QED BY <1>2, MacroFilesAssumption DEF MacroFilesAssumption

(* What ~Store leaves of the stack, the parameters and the queue.          *)
Kept(i) ==
  /\ resultQueue'[i].item.file = resultQueue[i].item.file
  /\ resultQueue'[i].success = resultQueue[i].success
  /\ resultQueue'[i].item.store =
       IF resultQueue[i].item.store = Len(stores) THEN 0 ELSE resultQueue[i].item.store
LEMMA Popped ==
  ASSUME TypeOK, PointersInside, stores # <<>>, PopStore
  PROVE  /\ stores' \in Seq([Files -> {"size", "Downloading", "answered"}])
         /\ Len(stores') = Len(stores) - 1 /\ Len(stores) \in Nat \ {0}
         /\ param' \in Items /\ param'.file = param.file
         /\ resultQueue' \in Seq(Results)
         /\ DOMAIN resultQueue' = DOMAIN resultQueue
         /\ \A i \in DOMAIN resultQueue : Kept(i)
         /\ PointersInside'
  <1>1. stores' \in Seq([Files -> {"size", "Downloading", "answered"}])
        /\ Len(stores') = Len(stores) - 1 /\ Len(stores) \in Nat \ {0}
    BY FrontShorter DEF TypeOK, PopStore
  <1>2. param \in Items /\ param' = Freed(param)
    BY DEF TypeOK, PopStore
  <1>3. param' \in Items /\ param'.file = param.file
        /\ param'.store = IF param.store = Len(stores) THEN 0 ELSE param.store
    BY <1>2, FreedItem
  <1>4. resultQueue \in Seq(Results) /\ DOMAIN resultQueue = 1..Len(resultQueue)
        /\ Len(resultQueue) \in Nat
    BY LenProperties DEF TypeOK, Results
  <1>5. resultQueue' = [i \in 1..Len(resultQueue) |->
                          [resultQueue[i] EXCEPT !.item = Freed(resultQueue[i].item)]]
    BY <1>4 DEF PopStore
  <1>6. \A i \in 1..Len(resultQueue) :
          /\ resultQueue[i] \in Results
          /\ Freed(resultQueue[i].item) \in Items
          /\ resultQueue'[i] = [resultQueue[i] EXCEPT !.item = Freed(resultQueue[i].item)]
    <2> TAKE i \in 1..Len(resultQueue)
    <2>1. resultQueue[i] \in Results
      BY <1>4, ElementOfSeq
    <2>2. resultQueue[i].item \in Items
      BY <2>1 DEF Results
    <2>3. QED BY <2>1, <2>2, <1>5, FreedItem
  <1>7. \A i \in 1..Len(resultQueue) :
          resultQueue'[i] \in Results /\ resultQueue'[i].item = Freed(resultQueue[i].item)
          /\ resultQueue'[i].success = resultQueue[i].success
    BY <1>6 DEF Results
  <1>8. resultQueue' \in Seq(Results) /\ DOMAIN resultQueue' = DOMAIN resultQueue
    <2>1. resultQueue' \in [1..Len(resultQueue) -> Results]
      BY <1>5, <1>7, Zenon
    <2>2. QED BY <2>1, <1>4, IsASeq
  <1>9. \A i \in DOMAIN resultQueue : Kept(i)
    <2> TAKE i \in DOMAIN resultQueue
    <2>1. resultQueue[i].item \in Items /\ resultQueue'[i].item = Freed(resultQueue[i].item)
          /\ resultQueue'[i].success = resultQueue[i].success
      BY <1>4, <1>6, <1>7 DEF Results
    <2>2. QED BY <2>1, FreedItem DEF Kept
  <1>10. PointersInside'
    <2>1. param'.store <= Len(stores')
      BY <1>1, <1>2, <1>3, StoreAssumption DEF PointersInside, Items, StoreAssumption
    <2>2. ASSUME NEW i \in DOMAIN resultQueue PROVE resultQueue'[i].item.store <= Len(stores')
      <3>1. resultQueue[i].item \in Items
        BY <1>4, <1>6 DEF Results
      <3>2. resultQueue[i].item.store \in Nat
        BY <3>1, StoreAssumption DEF Items, StoreAssumption
      <3>3. resultQueue[i].item.store <= Len(stores)
        BY DEF PointersInside
      <3>4. Kept(i)
        BY <1>9
      <3>5. QED BY <1>1, <3>2, <3>3, <3>4 DEF Kept
    <2>3. QED BY <2>1, <2>2, <1>8 DEF PointersInside
  <1>11. QED BY <1>1, <1>3, <1>8, <1>9, <1>10

-----------------------------------------------------------------------------
(* The steps of the store.                                                 *)

(* Steps that leave the stack, the parameters, the results and the files   *)
(* alone, and a transfer neither begin nor end.                            *)
Quiet ==
  /\ UNCHANGED <<stores, param, resultQueue, files>>
  /\ dpc # "transfer" /\ dpc' # "transfer"
LEMMA QuietStep ==
  ASSUME StoreInv, Quiet
  PROVE  ResultsTrue' /\ PointersInside' /\ ParamStable'
  <1>1. ResultsTrue'
    BY Zenon DEF StoreInv, ResultsTrue, Rewritten, Quiet
  <1>2. QED BY <1>1 DEF StoreInv, PointersInside, ParamStable, Quiet

(* The download thread between two files.                                  *)
LEMMA IdleThreadStep ==
  ASSUME StoreInv, CheckExit \/ WaitForRequest \/ ClearRequest \/ Begin \/ EndDownload
  PROVE  StoreInv'
  <1> USE DEF CheckExit, WaitForRequest, ClearRequest, Begin, EndDownload, KeepRequests, ToldToExit,
             flags
  <1>1. ResultsTrue' /\ PointersInside' /\ ParamStable'
    <2>1. Quiet
      BY DEF Quiet
    <2>2. QED BY <2>1, QuietStep
  <1>2. TypeOK' /\ ThreadInStore'
    <2> USE DEF StoreInv, TypeOK, ThreadInStore
    <2>1. CASE CheckExit
      BY <2>1
    <2>2. CASE WaitForRequest
      BY <2>2
    <2>3. CASE ClearRequest
      <3>1. TypeOK'
        BY <2>3
      <3>2. ThreadInStore'
        BY <2>3
      <3>3. QED BY <3>1, <3>2
    <2>4. CASE Begin
      <3>1. TypeOK'
        BY <2>4
      <3>2. ThreadInStore'
        BY <2>4
      <3>3. QED BY <3>1, <3>2
    <2>5. CASE EndDownload
      <3>1. TypeOK'
        BY <2>5
      <3>2. ThreadInStore'
        BY <2>5
      <3>3. QED BY <3>1, <3>2
    <2>6. QED BY <2>1, <2>2, <2>3, <2>4, <2>5
  <1>4. LiveUntilExit' /\ FreedOnlyAfterExit'
    BY DEF StoreInv, LiveUntilExit, FreedOnlyAfterExit
  <1>5. QED BY <1>1, <1>2, <1>4 DEF StoreInv

(* fopen, whether it succeeds or not.                                      *)
LEMMA OpenFileStep ==
  ASSUME StoreInv, OpenFile \/ OpenFails
  PROVE  StoreInv'
  <1>1. CASE OpenFile
    <2> USE <1>1 DEF OpenFile, flags
    <2>1. param.file \in Files /\ Empty \in Contents
      BY StoreAssumption DEF StoreInv, TypeOK, Items, StoreAssumption
    <2>2. files' \in [Files -> Contents \cup {NoFile}]
      BY <2>1 DEF StoreInv, TypeOK
    <2>3. TypeOK'
      BY <2>1, <2>2 DEF StoreInv, TypeOK
    <2>4. ResultsTrue'
      <3> SUFFICES ASSUME NEW i \in DOMAIN resultQueue, resultQueue[i].success,
                          resultQueue[i].item.store # 0, ~Rewritten(i)'
                   PROVE  files'[resultQueue[i].item.file] = Served[resultQueue[i].item.file]
        BY DEF ResultsTrue
      <3>1. resultQueue[i].item.file # param.file
        BY DEF Rewritten
      <3>2. ~Rewritten(i)
        BY DEF Rewritten
      <3>3. files[resultQueue[i].item.file] = Served[resultQueue[i].item.file]
        BY <3>2, Zenon DEF StoreInv, ResultsTrue
      <3>4. files'[resultQueue[i].item.file] = files[resultQueue[i].item.file]
        <4> DEFINE f == resultQueue[i].item.file
        <4>1. f \in Files
          <5>1. resultQueue \in Seq(Results)
            BY DEF StoreInv, TypeOK, Results
          <5>2. resultQueue[i] \in Results
            BY <5>1, ElementOfSeq, LenProperties
          <5>3. QED BY <5>2 DEF Results, Items
        <4>2. QED BY <4>1, <3>1 DEF StoreInv, TypeOK
      <3>5. QED BY <3>3, <3>4
    <2>5. ThreadInStore' /\ ParamStable'
      BY DEF StoreInv, ThreadInStore, ParamStable
    <2>6. PointersInside' /\ LiveUntilExit' /\ FreedOnlyAfterExit'
      BY DEF StoreInv, PointersInside, LiveUntilExit, FreedOnlyAfterExit
    <2>7. QED BY <2>3, <2>4, <2>5, <2>6 DEF StoreInv
  <1>2. CASE OpenFails
    <2> USE <1>2 DEF OpenFails, flags
    <2>1. TypeOK'
      BY DEF StoreInv, TypeOK
    <2>2. ResultsTrue'
      BY Zenon DEF StoreInv, ResultsTrue, Rewritten
    <2>3. ThreadInStore' /\ ParamStable' /\ PointersInside' /\ LiveUntilExit' /\ FreedOnlyAfterExit'
      BY DEF StoreInv, ThreadInStore, ParamStable, PointersInside, LiveUntilExit, FreedOnlyAfterExit
    <2>4. QED BY <2>1, <2>2, <2>3 DEF StoreInv
  <1>3. QED BY <1>1, <1>2

(* The elements of the queue.                                              *)
LEMMA ResultTyped ==
  ASSUME TypeOK
  PROVE  /\ resultQueue \in Seq(Results) /\ DOMAIN resultQueue = 1..Len(resultQueue)
         /\ Len(resultQueue) \in Nat
         /\ \A i \in DOMAIN resultQueue :
              /\ resultQueue[i] \in Results /\ resultQueue[i].item \in Items
              /\ resultQueue[i].item.store \in Nat /\ resultQueue[i].item.file \in Files
  <1>1. resultQueue \in Seq(Results)
    BY DEF TypeOK, Results
  <1>2. DOMAIN resultQueue = 1..Len(resultQueue) /\ Len(resultQueue) \in Nat
    BY <1>1, LenProperties
  <1>3. ASSUME NEW i \in DOMAIN resultQueue
        PROVE  /\ resultQueue[i] \in Results /\ resultQueue[i].item \in Items
               /\ resultQueue[i].item.store \in Nat /\ resultQueue[i].item.file \in Files
    <2>1. resultQueue[i] \in Results
      BY <1>1, <1>2, ElementOfSeq
    <2>2. resultQueue[i].item \in Items
      BY <2>1 DEF Results
    <2>3. QED BY <2>1, <2>2, StoreAssumption DEF Items, StoreAssumption
  <1>4. QED BY <1>1, <1>2, <1>3

(* The end of a transfer: the file has what the server had, or the result  *)
(* says that it failed.                                                    *)
LEMMA TransferStep ==
  ASSUME StoreInv, Transfer
  PROVE  StoreInv'
  <1> DEFINE r == resultQueue'[Len(resultQueue) + 1]
  <1>1. target = param.file /\ param \in Items /\ param.file \in Files
    BY DEF StoreInv, TypeOK, ParamStable, Transfer, Items
  <1>2. PICK success \in BOOLEAN :
          /\ resultQueue' = Append(resultQueue, [item |-> param, success |-> success])
          /\ files' \in [Files -> Contents \cup {NoFile}]
          /\ \A f \in Files : f # param.file => files'[f] = files[f]
          /\ success => files'[param.file] = Served[param.file]
    <2>1. \A part \in Contents :
            LET new == [files EXCEPT ![target] = part]
            IN  /\ new \in [Files -> Contents \cup {NoFile}]
                /\ new[param.file] = part
                /\ \A f \in Files : f # param.file => new[f] = files[f]
      BY <1>1 DEF StoreInv, TypeOK
    <2>2. Served[param.file] \in Contents
      BY <1>1, StoreAssumption DEF StoreAssumption
    <2>3. CASE files' = [files EXCEPT ![target] = Served[param.file]] /\ PushResult(TRUE)
      BY <2>1, <2>2, <2>3, Zenon DEF PushResult
    <2>4. CASE (\E part \in Contents : files' = [files EXCEPT ![target] = part])
               /\ PushResult(FALSE)
      BY <2>1, <2>4, Zenon DEF PushResult
    <2>5. QED BY <2>3, <2>4 DEF Transfer
  <1>3. [item |-> param, success |-> success] \in Results
    BY <1>1 DEF Results
  <1>4. /\ resultQueue' \in Seq(Results) /\ resultQueue' # <<>>
        /\ Len(resultQueue) \in Nat /\ DOMAIN resultQueue = 1..Len(resultQueue)
        /\ DOMAIN resultQueue' = 1..(Len(resultQueue) + 1)
        /\ \A i \in 1..Len(resultQueue) : resultQueue'[i] = resultQueue[i]
        /\ r = [item |-> param, success |-> success]
    BY <1>2, <1>3, ResultTyped, Pushed DEF StoreInv
  <1>5. UNCHANGED <<stores, closing, flags, event, downloading, param, target, crashed>>
        /\ dpc = "transfer" /\ dpc' = "pushed"
    BY DEF Transfer
  <1>6. r.item = param /\ r.success = success
    BY <1>4
  <1>7. \A i \in DOMAIN resultQueue' : i = Len(resultQueue) + 1 \/ i \in DOMAIN resultQueue
    BY <1>4
  <1> HIDE DEF r
  <1>8. TypeOK'
    BY <1>2, <1>4, <1>5 DEF StoreInv, TypeOK, Results, flags
  <1>9. ThreadInStore' /\ ParamStable'
    BY <1>5 DEF StoreInv, ThreadInStore, ParamStable
  <1>10. PointersInside'
    <2>1. \A i \in DOMAIN resultQueue' : resultQueue'[i].item.store <= Len(stores')
      BY <1>4, <1>5, <1>6, <1>7 DEF StoreInv, PointersInside, r
    <2>2. QED BY <2>1, <1>5 DEF StoreInv, PointersInside
  <1>11. FreedOnlyAfterExit' /\ LiveUntilExit'
    <2>1. downloadThreadRunning
      BY <1>5 DEF StoreInv, TypeOK
    <2>2. param.store = 0 => downloadThreadExit
      BY <2>1 DEF StoreInv, LiveUntilExit
    <2>3. LiveUntilExit'
      BY <2>1, <1>5 DEF StoreInv, LiveUntilExit, flags
    <2>4. ASSUME NEW i \in DOMAIN resultQueue', resultQueue'[i].item.store = 0
          PROVE  downloadThreadExit'
      BY <2>2, <2>4, <1>4, <1>5, <1>6, <1>7 DEF StoreInv, FreedOnlyAfterExit, flags, r
    <2>5. QED BY <2>3, <2>4 DEF FreedOnlyAfterExit
  <1>12. ResultsTrue'
    <2> SUFFICES ASSUME NEW i \in DOMAIN resultQueue', resultQueue'[i].success,
                        resultQueue'[i].item.store # 0, ~Rewritten(i)'
                 PROVE  files'[resultQueue'[i].item.file] = Served[resultQueue'[i].item.file]
      BY DEF ResultsTrue
    <2>1. CASE i = Len(resultQueue) + 1
      BY <2>1, <1>2, <1>6 DEF r
    <2>2. CASE i \in DOMAIN resultQueue
      <3> DEFINE f == resultQueue[i].item.file
      <3>1. resultQueue'[i] = resultQueue[i]
        BY <2>2, <1>4
      <3>2. f # param.file
        <4>1. Len(resultQueue) + 1 \in DOMAIN resultQueue' /\ Len(resultQueue) + 1 > i
          BY <2>2, <1>4
        <4>2. r.item.file = f => Rewritten(i)'
          BY <4>1, <3>1, Zenon DEF Rewritten, r
        <4>3. QED BY <4>2, <1>6
      <3>3. \A j \in DOMAIN resultQueue : j > i => resultQueue[j].item.file # f
        <4> TAKE j \in DOMAIN resultQueue
        <4>1. j \in DOMAIN resultQueue' /\ resultQueue'[j] = resultQueue[j]
          BY <1>4
        <4>2. QED BY <4>1, <3>1, Zenon DEF Rewritten
      <3>4. ~Rewritten(i)
        BY <3>2, <3>3, <1>1 DEF Rewritten
      <3>5. files[f] = Served[f]
        BY <3>1, <3>4, <2>2, Zenon DEF StoreInv, ResultsTrue
      <3>6. f \in Files
        BY <2>2, ResultTyped DEF StoreInv
      <3>7. QED BY <3>1, <3>2, <3>5, <3>6, <1>2
    <2>3. QED BY <2>1, <2>2, <1>7
  <1>13. QED BY <1>8, <1>9, <1>10, <1>11, <1>12 DEF StoreInv

(* The results are shown; one of a freed item aborts the process.          *)
LEMMA UpdateStep ==
  ASSUME StoreInv, Update
  PROVE  StoreInv'
  <1> DEFINE S == [Files -> {"size", "Downloading", "answered"}]
  <1>1. /\ stores \in Seq(S) /\ stores # <<>> /\ resultQueue' = <<>> /\ ~closing
        /\ UNCHANGED <<closing, flags, event, downloading, param, dpc, target, files>>
        /\ crashed' \in BOOLEAN
    BY DEF StoreInv, TypeOK, Update, InStore
  <1>2. stores' \in Seq(S) /\ Len(stores') = Len(stores)
    <2>1. Len(stores) \in Nat /\ DOMAIN stores = 1..Len(stores)
          /\ \A d \in 1..Len(stores) : stores[d] \in S
      BY <1>1, LenProperties, ElementOfSeq
    <2>2. \A d \in DOMAIN stores : [f \in Files |-> Show(d, f)] \in S
      BY <2>1 DEF Show
    <2>3. CASE stores' = stores
      BY <2>3, <1>1
    <2>4. CASE stores' = [d \in DOMAIN stores |-> [f \in Files |-> Show(d, f)]]
      <3>1. stores' \in [1..Len(stores) -> S]
        BY <2>1, <2>2, <2>4
      <3>2. QED BY <3>1, <2>1, IsASeq
    <2>5. QED BY <2>3, <2>4 DEF Update
  <1>3. stores' # <<>>
    BY <1>1, <1>2, EmptySeq, LenProperties
  <1>4. resultQueue' \in Seq([item: Items, success: BOOLEAN]) /\ DOMAIN resultQueue' = {}
    BY <1>1
  <1>5. TypeOK'
    BY <1>1, <1>2, <1>4 DEF StoreInv, TypeOK, flags
  <1>6. ThreadInStore' /\ ParamStable'
    BY <1>1, <1>3 DEF StoreInv, ThreadInStore, ParamStable
  <1>7. PointersInside' /\ ResultsTrue' /\ FreedOnlyAfterExit'
    BY <1>1, <1>2, <1>4 DEF StoreInv, PointersInside, ResultsTrue, FreedOnlyAfterExit
  <1>8. LiveUntilExit'
    BY <1>1 DEF StoreInv, LiveUntilExit, flags
  <1>9. QED BY <1>5, <1>6, <1>7, <1>8 DEF StoreInv

(* A request writes the parameters, but not during a transfer.             *)
LEMMA ClickFileStep ==
  ASSUME StoreInv, NEW f \in Files, ClickFile(f)
  PROVE  StoreInv'
  <1> DEFINE S == [Files -> {"size", "Downloading", "answered"}]
  <1>1. /\ stores \in Seq(S) /\ stores # <<>> /\ ~closing /\ ~downloading
        /\ UNCHANGED <<closing, downloadThreadExit, downloading, resultQueue, target, files,
                       crashed>>
        /\ downloadThreadRunning' = TRUE /\ event' = TRUE
        /\ param' = [store |-> Len(stores), file |-> f]
    BY DEF StoreInv, TypeOK, ClickFile, InStore, NotBusy
  <1>2. Len(stores) \in 1..MaxDepth /\ Len(stores) \in Nat
    BY <1>1, EmptySeq, LenProperties DEF StoreInv, TypeOK
  <1>3. stores' \in Seq(S) /\ Len(stores') = Len(stores) /\ stores' # <<>>
    <2>1. stores[Len(stores)] \in S
      BY <1>1, <1>2, ElementOfSeq
    <2>2. [stores[Len(stores)] EXCEPT ![f] = "Downloading"] \in S
      BY <2>1
    <2>3. stores' = [stores EXCEPT ![Len(stores)] = [stores[Len(stores)] EXCEPT ![f] = "Downloading"]]
      BY DEF ClickFile
    <2>4. stores' \in Seq(S) /\ Len(stores') = Len(stores)
      BY <1>1, <1>2, <2>2, <2>3, ExceptSeq
    <2>5. QED BY <2>4, <1>2, EmptySeq
  <1>4. param' \in Items
    BY <1>1, <1>2 DEF Items
  <1>5. dpc' = dpc \/ (dpc = "none" /\ dpc' \in {"none", "loop"})
    BY DEF ClickFile, Created, StoreInv, TypeOK
  <1>6. dpc # "transfer" /\ dpc' # "transfer"
    BY <1>1, <1>5 DEF StoreInv, ThreadInStore
  <1>7. TypeOK'
    BY <1>1, <1>2, <1>3, <1>4, <1>5 DEF StoreInv, TypeOK
  <1>8. ThreadInStore' /\ ParamStable'
    BY <1>1, <1>3, <1>5, <1>6 DEF StoreInv, ThreadInStore, ParamStable
  <1>9. PointersInside'
    BY <1>1, <1>2, <1>3 DEF StoreInv, PointersInside
  <1>10. LiveUntilExit' /\ FreedOnlyAfterExit'
    BY <1>1, <1>2 DEF StoreInv, LiveUntilExit, FreedOnlyAfterExit
  <1>11. ResultsTrue'
    BY <1>1, <1>6, Zenon DEF StoreInv, ResultsTrue, Rewritten
  <1>12. QED BY <1>7, <1>8, <1>9, <1>10, <1>11 DEF StoreInv

(* A Store is left; what pointed at its items points at freed ones.        *)
LEMMA CloseStep ==
  ASSUME StoreInv, CloseIdle \/ EndClose
  PROVE  StoreInv'
  <1> DEFINE S == [Files -> {"size", "Downloading", "answered"}]
  <1>1. /\ stores # <<>> /\ PopStore /\ UNCHANGED <<downloadThreadExit, downloading, target,
                                                    files, crashed>>
        /\ downloadThreadRunning' = FALSE /\ closing' = FALSE /\ dpc' = "none" /\ ~downloading
        /\ event' \in BOOLEAN
    <2>1. CASE CloseIdle
      BY <2>1 DEF CloseIdle, InStore, StoreInv, TypeOK, ThreadInStore, flags
    <2>2. CASE EndClose
      <3>1. dpc \in {"exited", "none"} /\ closing
        BY <2>2 DEF EndClose, ThreadHasExited
      <3>2. stores # <<>> /\ ~downloading
        BY <3>1 DEF StoreInv, ThreadInStore
      <3>3. QED BY <2>2, <3>1, <3>2 DEF EndClose, ExitFlagKept
    <2>3. QED BY <2>1, <2>2
  <1>2. resultQueue # <<>> => downloadThreadExit
    <2>1. CASE CloseIdle
      BY <2>1 DEF CloseIdle, StoreInv, LiveUntilExit
    <2>2. CASE EndClose
      BY <2>2 DEF EndClose, StoreInv, TypeOK
    <2>3. QED BY <2>1, <2>2
  <1>3. dpc # "transfer"
    BY <1>1 DEF StoreInv, ThreadInStore
  <1>4. /\ stores' \in Seq(S) /\ Len(stores') = Len(stores) - 1 /\ Len(stores) \in Nat \ {0}
        /\ param' \in Items /\ param'.file = param.file
        /\ resultQueue' \in Seq(Results)
        /\ DOMAIN resultQueue' = DOMAIN resultQueue
        /\ \A i \in DOMAIN resultQueue : Kept(i)
        /\ PointersInside'
    BY <1>1, Popped DEF StoreInv
  <1>5. resultQueue = <<>> => DOMAIN resultQueue' = {} /\ resultQueue' = <<>>
    BY <1>4, EmptySeq, LenProperties
  <1>6. TypeOK'
    <2>1. Len(stores') <= MaxDepth
      BY <1>4, StoreAssumption DEF StoreInv, TypeOK, StoreAssumption
    <2>2. QED BY <1>1, <1>4, <2>1 DEF StoreInv, TypeOK, Results
  <1>7. ThreadInStore' /\ ParamStable'
    BY <1>1 DEF ThreadInStore, ParamStable
  <1>8. LiveUntilExit' /\ FreedOnlyAfterExit'
    BY <1>1, <1>2, <1>5 DEF LiveUntilExit, FreedOnlyAfterExit
  <1>9. ResultsTrue'
    <2> SUFFICES ASSUME NEW i \in DOMAIN resultQueue', resultQueue'[i].success,
                        resultQueue'[i].item.store # 0, ~Rewritten(i)'
                 PROVE  files'[resultQueue'[i].item.file] = Served[resultQueue'[i].item.file]
      BY DEF ResultsTrue
    <2>1. i \in DOMAIN resultQueue /\ Kept(i)
      BY <1>4
    <2>2. resultQueue[i].success /\ resultQueue[i].item.store # 0
      BY <2>1 DEF Kept
    <2>3. \A j \in DOMAIN resultQueue : resultQueue'[j].item.file = resultQueue[j].item.file
      BY <1>4 DEF Kept
    <2>4. ~Rewritten(i)
      BY <1>3, <1>4, <2>1, <2>3, Zenon DEF Rewritten
    <2>5. files[resultQueue[i].item.file] = Served[resultQueue[i].item.file]
      BY <2>1, <2>2, <2>4, Zenon DEF StoreInv, ResultsTrue
    <2>6. QED BY <2>1, <2>3, <2>5, <1>1
  <1>10. QED BY <1>4, <1>6, <1>7, <1>8, <1>9 DEF StoreInv

(* ~Store begins to wait, or a Store is opened.                            *)
LEMMA BeginCloseStep ==
  ASSUME StoreInv, BeginClose
  PROVE  StoreInv'
  <1> USE DEF BeginClose, InStore, WakeUp
  <1>1. TypeOK'
    BY DEF StoreInv, TypeOK
  <1>2. ThreadInStore' /\ ParamStable' /\ PointersInside'
    BY DEF StoreInv, ThreadInStore, ParamStable, PointersInside
  <1>3. LiveUntilExit' /\ FreedOnlyAfterExit'
    BY DEF StoreInv, LiveUntilExit, FreedOnlyAfterExit
  <1>4. ResultsTrue'
    BY Zenon DEF StoreInv, ResultsTrue, Rewritten
  <1>5. QED BY <1>1, <1>2, <1>3, <1>4 DEF StoreInv

LEMMA OpenStoreStep ==
  ASSUME StoreInv, OpenStore
  PROVE  StoreInv'
  <1> DEFINE S == [Files -> {"size", "Downloading", "answered"}]
  <1>1. /\ stores \in Seq(S) /\ Len(stores) < MaxDepth /\ stores' = Append(stores, NewStore)
        /\ UNCHANGED <<closing, flags, event, downloading, param, resultQueue, dpc, target,
                       files, crashed>>
    BY DEF OpenStore, StoreInv, TypeOK
  <1>2. NewStore \in S
    BY DEF NewStore
  <1>3. stores' \in Seq(S) /\ Len(stores') = Len(stores) + 1 /\ Len(stores) \in Nat
        /\ stores' # <<>>
    BY <1>1, <1>2, Pushed
  <1>4. TypeOK'
    BY <1>1, <1>3, StoreAssumption DEF StoreInv, TypeOK, flags, StoreAssumption
  <1>5. ThreadInStore' /\ ParamStable'
    BY <1>1, <1>3 DEF StoreInv, ThreadInStore, ParamStable
  <1>6. PointersInside'
    <2>1. param.store \in Nat
      BY StoreAssumption DEF StoreInv, TypeOK, Items, StoreAssumption
    <2>2. QED BY <1>1, <1>3, <2>1, ResultTyped DEF StoreInv, PointersInside
  <1>7. LiveUntilExit' /\ FreedOnlyAfterExit'
    BY <1>1 DEF StoreInv, LiveUntilExit, FreedOnlyAfterExit, flags
  <1>8. ResultsTrue'
    BY <1>1, Zenon DEF StoreInv, ResultsTrue, Rewritten
  <1>9. QED BY <1>4, <1>5, <1>6, <1>7, <1>8 DEF StoreInv

-----------------------------------------------------------------------------
(* The store and the pages together.                                       *)

(* A file that is there stays there, whatever the store does.              *)
LEMMA StoreKeepsFiles ==
  ASSUME StoreInv, StoreStep \/ OpenStore, NEW f \in Files, files[f] # NoFile
  PROVE  files'[f] # NoFile
  <1>1. NoFile \notin Contents /\ Empty \in Contents
    BY StoreAssumption DEF StoreAssumption
  <1>2. CASE OpenFile
    BY <1>1, <1>2 DEF OpenFile, StoreInv, TypeOK
  <1>3. CASE Transfer
    <2>1. param.file \in Files
      BY DEF StoreInv, TypeOK, Items
    <2>2. Served[param.file] \in Contents
      BY <2>1, StoreAssumption DEF StoreAssumption
    <2>3. QED BY <1>1, <1>3, <2>2 DEF Transfer, StoreInv, TypeOK
  <1>4. CASE ~(OpenFile \/ Transfer)
    <2>1. files' = files
      BY <1>4 DEF StoreStep, UserStep, DownloadStep, OpenStore, CloseIdle, BeginClose, ClickFile,
         Update, EndClose, CheckExit, WaitForRequest, ClearRequest, Begin, OpenFails, EndDownload
    <2>2. QED BY <2>1
  <1>5. QED BY <1>2, <1>3, <1>4

LEMMA StoreStepKeeps ==
  ASSUME StoreInv, StoreStep \/ OpenStore
  PROVE  StoreInv'
  <1>1. CASE OpenStore
    BY <1>1, OpenStoreStep
  <1>2. CASE UserStep
    BY <1>2, CloseStep, BeginCloseStep, ClickFileStep DEF UserStep
  <1>3. CASE Update \/ EndClose
    BY <1>3, UpdateStep, CloseStep
  <1>4. CASE DownloadStep
    BY <1>4, IdleThreadStep, OpenFileStep, TransferStep DEF DownloadStep
  <1>5. QED BY <1>1, <1>2, <1>3, <1>4 DEF StoreStep

(* It acts only while a Store is on the screen, and so on top of the list. *)
LEMMA StoreOnTopOfList ==
  ASSUME Inv, StoreStep \/ (page = "list" /\ OpenStore)
  PROVE  page = "list"
  <1>1. CASE StoreStep
    <2>1. stores # <<>>
      BY <1>1 DEF Inv, StoreInv, ThreadInStore, StoreStep, UserStep, DownloadStep, CloseIdle,
         BeginClose, ClickFile, InStore, Update, EndClose, CheckExit, WaitForRequest,
         ClearRequest, Begin, OpenFile, OpenFails, Transfer, EndDownload
    <2>2. QED BY <2>1 DEF Inv, FilesTypeOK
  <1>2. QED BY <1>1

LEMMA StoreKeepsInv ==
  ASSUME Inv, StoreStep \/ (page = "list" /\ OpenStore), UNCHANGED pages
  PROVE  Inv'
  <1>1. StoreInv'
    BY StoreStepKeeps DEF Inv
  <1>2. page = "list" /\ page' = "list"
    BY StoreOnTopOfList DEF pages
  <1>3. \A f \in listed : files'[f] # NoFile
    BY StoreKeepsFiles DEF Inv, FilesTypeOK
  <1>4. FilesTypeOK'
    <2>1. TypeOK'
      BY <1>1 DEF StoreInv
    <2> HIDE DEF TypeOK
    <2>2. QED BY <1>2, <1>3, <2>1 DEF Inv, FilesTypeOK, pages, editor
  <1>5. EditorInside' /\ PagesSeeWholeFiles'
    BY <1>1, <1>2 DEF Inv, EditorInside, PagesSeeWholeFiles, DownloadsOnlyInStore, pages, editor,
       StoreInv, ThreadInStore
  <1>6. QED BY <1>1, <1>4, <1>5 DEF Inv

(* Without a Store every result is one of a freed item: what the pages do  *)
(* to the files does not concern the store.                                *)
LEMMA PagesKeepStore ==
  ASSUME StoreInv, stores = <<>>, UNCHANGED storeVars,
         files' \in [Files -> Contents \cup {NoFile}], crashed' \in BOOLEAN
  PROVE  StoreInv'
  <1> USE DEF storeVars, flags
  <1>1. \A i \in DOMAIN resultQueue : resultQueue[i].item.store = 0
    BY ResultTyped DEF StoreInv, PointersInside
  <1>2. ResultsTrue'
    BY <1>1 DEF ResultsTrue
  <1>3. TypeOK'
    BY DEF StoreInv, TypeOK
  <1>4. ThreadInStore' /\ ParamStable' /\ PointersInside' /\ LiveUntilExit' /\ FreedOnlyAfterExit'
    BY DEF StoreInv, ThreadInStore, ParamStable, PointersInside, LiveUntilExit, FreedOnlyAfterExit
  <1>5. QED BY <1>2, <1>3, <1>4 DEF StoreInv

(* The pairs that the editor can show.                                     *)
EditPairs == [state: PadStates, count: 0..MaxCount]

LEMMA ContentIsShowable ==
  ASSUME NEW c \in Contents
  PROVE  c \in Seq(EditPairs) /\ c # NoFile
  <1>1. c \in Seq([state: PadStates, count: 1..MaxCount])
    BY MacroFilesAssumption DEF MacroFilesAssumption
  <1>2. [state: PadStates, count: 1..MaxCount] \subseteq EditPairs
    BY DEF EditPairs
  <1>3. QED BY <1>1, <1>2, SeqMonotonic, StoreAssumption DEF StoreAssumption

(* initContent shows the file or nothing.                                  *)
LEMMA InitContentShows ==
  ASSUME NEW content \in Contents \cup {NoFile}, NEW before \in BOOLEAN,
         InitContent(content, before)
  PROVE  /\ shown' \in Seq(EditPairs) /\ \E c \in Contents : Len(shown') = Len(c)
         /\ listening' \in BOOLEAN /\ fresh' \in BOOLEAN
         /\ fresh' => shown' = content
  <1>1. Empty \in Contents /\ Empty = <<>>
    BY StoreAssumption, MacroFilesAssumption DEF StoreAssumption, MacroFilesAssumption
  <1>2. CASE content # NoFile /\ shown' = content /\ listening' = TRUE /\ fresh' = TRUE
    BY <1>2, ContentIsShowable
  <1>3. CASE shown' = <<>> /\ listening' = before /\ fresh' = FALSE
    BY <1>1, <1>3, EmptySeq
  <1>4. QED BY <1>2, <1>3 DEF InitContent

(* What is left to show of a page's step: the files and the page's state.  *)
PageTyped ==
  /\ page \in {"none", "list", "editor"}
  /\ listed \subseteq Files
  /\ g_filePath \in Files \cup {NoFile} /\ listening \in BOOLEAN /\ fresh \in BOOLEAN
  /\ shown \in Seq(EditPairs)
  /\ \A f \in listed : files[f] # NoFile
Fresh == page = "editor" /\ fresh => shown = files[g_filePath]
LEMMA PageKeeps ==
  ASSUME Inv, stores = <<>>, UNCHANGED storeVars,
         files' \in [Files -> Contents \cup {NoFile}], crashed' \in BOOLEAN,
         PageTyped', EditorInside', Fresh'
  PROVE  Inv'
  <1>1. StoreInv'
    BY PagesKeepStore DEF Inv
  <1>2. FilesTypeOK'
    <2>1. TypeOK' /\ stores' = <<>>
      BY <1>1 DEF StoreInv, storeVars
    <2> HIDE DEF TypeOK
    <2>2. QED BY <2>1 DEF PageTyped, FilesTypeOK, EditPairs
  <1>3. PagesSeeWholeFiles'
    BY <1>1 DEF StoreInv, ThreadInStore, PagesSeeWholeFiles, DownloadsOnlyInStore, Fresh
  <1>4. QED BY <1>1, <1>2, <1>3 DEF Inv

LEMMA PageFacts ==
  ASSUME Inv
  PROVE  /\ PageTyped /\ EditorInside /\ Fresh
         /\ files \in [Files -> Contents \cup {NoFile}] /\ crashed \in BOOLEAN
         /\ NoFile \notin Contents
  <1>1. PageTyped /\ EditorInside /\ Fresh
    BY DEF Inv, FilesTypeOK, PageTyped, PagesSeeWholeFiles, Fresh, EditPairs
  <1>2. QED BY <1>1, StoreAssumption DEF Inv, StoreInv, TypeOK, StoreAssumption

LEMMA ListStep ==
  ASSUME Inv, UNCHANGED storeVars, OpenList \/ CloseList \/ \E f \in Files : DeleteFile(f)
  PROVE  Inv'
  <1> USE PageFacts DEF On, editor
  <1>1. stores = <<>>
    BY DEF OpenList, CloseList, DeleteFile
  <1>2. CASE OpenList
    <2>1. PageTyped' /\ EditorInside' /\ Fresh'
      BY <1>2 DEF OpenList, PageTyped, EditorInside, Fresh
    <2>2. QED BY <1>1, <1>2, <2>1, PageKeeps DEF OpenList
  <1>3. CASE CloseList
    <2>1. PageTyped' /\ EditorInside' /\ Fresh'
      BY <1>3 DEF CloseList, PageTyped, EditorInside, Fresh
    <2>2. QED BY <1>1, <1>3, <2>1, PageKeeps DEF CloseList
  <1>4. ASSUME NEW f \in Files, DeleteFile(f) PROVE Inv'
    <2> USE <1>4 DEF DeleteFile, LosesListener
    <2>1. files' \in [Files -> Contents \cup {NoFile}]
      OBVIOUS
    <2>2. \A g \in listed' : files'[g] # NoFile
      BY DEF PageTyped
    <2>3. PageTyped' /\ EditorInside' /\ Fresh'
      BY <2>2 DEF PageTyped, EditorInside, Fresh
    <2>4. QED BY <1>1, <2>1, <2>3, PageKeeps
  <1>5. QED BY <1>2, <1>3, <1>4

(* Opening a file, reading it again, and giving up a write.                *)
LEMMA ReadStep ==
  ASSUME Inv, UNCHANGED storeVars, Reload \/ SaveFails \/ \E f \in Files : OpenEditor(f)
  PROVE  Inv'
  <1> USE PageFacts
  <1>1. stores = <<>>
    BY DEF Reload, SaveFails, OpenEditor, On
  <1>2. CASE Reload
    <2>1. files[g_filePath] \in Contents \cup {NoFile} /\ g_filePath \in Files
      BY <1>2 DEF Reload, On, EditorInside
    <2>2. shown' \in Seq(EditPairs) /\ (\E c \in Contents : Len(shown') = Len(c))
          /\ listening' \in BOOLEAN /\ fresh' \in BOOLEAN
          /\ (fresh' => shown' = files[g_filePath])
      BY <1>2, <2>1, InitContentShows DEF Reload, PageTyped
    <2>3. PageTyped' /\ EditorInside' /\ Fresh'
      BY <1>2, <2>1, <2>2 DEF Reload, PageTyped, EditorInside, Fresh
    <2>4. QED BY <1>1, <1>2, <2>3, PageKeeps DEF Reload
  <1>3. CASE SaveFails
    <2>1. PageTyped' /\ EditorInside' /\ Fresh'
      BY <1>3 DEF SaveFails, PageTyped, EditorInside, Fresh, editor
    <2>2. QED BY <1>1, <1>3, <2>1, PageKeeps DEF SaveFails
  <1>4. ASSUME NEW f \in Files, OpenEditor(f) PROVE Inv'
    <2>1. files[f] \in Contents \cup {NoFile}
      OBVIOUS
    <2>2. shown' \in Seq(EditPairs) /\ (\E c \in Contents : Len(shown') = Len(c))
          /\ listening' \in BOOLEAN /\ fresh' \in BOOLEAN
          /\ (fresh' => shown' = files[f])
      BY <1>4, <2>1, InitContentShows DEF OpenEditor
    <2>3. PageTyped' /\ EditorInside' /\ Fresh'
      BY <1>4, <2>2 DEF OpenEditor, PageTyped, EditorInside, Fresh
    <2>4. QED BY <1>1, <1>4, <2>3, PageKeeps DEF OpenEditor
  <1>5. QED BY <1>2, <1>3, <1>4

(* One pair is changed.                                                    *)
LEMMA ChangeStep ==
  ASSUME Inv, UNCHANGED storeVars, On("editor"), NEW i \in DOMAIN shown,
         NEW pair \in EditPairs, Change(i, pair)
  PROVE  Inv'
  <1> USE PageFacts DEF Change
  <1>1. shown \in Seq(EditPairs) /\ i \in 1..Len(shown)
    BY LenProperties DEF PageTyped
  <1>2. shown' \in Seq(EditPairs) /\ Len(shown') = Len(shown)
    BY <1>1, ExceptSeq
  <1>3. PageTyped' /\ EditorInside' /\ Fresh'
    BY <1>2 DEF PageTyped, EditorInside, Fresh
  <1>4. QED BY <1>3, PageKeeps DEF On

LEMMA EditStep ==
  ASSUME Inv, UNCHANGED storeVars, NEW i \in DOMAIN shown,
         (\E c \in 0..MaxCount : SetCount(i, c)) \/ \E st \in PadStates : SetCombination(i, st)
  PROVE  Inv'
  <1>1. shown[i] \in EditPairs
    BY PageFacts, LenProperties, ElementOfSeq DEF PageTyped
  <1>2. ASSUME NEW c \in 0..MaxCount, SetCount(i, c) PROVE Inv'
    <2>1. [shown[i] EXCEPT !.count = c] \in EditPairs
      BY <1>1 DEF EditPairs
    <2>2. QED BY <1>2, <2>1, ChangeStep DEF SetCount
  <1>3. ASSUME NEW st \in PadStates, SetCombination(i, st) PROVE Inv'
    <2>1. [shown[i] EXCEPT !.state = st] \in EditPairs
      BY <1>1 DEF EditPairs
    <2>2. QED BY <1>3, <2>1, ChangeStep DEF SetCombination
  <1>4. QED BY <1>2, <1>3

(* The pairs are written and read again.                                   *)
LEMMA SaveStep ==
  ASSUME Inv, UNCHANGED storeVars, Save
  PROVE  Inv'
  <1> USE PageFacts DEF Save, On
  <1> DEFINE new == SelectSeq(shown, IsWritten)
  <1>1. new \in Contents /\ g_filePath \in Files
    BY SavedIsContent DEF PageTyped, EditorInside, EditPairs
  <1>2. files' \in [Files -> Contents \cup {NoFile}] /\ files'[g_filePath] = new
        /\ \A f \in Files : files[f] # NoFile => files'[f] # NoFile
    BY <1>1
  <1> HIDE DEF new
  <1>3. InitContent(new, listening)
    BY <1>2
  <1>4. shown' \in Seq(EditPairs) /\ (\E c \in Contents : Len(shown') = Len(c))
        /\ listening' \in BOOLEAN /\ fresh' \in BOOLEAN
        /\ (fresh' => shown' = new)
    BY <1>1, <1>3, InitContentShows DEF PageTyped
  <1>5. PageTyped' /\ EditorInside' /\ Fresh'
    BY <1>1, <1>2, <1>4 DEF PageTyped, EditorInside, Fresh
  <1>6. QED BY <1>2, <1>5, PageKeeps

LEMMA CloseEditorStep ==
  ASSUME Inv, UNCHANGED storeVars, CloseEditor
  PROVE  Inv'
  <1> USE PageFacts DEF CloseEditor, On
  <1>1. (shown = <<>>)' /\ \E c \in Contents : Len(<<>>) = Len(c)
    BY StoreAssumption, MacroFilesAssumption DEF StoreAssumption, MacroFilesAssumption
  <1>2. PageTyped' /\ EditorInside' /\ Fresh'
    BY <1>1, EmptySeq DEF PageTyped, EditorInside, Fresh
  <1>3. QED BY <1>2, PageKeeps

-----------------------------------------------------------------------------
(* The theorems.                                                           *)

LEMMA InvInit == FilesInit => Inv
  <1> SUFFICES ASSUME FilesInit PROVE Inv
    OBVIOUS
  <1> USE DEF FilesInit, Init
  <1>1. stores \in Seq([Files -> {"size", "Downloading", "answered"}]) /\ Len(stores) = 0
    OBVIOUS
  <1>2. resultQueue \in Seq([item: Items, success: BOOLEAN]) /\ DOMAIN resultQueue = {}
    OBVIOUS
  <1>3. param \in Items /\ param.store = 0
    BY StoreAssumption DEF Items, StoreAssumption
  <1>4. TypeOK
    <2>1. Len(stores) <= MaxDepth /\ dpc = "none" /\ closing = FALSE
      BY <1>1, StoreAssumption DEF StoreAssumption
    <2>2. QED BY <1>1, <1>2, <1>3, <2>1, Zenon DEF TypeOK
  <1>5. StoreInv
    BY <1>1, <1>2, <1>3, <1>4 DEF StoreInv, ThreadInStore, ParamStable, PointersInside,
       LiveUntilExit, ResultsTrue, FreedOnlyAfterExit
  <1>6. \E c \in Contents : Len(shown) = Len(c)
    BY StoreAssumption, MacroFilesAssumption DEF StoreAssumption, MacroFilesAssumption
  <1>7. FilesTypeOK
    <2> HIDE DEF TypeOK
    <2>1. shown \in Seq(EditPairs)
      BY EmptySeq
    <2>2. QED BY <1>4, <2>1 DEF FilesTypeOK, EditPairs
  <1>8. QED BY <1>5, <1>6, <1>7 DEF Inv, EditorInside, PagesSeeWholeFiles, DownloadsOnlyInStore

LEMMA InvStep == Inv /\ [FilesNext]_allVars => Inv'
  <1> SUFFICES ASSUME Inv, [FilesNext]_allVars PROVE Inv'
    OBVIOUS
  <1>1. CASE PageStep /\ UNCHANGED storeVars
    BY <1>1, ListStep, ReadStep, EditStep, SaveStep, CloseEditorStep DEF PageStep
  <1>2. CASE (StoreStep \/ (page = "list" /\ OpenStore)) /\ UNCHANGED pages
    BY <1>2, StoreKeepsInv
  <1>3. CASE UNCHANGED allVars
    <2> USE <1>3 DEF allVars, vars, pages, editor, flags
    <2>1. StoreInv'
      BY Zenon DEF Inv, StoreInv, TypeOK, ThreadInStore, ParamStable, PointersInside, LiveUntilExit,
         ResultsTrue, Rewritten, FreedOnlyAfterExit
    <2> HIDE DEF TypeOK
    <2>2. FilesTypeOK' /\ EditorInside' /\ PagesSeeWholeFiles'
      BY <2>1, Zenon DEF Inv, StoreInv, FilesTypeOK, EditorInside, PagesSeeWholeFiles,
         DownloadsOnlyInStore
    <2>3. QED BY <2>1, <2>2 DEF Inv
  <1>4. QED BY <1>1, <1>2, <1>3 DEF FilesNext

(* The inductive invariant holds in every behaviour.                       *)
THEOREM InvHolds == FilesSpec => []Inv
  BY InvInit, InvStep, PTL DEF FilesSpec

(* The pages and the store keep their types: a listed file exists, no file *)
(* holds a pair with count 0, and the thread that ~Store waits for is not  *)
(* left waiting for a request (MacroFileView.hpp:137-140, Store.hpp:213).  *)
THEOREM TypeCorrect == FilesSpec => []FilesTypeOK
  <1>1. Inv => FilesTypeOK
    BY DEF Inv
  <1>2. QED BY <1>1, InvHolds, PTL

(* A result tells the truth about the file whose item it is shown on,      *)
(* whatever is clicked and left while the thread works (Store.hpp:100).    *)
THEOREM ResultsAreTrue == FilesSpec => []ResultsTrue
  <1>1. Inv => ResultsTrue
    BY DEF Inv, StoreInv
  <1>2. QED BY <1>1, InvHolds, PTL

(* No result is of a freed item before a thread was told to exit.          *)
THEOREM FreedNeedsExit == FilesSpec => []FreedOnlyAfterExit
  <1>1. Inv => FreedOnlyAfterExit
    BY DEF Inv, StoreInv
  <1>2. QED BY <1>1, InvHolds, PTL

(* The macro list and the editor never meet a file that is being written,  *)
(* and an editor that has changed nothing shows what its file holds.       *)
THEOREM PagesSeeFiles == FilesSpec => []PagesSeeWholeFiles
  <1>1. Inv => PagesSeeWholeFiles
    BY DEF Inv
  <1>2. QED BY <1>1, InvHolds, PTL

(* Leaving a Store gets shorter with every step, whatever the download     *)
(* thread was in the middle of: it takes at most five more, and ~Store     *)
(* returns (Store.hpp:78-109, 213-222).                                    *)
THEOREM CloseGetsShorter == FilesSpec => CloseShortens
  <1>1. ASSUME Inv, [FilesNext]_allVars
        PROVE  [closing => CloseStepsLeft' < CloseStepsLeft \/ crashed']_vars
    <2> SUFFICES ASSUME FilesNext, closing, ~crashed'
                 PROVE  CloseStepsLeft' < CloseStepsLeft
      BY <1>1 DEF allVars
    <2>1. /\ downloadThreadExit /\ stores # <<>>
          /\ dpc \in {"none", "loop", "wait", "clear", "begin", "open", "transfer",
                      "pushed", "exited"}
      BY <1>1 DEF Inv, StoreInv, TypeOK, ThreadInStore
    <2>2. ~PageStep
      BY <2>1 DEF PageStep, OpenList, CloseList, Reload, Save, SaveFails, CloseEditor,
                  DeleteFile, OpenEditor, SetCount, SetCombination, On
    <2>3. EndClose \/ DownloadStep
      BY <2>2 DEF FilesNext, StoreStep, UserStep, CloseIdle, BeginClose, ClickFile, Update,
                  OpenStore, InStore
    <2>4. CASE EndClose
      <3>1. ~closing' /\ dpc \in {"exited", "none"}
        BY <2>4 DEF EndClose, ThreadHasExited
      <3>2. QED BY <3>1 DEF CloseStepsLeft, CloseSteps
    <2>5. CASE DownloadStep
      <3>1. closing'
        BY <2>5 DEF DownloadStep, CheckExit, WaitForRequest, ClearRequest, Begin, OpenFile,
                    OpenFails, Transfer, EndDownload
      <3>2. \/ dpc = "loop" /\ dpc' = "exited"
            \/ dpc = "wait" /\ dpc' = "clear"
            \/ dpc = "clear" /\ dpc' = "begin"
            \/ dpc = "begin" /\ dpc' = "exited"
            \/ dpc = "open" /\ dpc' = "transfer"
            \/ dpc = "transfer" /\ dpc' = "pushed"
            \/ dpc = "pushed" /\ dpc' = "loop"
        BY <2>1, <2>5 DEF DownloadStep, CheckExit, WaitForRequest, ClearRequest, Begin,
                          ToldToExit, OpenFile, OpenFails, Transfer, EndDownload
      <3>3. QED BY <3>1, <3>2 DEF CloseStepsLeft, CloseSteps
    <2>6. QED BY <2>3, <2>4, <2>5
  <1>2. QED BY <1>1, InvHolds, PTL DEF FilesSpec, CloseShortens, CloseNearer
-----------------------------------------------------------------------------
(* The end of a request.                                                   *)

(* The item that was asked for is one of its Store's items.                *)
LEMMA ParamInside ==
  ASSUME StoreInv, param.store # 0
  PROVE  /\ param \in Items /\ param.file \in Files
         /\ param.store \in DOMAIN stores /\ DOMAIN stores = 1..Len(stores)
         /\ param = [store |-> param.store, file |-> param.file]
  <1>1. param \in Items /\ param.store <= Len(stores)
    BY DEF StoreInv, TypeOK, PointersInside
  <1>2. param.store \in Nat /\ param.file \in Files
        /\ param = [store |-> param.store, file |-> param.file]
    BY <1>1, StoreAssumption DEF Items, StoreAssumption
  <1>3. Len(stores) \in Nat /\ DOMAIN stores = 1..Len(stores)
    <2>1. stores \in Seq([Files -> {"size", "Downloading", "answered"}])
      BY DEF StoreInv, TypeOK
    <2>2. QED BY <2>1, LenProperties
  <1>4. QED BY <1>1, <1>2, <1>3

(* What an item shows does not change under a new Store.                   *)
LEMMA StillWaiting ==
  ASSUME StoreInv, UNCHANGED param, UNCHANGED stores \/ OpenStore
  PROVE  Waiting(param.file)' <=> Waiting(param.file)
  <1>1. CASE UNCHANGED stores
    BY <1>1 DEF Waiting
  <1>2. CASE OpenStore
    <2>1. CASE param.store = 0
      BY <2>1 DEF Waiting
    <2>2. CASE param.store # 0
      <3>1. param.store \in 1..Len(stores)
        BY <2>2, ParamInside
      <3>2. stores \in Seq([Files -> {"size", "Downloading", "answered"}])
            /\ stores' = Append(stores, NewStore)
        BY <1>2 DEF StoreInv, TypeOK, OpenStore
      <3>3. stores'[param.store] = stores[param.store]
        BY <3>1, <3>2, SMT
      <3>4. QED BY <3>3 DEF Waiting
    <2>3. QED BY <2>1, <2>2
  <1>3. QED BY <1>1, <1>2

(* update() shows the result of the last request, if it is there, and      *)
(* leaves its item alone otherwise.                                        *)
LEMMA UpdateShows ==
  ASSUME StoreInv, Update, Waiting(param.file), ~downloadThreadExit
  PROVE  ~crashed' /\ (Waiting(param.file)' <=> param \notin Answered)
  <1>1. \A i \in DOMAIN resultQueue : resultQueue[i].item.store # 0
    BY DEF StoreInv, FreedOnlyAfterExit
  <1>2. ~\E item \in Answered : item.store = 0
    BY <1>1 DEF Answered
  <1>3. crashed' = FALSE /\ UNCHANGED param
        /\ stores' = [d \in DOMAIN stores |-> [f \in Files |-> Show(d, f)]]
    BY <1>2, Zenon DEF Update
  <1>4. param.store # 0 /\ stores[param.store][param.file] = "Downloading"
    BY DEF Waiting
  <1>5. /\ param.file \in Files /\ param.store \in DOMAIN stores
        /\ param = [store |-> param.store, file |-> param.file]
    BY <1>4, ParamInside
  <1>6. stores'[param.store][param.file] = Show(param.store, param.file)
    BY <1>3, <1>5
  <1>7. Show(param.store, param.file) = IF param \in Answered THEN "answered" ELSE "Downloading"
    BY <1>4, <1>5 DEF Show
  <1>8. QED BY <1>3, <1>4, <1>6, <1>7 DEF Waiting

(* The result that a transfer leaves is that of the last request.          *)
LEMMA TransferAnswers ==
  ASSUME StoreInv, Transfer
  PROVE  param' = param /\ (param \in Answered)'
  <1>1. param' = param /\ param \in Items
    BY DEF Transfer, StoreInv, TypeOK
  <1>2. PICK success \in BOOLEAN : PushResult(success)
    BY DEF Transfer
  <1>3. resultQueue' = Append(resultQueue, [item |-> param, success |-> success])
        /\ [item |-> param, success |-> success] \in Results
    BY <1>1, <1>2 DEF PushResult, Results
  <1>4. resultQueue \in Seq(Results)
    BY ResultTyped DEF StoreInv
  <1>5. /\ Len(resultQueue) + 1 \in DOMAIN resultQueue'
        /\ resultQueue'[Len(resultQueue) + 1] = [item |-> param, success |-> success]
    <2>1. Len(resultQueue) + 1 \in 1..(Len(resultQueue) + 1)
      BY <1>4, LenProperties
    <2>2. QED BY <2>1, <1>3, <1>4, Pushed
  <1>6. resultQueue'[Len(resultQueue) + 1].item = param'
    BY <1>1, <1>5
  <1>7. QED BY <1>1, <1>5, <1>6, Zenon DEF Answered

(* What can happen while the last request waits: no page is on top, and no *)
(* Store can be left without the thread being told to exit.                *)
LEMMA WhileWaiting ==
  ASSUME Inv, LastWaits, FilesNext
  PROVE  \/ \E f \in Files : ClickFile(f)
         \/ OpenStore \/ BeginClose \/ Update \/ DownloadStep
  <1>1. dpc # "none" /\ downloadThreadRunning /\ ~closing /\ stores # <<>>
    BY DEF Inv, StoreInv, TypeOK, ThreadInStore, LastWaits
  <1>2. ~PageStep
    BY <1>1 DEF PageStep, OpenList, CloseList, Reload, Save, SaveFails, CloseEditor,
                DeleteFile, OpenEditor, SetCount, SetCombination, On
  <1>3. ~CloseIdle /\ ~EndClose
    BY <1>1 DEF CloseIdle, EndClose
  <1>4. QED BY <1>2, <1>3 DEF FilesNext, StoreStep, UserStep

(* A request that comes to wait was made by a click.                       *)
LEMMA RequestIsClick ==
  ASSUME Inv, FilesNext, ~LastWaits, LastWaits'
  PROVE  \E f \in Files : ClickFile(f)
  <1>1. CASE PageStep /\ UNCHANGED storeVars
    <2>1. UNCHANGED <<stores, param, downloadThreadExit, dpc>>
      BY <1>1 DEF storeVars, flags
    <2>2. QED BY <2>1 DEF LastWaits, Waiting
  <1>2. CASE OpenStore
    <2>1. UNCHANGED <<param, downloadThreadExit, dpc>>
      BY <1>2 DEF OpenStore, flags
    <2>2. Waiting(param.file)' <=> Waiting(param.file)
      BY <1>2, <2>1, StillWaiting DEF Inv
    <2>3. QED BY <2>1, <2>2 DEF LastWaits
  <1>3. CASE CloseIdle \/ EndClose
    <2>1. dpc' = "none"
      BY <1>3 DEF CloseIdle, EndClose, ThreadHasExited, Inv, StoreInv, TypeOK
    <2>2. QED BY <2>1 DEF LastWaits
  <1>4. CASE BeginClose
    BY <1>4 DEF BeginClose, LastWaits
  <1>5. CASE Update
    <2>1. UNCHANGED <<param, downloadThreadExit, dpc>>
      BY <1>5 DEF Update, flags
    <2>2. Waiting(param.file)' /\ ~Waiting(param.file)
      BY <2>1 DEF LastWaits
    <2>3. param.store # 0
      BY <2>1, <2>2 DEF Waiting
    <2>4. param.file \in Files /\ param.store \in DOMAIN stores
      BY <2>3, ParamInside DEF Inv
    <2>5. stores[param.store][param.file] # "Downloading"
          /\ stores'[param.store][param.file] = "Downloading"
      BY <2>1, <2>2, <2>3 DEF Waiting
    <2>6. stores'[param.store][param.file] \in
            {"answered", stores[param.store][param.file]}
      <3>1. stores' = stores
            \/ stores' = [d \in DOMAIN stores |-> [f \in Files |-> Show(d, f)]]
        BY <1>5, Zenon DEF Update
      <3>2. Show(param.store, param.file) \in {"answered", stores[param.store][param.file]}
        BY DEF Show
      <3>3. QED BY <2>4, <3>1, <3>2
    <2>7. QED BY <2>5, <2>6
  <1>6. CASE DownloadStep
    <2>1. UNCHANGED <<stores, param, downloadThreadExit>> /\ dpc # "none"
      BY <1>6 DEF DownloadStep, CheckExit, WaitForRequest, ClearRequest, Begin, OpenFile,
                  OpenFails, Transfer, EndDownload, flags
    <2>2. QED BY <2>1 DEF LastWaits, Waiting
  <1>7. QED BY <1>1, <1>2, <1>3, <1>4, <1>5, <1>6 DEF FilesNext, StoreStep, UserStep

(* The download thread ends only when it was told to.                      *)
LEMMA EndsWhenTold ==
  ASSUME Inv, dpc = "exited" => downloadThreadExit, FilesNext
  PROVE  dpc' = "exited" => downloadThreadExit'
  <1>1. CASE PageStep /\ UNCHANGED storeVars
    BY <1>1 DEF storeVars, flags
  <1>2. CASE UserStep \/ OpenStore \/ Update
    BY <1>2 DEF UserStep, CloseIdle, BeginClose, ClickFile, Created, OpenStore, Update, flags
  <1>3. CASE EndClose
    BY <1>3 DEF EndClose, ThreadHasExited
  <1>4. CASE DownloadStep
    BY <1>4 DEF DownloadStep, CheckExit, WaitForRequest, ClearRequest, Begin, ToldToExit,
                OpenFile, OpenFails, Transfer, EndDownload, flags
  <1>5. QED BY <1>1, <1>2, <1>3, <1>4 DEF FilesNext, StoreStep

(* One step, of whichever thread.                                          *)
LEMMA NotLostStep ==
  ASSUME Inv, RequestNotLost, FilesNext
  PROVE  RequestNotLost'
  <1>0. dpc' = "exited" => downloadThreadExit'
    BY EndsWhenTold DEF RequestNotLost
  <1> SUFFICES ASSUME LastWaits', (param \notin Answered)'
               PROVE  event' \/ dpc' \in {"begin", "open", "transfer"}
    BY <1>0 DEF RequestNotLost
  <1>1. CASE \E f \in Files : ClickFile(f)
    BY <1>1 DEF ClickFile
  <1>2. CASE ~\E f \in Files : ClickFile(f)
    <2>1. LastWaits
      BY <1>2, RequestIsClick
    <2>2. OpenStore \/ BeginClose \/ Update \/ DownloadStep
      BY <1>2, <2>1, WhileWaiting
    <2>3. CASE OpenStore
      <3>1. UNCHANGED <<param, resultQueue, event, dpc>>
        BY <2>3 DEF OpenStore
      <3>2. QED BY <2>1, <3>1 DEF RequestNotLost, Answered
    <2>4. CASE BeginClose
      BY <2>4 DEF BeginClose, WakeUp
    <2>5. CASE Update
      <3>1. UNCHANGED <<param, event, dpc>>
        BY <2>5 DEF Update
      <3>2. Waiting(param.file)' <=> param \notin Answered
        BY <2>1, <2>5, UpdateShows DEF LastWaits, Inv
      <3>3. Waiting(param.file)'
        BY DEF LastWaits
      <3>4. QED BY <2>1, <3>1, <3>2, <3>3 DEF RequestNotLost
    <2>6. CASE DownloadStep
      <3>1. ~Transfer
        BY TransferAnswers DEF Inv
      <3>2. CASE OpenFails \/ OpenFile
        BY <3>2 DEF OpenFails, OpenFile
      <3>3. CASE ClearRequest \/ Begin
        BY <2>1, <3>3 DEF ClearRequest, Begin, ToldToExit, LastWaits
      <3>4. CASE CheckExit \/ WaitForRequest \/ EndDownload
        <4>1. UNCHANGED <<param, resultQueue, event>>
              /\ dpc \notin {"begin", "open", "transfer"}
          BY <3>4 DEF CheckExit, WaitForRequest, EndDownload, KeepRequests
        <4>2. event
          BY <2>1, <4>1 DEF RequestNotLost, Answered
        <4>3. QED BY <4>1, <4>2
      <3>5. QED BY <2>6, <3>1, <3>2, <3>3, <3>4 DEF DownloadStep
    <2>7. QED BY <2>2, <2>3, <2>4, <2>5, <2>6
  <1>3. QED BY <1>1, <1>2

(* The request made last is never lost between the two threads: until its  *)
(* result is there to be shown, the event is signalled or the thread has   *)
(* the parameters still before it, although it clears the event after it   *)
(* was woken, and so after a click as well (Store.hpp:78-131).             *)
THEOREM RequestIsNotLost == FilesSpec => []RequestNotLost
  <1>1. FilesInit => RequestNotLost
    BY DEF FilesInit, Init, RequestNotLost, LastWaits
  <1>2. Inv /\ RequestNotLost /\ [FilesNext]_allVars => RequestNotLost'
    <2>1. ASSUME Inv, RequestNotLost, UNCHANGED allVars PROVE RequestNotLost'
      <3>1. UNCHANGED <<stores, param, resultQueue, downloadThreadExit, dpc, event>>
        BY <2>1 DEF allVars, vars, flags
      <3>2. QED BY <2>1, <3>1 DEF RequestNotLost, LastWaits, Waiting, Answered
    <2>2. QED BY <2>1, NotLostStep
  <1>3. QED BY <1>1, <1>2, InvHolds, PTL DEF FilesSpec

(* Every step of the download thread brings the result of the last request *)
(* nearer, update() then shows it, and no other step puts it off, except   *)
(* another request, a Store that is left or a fault: at most seven steps   *)
(* of the thread and one of update() lie ahead (Store.hpp:78-109,          *)
(* 204-211).                                                               *)
THEOREM RequestGetsNearer == FilesSpec => RequestNears
  <1>1. ASSUME Inv, [FilesNext]_allVars
        PROVE  [LastWaits /\ ~AnotherRequest =>
                  \/ crashed' \/ downloadThreadExit'
                  \/ RequestStepsLeft' < RequestStepsLeft
                  \/ RequestStepsLeft' = RequestStepsLeft
                       /\ IF param \in Answered THEN resultQueue' # <<>>
                                                ELSE dpc' = dpc]_vars
    <2> SUFFICES ASSUME FilesNext, LastWaits, param' = param, ~crashed', ~downloadThreadExit'
                 PROVE  \/ RequestStepsLeft' < RequestStepsLeft
                        \/ RequestStepsLeft' = RequestStepsLeft
                             /\ IF param \in Answered THEN resultQueue' # <<>>
                                                      ELSE dpc' = dpc
      BY <1>1 DEF allVars, AnotherRequest
    <2>1. Waiting(param.file)
      BY DEF LastWaits
    <2>2. param \in Answered => resultQueue # <<>>
      <3>1. DOMAIN resultQueue = 1..Len(resultQueue)
        BY <1>1, ResultTyped DEF Inv, StoreInv
      <3>2. resultQueue = <<>> => DOMAIN resultQueue = {}
        BY <3>1
      <3>3. QED BY <3>2 DEF Answered
    <2>3. ASSUME Waiting(param.file)', UNCHANGED <<resultQueue, dpc>>
          PROVE  RequestStepsLeft' = RequestStepsLeft
                 /\ IF param \in Answered THEN resultQueue' # <<>> ELSE dpc' = dpc
      <3>1. Answered' = Answered
        BY <2>3 DEF Answered
      <3>2. RequestStepsLeft' = RequestStepsLeft
        BY <2>1, <2>3, <3>1 DEF RequestStepsLeft
      <3>3. QED BY <2>2, <2>3, <3>2
    <2>4. CASE \E f \in Files : ClickFile(f)
      <3>1. PICK f \in Files : ClickFile(f)
        BY <2>4
      <3>2. UNCHANGED <<resultQueue, dpc>>
        BY <1>1, <3>1 DEF ClickFile, Inv, StoreInv, TypeOK, LastWaits
      <3>3. Waiting(param.file)'
        <4>1. param.store # 0 /\ param = [store |-> Len(stores), file |-> f]
          BY <2>1, <3>1 DEF ClickFile, Waiting
        <4>2. param.store \in DOMAIN stores
          BY <1>1, <4>1, ParamInside DEF Inv
        <4>3. stores \in Seq([Files -> {"size", "Downloading", "answered"}])
          BY <1>1 DEF Inv, StoreInv, TypeOK
        <4>4. stores[Len(stores)] \in [Files -> {"size", "Downloading", "answered"}]
          BY <4>1, <4>2, <4>3, LenProperties, ElementOfSeq
        <4>5. stores' = [stores EXCEPT ![Len(stores)][f] = "Downloading"]
          BY <3>1 DEF ClickFile
        <4>6. stores'[Len(stores)][f] = "Downloading"
          BY <4>1, <4>2, <4>4, <4>5
        <4>7. param.store = Len(stores) /\ param.file = f
          BY <4>1
        <4>8. QED BY <4>1, <4>6, <4>7 DEF Waiting
      <3>4. QED BY <2>3, <3>2, <3>3
    <2>5. CASE OpenStore
      <3>1. UNCHANGED <<resultQueue, dpc>>
        BY <2>5 DEF OpenStore
      <3>2. QED BY <1>1, <2>1, <2>3, <2>5, <3>1, StillWaiting DEF Inv
    <2>6. CASE BeginClose
      BY <2>6 DEF BeginClose
    <2>7. CASE Update
      <3>1. resultQueue' = <<>> /\ dpc' = dpc
        BY <2>7 DEF Update
      <3>2. Answered' = {}
        BY <3>1 DEF Answered
      <3>3. Waiting(param.file)' <=> param \notin Answered
        BY <1>1, <2>1, <2>7, UpdateShows DEF LastWaits, Inv
      <3>4. CASE param \in Answered
        BY <2>1, <3>3, <3>4 DEF RequestStepsLeft
      <3>5. CASE param \notin Answered
        <4>1. RequestStepsLeft' = RequestStepsLeft
          BY <2>1, <3>1, <3>2, <3>3, <3>5 DEF RequestStepsLeft
        <4>2. QED BY <3>1, <3>5, <4>1
      <3>6. QED BY <3>4, <3>5
    <2>8. CASE DownloadStep
      <3>1. UNCHANGED stores
        BY <2>8 DEF DownloadStep, CheckExit, WaitForRequest, ClearRequest, Begin, OpenFile,
                    OpenFails, Transfer, EndDownload
      <3>2. Waiting(param.file)'
        BY <2>1, <3>1 DEF Waiting
      <3>3. CASE Transfer
        <4>1. (param \in Answered)' /\ dpc = "transfer"
          BY <1>1, <3>3, TransferAnswers DEF Inv, Transfer
        <4>2. RequestStepsLeft' = 1
          BY <3>2, <4>1 DEF RequestStepsLeft
        <4>3. resultQueue' # <<>>
          <5>1. (DOMAIN resultQueue)' # {}
            BY <4>1 DEF Answered
          <5>2. QED BY <5>1
        <4>4. RequestStepsLeft = IF param \in Answered THEN 1 ELSE 2
          BY <2>1, <4>1 DEF RequestStepsLeft, RequestSteps
        <4>5. QED BY <4>2, <4>3, <4>4
      <3>4. CASE ~Transfer
        <4>1. UNCHANGED resultQueue
          BY <2>8, <3>4 DEF DownloadStep, CheckExit, WaitForRequest, ClearRequest, Begin,
                            OpenFile, OpenFails, EndDownload
        <4>2. Answered' = Answered
          BY <4>1 DEF Answered
        <4>3. CASE param \in Answered
          BY <2>1, <2>2, <3>2, <4>1, <4>2, <4>3 DEF RequestStepsLeft
        <4>4. CASE param \notin Answered
          <5>1. \/ dpc = "loop" /\ dpc' = "wait"
                \/ dpc = "wait" /\ dpc' = "clear"
                \/ dpc = "clear" /\ dpc' = "begin"
                \/ dpc = "begin" /\ dpc' = "open"
                \/ dpc = "open" /\ dpc' = "transfer"
                \/ dpc = "pushed" /\ dpc' = "loop"
            BY <2>8, <3>4 DEF LastWaits, DownloadStep, CheckExit, WaitForRequest, ClearRequest,
                              Begin, ToldToExit, OpenFile, OpenFails, EndDownload
          <5>2. RequestSteps[dpc]' < RequestSteps[dpc]
                /\ RequestSteps[dpc] \in Nat /\ RequestSteps[dpc]' \in Nat
            BY <5>1 DEF RequestSteps
          <5>3. /\ RequestStepsLeft = 1 + RequestSteps[dpc]
                /\ RequestStepsLeft' = 1 + RequestSteps[dpc]'
            BY <2>1, <3>2, <4>2, <4>4 DEF RequestStepsLeft
          <5>4. QED BY <5>2, <5>3
        <4>5. QED BY <4>3, <4>4
      <3>5. QED BY <3>3, <3>4
    <2>9. QED BY <1>1, <2>4, <2>5, <2>6, <2>7, <2>8, WhileWaiting
  <1>2. QED BY <1>1, InvHolds, PTL DEF FilesSpec, RequestNears, RequestNearer

(* The download thread comes nearer to what the GUI thread waits for, the  *)
(* answer to its request or the end of the thread (Store.hpp:78-131,       *)
(* 204-222).                                                               *)
THEOREM DownloadingAdvances == FilesSpec => StoreAdvances
  BY RequestIsNotLost, RequestGetsNearer, CloseGetsShorter, PTL DEF StoreAdvances, RequestNears,
     CloseShortens
===============================================================================
