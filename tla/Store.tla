-------------------------------- MODULE Store --------------------------------
(***************************************************************************)
(* The overlay's macro store: overlay/source/gui/Store.hpp.  Two threads   *)
(* take part: the GUI thread, which shows a stack of Stores (one for each  *)
(* folder that was entered), asks for files, shows the results frame by    *)
(* frame and ends the download thread when a Store is left; and            *)
(* downloadFilePoll, which downloads the file that was asked for last.     *)
(*                                                                         *)
(* Both run on the process's one core, so a listener or update() of the    *)
(* GUI thread is one step, except where ~Store waits.  The download thread *)
(* may be interrupted anywhere.                                            *)
(***************************************************************************)
EXTENDS SequencesExt

CONSTANTS Files,     \* the names that the server lists in every folder
          Contents,  \* what a macro file can hold
          Empty,     \* nothing: a file just created
          Served,    \* what the server has under each name
          NoFile,    \* the file does not exist
          MaxDepth,  \* bound: Stores on top of each other
          MaxResults,\* bound: results not shown yet when a file is clicked;
                     \* update() takes all of them in every frame
          Faults     \* which of AllFaults may happen

(* threadCreate, the fopen of the file, the transfer.                      *)
AllFaults == {"create", "fopen", "transfer"}

ASSUME StoreAssumption ==
  /\ Empty \in Contents /\ NoFile \notin Contents \cup Files
  /\ Served \in [Files -> Contents]
  /\ MaxDepth \in Nat \ {0} /\ MaxResults \in Nat
  /\ Faults \subseteq AllFaults

VARIABLES
  stores,       \* what the items of each open Store show, innermost last
  closing,      \* the GUI thread waits in ~Store
  downloadThreadRunning, downloadThreadExit,
  event,        \* downloadReqEvent is signalled
  downloading,  \* downloadFileParam.downloading
  param,        \* the rest of downloadFileParam: listItem and outputPath
  resultQueue,
  dpc, target,  \* the download thread and the file it has opened, or NoFile
  files,        \* the macro directory
  crashed       \* the process was aborted by a memory fault

flags == <<downloadThreadRunning, downloadThreadExit>>
vars == <<stores, closing, flags, event, downloading, param, resultQueue, dpc,
          target, files, crashed>>

(* A list item is known by its Store's place in the stack and its file;    *)
(* place 0 stands for an item that was freed.                              *)
Items == [store: 0..MaxDepth, file: Files]
NewStore == [f \in Files |-> "size"]

Init ==
  /\ stores = <<>> /\ closing = FALSE
  /\ downloadThreadRunning = FALSE /\ downloadThreadExit = FALSE
  /\ event = FALSE /\ downloading = FALSE
  /\ param \in [store: {0}, file: Files]
  /\ resultQueue = <<>>
  /\ dpc = "none" /\ target = NoFile
  /\ files \in [Files -> Contents \cup {NoFile}]
  /\ crashed = FALSE

-----------------------------------------------------------------------------
(* The GUI thread                                                          *)

InStore == stores # <<>> /\ ~closing

(* changeTo<Store>, from the macro list or for a folder.                   *)
OpenStore ==
  /\ ~closing /\ Len(stores) < MaxDepth
  /\ stores' = Append(stores, NewStore)
  /\ UNCHANGED <<closing, flags, event, downloading, param, resultQueue, dpc,
                 target, files, crashed>>

(* The thread object may not come to be, which nobody checks.              *)
Created == {"loop"} \cup (IF "create" \in Faults THEN {"none"} ELSE {})

NeverBusy == TRUE
NotBusy == ~downloading

(* A click on a file while nothing is being downloaded, downloadFile and   *)
(* initDownloadThread included.                                            *)
ClickFile(f) ==
  /\ InStore /\ NotBusy /\ Len(resultQueue) <= MaxResults
  /\ stores' = [stores EXCEPT ![Len(stores)][f] = "Downloading"]
  /\ downloadThreadRunning' = TRUE
  /\ IF downloadThreadRunning THEN dpc' = dpc ELSE dpc' \in Created
  /\ param' = [store |-> Len(stores), file |-> f]
  /\ event' = TRUE
  /\ UNCHANGED <<closing, downloadThreadExit, downloading, resultQueue, target,
                 files, crashed>>

(* The items that say "Downloaded" or "Failed" once the queue was taken.   *)
Answered == {resultQueue[i].item : i \in DOMAIN resultQueue}
Show(store, f) ==
  IF [store |-> store, file |-> f] \in Answered THEN "answered" ELSE stores[store][f]

(* update() of the Store on top: an item that was freed meanwhile is       *)
(* written to as well.                                                     *)
Update ==
  /\ InStore /\ resultQueue # <<>>
  /\ IF \E item \in Answered : item.store = 0
       THEN crashed' = TRUE /\ stores' = stores
       ELSE /\ crashed' = FALSE
            /\ stores' = [d \in DOMAIN stores |-> [f \in Files |-> Show(d, f)]]
  /\ resultQueue' = <<>>
  /\ UNCHANGED <<closing, flags, event, downloading, param, dpc, target, files>>

(* The elements of the innermost Store are freed, wherever they are still  *)
(* pointed at.                                                             *)
Freed(item) == IF item.store = Len(stores) THEN [item EXCEPT !.store = 0] ELSE item
PopStore ==
  /\ stores' = Front(stores)
  /\ param' = Freed(param)
  /\ resultQueue' = [i \in DOMAIN resultQueue |->
                       [resultQueue[i] EXCEPT !.item = Freed(@)]]

(* ~Store when no thread was started.                                      *)
CloseIdle ==
  /\ InStore /\ ~downloadThreadRunning
  /\ PopStore
  /\ UNCHANGED <<closing, flags, event, downloading, dpc, target, files, crashed>>

NoWakeUp == event' = event

(* eventFire(&downloadReqEvent)                                            *)
WakeUp == event' = TRUE

(* ~Store as far as threadWaitForExit.                                     *)
BeginClose ==
  /\ InStore /\ downloadThreadRunning
  /\ downloadThreadExit' = TRUE /\ WakeUp
  /\ closing' = TRUE
  /\ UNCHANGED <<stores, downloadThreadRunning, downloading, param, resultQueue,
                 dpc, target, files, crashed>>

NoJoin == TRUE

(* threadWaitForExit, which returns at once for a thread never made.       *)
ThreadHasExited == dpc \in {"exited", "none"}

ExitFlagReset == downloadThreadExit' = FALSE

(* Nothing resets downloadThreadExit.                                      *)
ExitFlagKept == downloadThreadExit' = downloadThreadExit

EndClose ==
  /\ closing /\ ThreadHasExited
  /\ dpc' = IF dpc = "exited" THEN "none" ELSE dpc
  /\ downloadThreadRunning' = FALSE /\ ExitFlagKept
  /\ closing' = FALSE /\ event' = FALSE
  /\ PopStore
  /\ UNCHANGED <<downloading, target, files, crashed>>

-----------------------------------------------------------------------------
(* downloadFilePoll                                                        *)

ForgetRequests == event' = FALSE
KeepRequests == event' = event

CheckExit ==
  /\ dpc = "loop" /\ KeepRequests
  /\ dpc' = IF downloadThreadExit THEN "exited" ELSE "wait"
  /\ UNCHANGED <<stores, closing, flags, downloading, param, resultQueue, target,
                 files, crashed>>

WaitForRequest ==
  /\ dpc = "wait" /\ event
  /\ dpc' = "clear"
  /\ UNCHANGED <<stores, closing, flags, event, downloading, param, resultQueue,
                 target, files, crashed>>

ClearRequest ==
  /\ dpc = "clear"
  /\ event' = FALSE
  /\ dpc' = "begin"
  /\ UNCHANGED <<stores, closing, flags, downloading, param, resultQueue, target,
                 files, crashed>>

(* if (downloadThreadExit) break, once there is a request                  *)
ToldToExit == downloadThreadExit

Begin ==
  /\ dpc = "begin"
  /\ IF ToldToExit
       THEN dpc' = "exited" /\ downloading' = downloading
       ELSE dpc' = "open" /\ downloading' = TRUE
  /\ UNCHANGED <<stores, closing, flags, event, param, resultQueue, target, files,
                 crashed>>

OpenFile ==
  /\ dpc = "open"
  /\ files' = [files EXCEPT ![param.file] = Empty]
  /\ target' = param.file
  /\ dpc' = "transfer"
  /\ UNCHANGED <<stores, closing, flags, event, downloading, param, resultQueue,
                 crashed>>

(* fopen returns NULL, which is not checked before fwrite and fclose.      *)
OpenFails ==
  /\ "fopen" \in Faults
  /\ dpc = "open"
  /\ crashed' = TRUE
  /\ UNCHANGED <<stores, closing, flags, event, downloading, param, resultQueue,
                 dpc, target, files>>

PushSuccess(success) ==
  resultQueue' = IF success THEN Append(resultQueue, [item |-> param, success |-> success])
                            ELSE resultQueue

PushResult(success) ==
  resultQueue' = Append(resultQueue, [item |-> param, success |-> success])

(* curl_easy_perform, fclose and the result; a transfer that fails leaves  *)
(* what it got.                                                            *)
Transfer ==
  /\ dpc = "transfer"
  /\ \/ /\ files' = [files EXCEPT ![target] = Served[param.file]]
        /\ PushResult(TRUE)
     \/ /\ "transfer" \in Faults
        /\ \E part \in Contents : files' = [files EXCEPT ![target] = part]
        /\ PushResult(FALSE)
  /\ dpc' = "pushed"
  /\ UNCHANGED <<stores, closing, flags, event, downloading, param, target, crashed>>

EndDownload ==
  /\ dpc = "pushed"
  /\ downloading' = FALSE
  /\ dpc' = "loop" /\ target' = NoFile
  /\ UNCHANGED <<stores, closing, flags, event, param, resultQueue, files, crashed>>

-----------------------------------------------------------------------------
DownloadStep ==
  \/ CheckExit \/ WaitForRequest \/ ClearRequest \/ Begin
  \/ OpenFile \/ OpenFails \/ Transfer \/ EndDownload

UserStep == CloseIdle \/ BeginClose \/ \E f \in Files : ClickFile(f)

StoreStep == UserStep \/ Update \/ EndClose \/ DownloadStep

Next == ~crashed /\ (OpenStore \/ StoreStep)

Spec == Init /\ [][Next]_vars

(* update() runs in every frame, and neither thread is kept from running.  *)
(* A transfer ends some time: that is the network's doing, as the code     *)
(* sets no limit.                                                          *)
Fairness ==
  /\ WF_vars(~crashed /\ Update)
  /\ WF_vars(~crashed /\ EndClose)
  /\ WF_vars(~crashed /\ DownloadStep)

-----------------------------------------------------------------------------
(* Type invariant.  What matters in it: the thread exists only where the   *)
(* flag says so, and waits for nothing while it is being waited for.       *)
TypeOK ==
  /\ stores \in Seq([Files -> {"size", "Downloading", "answered"}])
  /\ Len(stores) <= MaxDepth
  /\ downloadThreadRunning \in BOOLEAN /\ downloadThreadExit \in BOOLEAN
  /\ event \in BOOLEAN /\ downloading \in BOOLEAN /\ crashed \in BOOLEAN
  /\ closing \in BOOLEAN
  /\ param \in Items /\ target \in Files \cup {NoFile}
  /\ resultQueue \in Seq([item: Items, success: BOOLEAN])
  /\ dpc \in {"none", "loop", "wait", "clear", "begin", "open", "transfer",
              "pushed", "exited"}
  /\ files \in [Files -> Contents \cup {NoFile}]
  /\ dpc # "none" => downloadThreadRunning
  /\ closing => downloadThreadRunning /\ downloadThreadExit
  /\ closing /\ dpc = "wait" => event

(* Without a Store on the screen nothing is being downloaded: every Store  *)
(* that is left waits for the thread, whichever Store had started it, so   *)
(* the macro list and the editor never meet a file half written.           *)
DownloadsOnlyInStore == stores = <<>> => dpc = "none" /\ ~downloading

(* A result that is still to be shown tells the truth about the file whose *)
(* item it will be shown on: a file reported as downloaded holds what the  *)
(* server has under its name.  The GUI thread writes the parameters        *)
(* without a lock, but not while the thread uses them.                     *)
Rewritten(i) ==
  LET f == resultQueue[i].item.file
  IN  \/ dpc = "transfer" /\ target = f
      \/ \E j \in DOMAIN resultQueue : j > i /\ resultQueue[j].item.file = f
ResultsTrue ==
  \A i \in DOMAIN resultQueue :
    LET r == resultQueue[i]
    IN  r.success /\ r.item.store # 0 /\ ~Rewritten(i) =>
          files[r.item.file] = Served[r.item.file]

(* The item that was asked for last still waits.                           *)
Waiting(f) ==
  /\ param.file = f /\ param.store # 0
  /\ stores[param.store][f] = "Downloading"

(* The file that was asked for last is answered, as long as the thread     *)
(* could be made and was not told to exit: its request is neither missed   *)
(* nor taken for the request before it.                                    *)
LastRequestAnswered ==
  \A f \in Files :
    (Waiting(f) /\ ~downloadThreadExit /\ dpc # "none")
      ~> (~Waiting(f) \/ downloadThreadExit \/ crashed)

(* Why it is, without reference to fairness.  First, the request is never  *)
(* lost between the two threads: until its result is there to be shown,    *)
(* the event is still signalled or the thread has the parameters before    *)
(* it, although a signal may be cleared just after a click.  And the       *)
(* thread is there to see it: it ends only when it was told to.            *)
LastWaits == Waiting(param.file) /\ ~downloadThreadExit /\ dpc # "none"
RequestNotLost ==
  /\ LastWaits /\ param \notin Answered => event \/ dpc \in {"begin", "open", "transfer"}
  /\ dpc = "exited" => downloadThreadExit

(* Second, every step of the thread brings the result nearer, update()     *)
(* shows it, and nothing else puts it off but another request or the exit. *)
RequestSteps == [pushed |-> 7, loop |-> 6, wait |-> 5, clear |-> 4, begin |-> 3, open |-> 2,
                 transfer |-> 1]
RequestStepsLeft ==
  IF ~Waiting(param.file) THEN 0
  ELSE IF param \in Answered THEN 1 ELSE 1 + RequestSteps[dpc]
AnotherRequest == param' # param
RequestNearer ==
  LastWaits /\ ~AnotherRequest =>
    \/ crashed' \/ downloadThreadExit'
    \/ RequestStepsLeft' < RequestStepsLeft
    \/ RequestStepsLeft' = RequestStepsLeft
         /\ IF param \in Answered THEN resultQueue' # <<>> ELSE dpc' = dpc
RequestNears == [][RequestNearer]_vars

(* Leaving a Store does not hang: the thread that ~Store waits for sees    *)
(* the flag, wherever it was.                                              *)
CloseCompletes == closing ~> (~closing \/ crashed)

(* Why it does not, without reference to fairness: TypeOK says that the    *)
(* download thread never waits for a request then, and every step, of      *)
(* whichever thread, brings the end nearer.                                *)
CloseSteps == [open |-> 5, transfer |-> 4, pushed |-> 3, wait |-> 4, clear |-> 3,
               begin |-> 2, loop |-> 2, exited |-> 1, none |-> 1]
CloseStepsLeft == IF closing THEN CloseSteps[dpc] ELSE 0
CloseNearer == closing => CloseStepsLeft' < CloseStepsLeft \/ crashed'
CloseShortens == [][CloseNearer]_vars

(* The three together: the download thread comes nearer to what the GUI    *)
(* thread waits for, the answer to a request or the end.                   *)
StoreAdvances == [][RequestNotLost' /\ RequestNearer /\ CloseNearer]_vars

(* No result is delivered to an item that is gone, until a Store has been  *)
(* left with the thread running (Store.hpp:213-222): its last result stays *)
(* in the queue, and the next Store to be shown writes to the freed item.  *)
FreedOnlyAfterExit ==
  (\E i \in DOMAIN resultQueue : resultQueue[i].item.store = 0) => downloadThreadExit

(* Store.hpp:111 says that initDownloadThread starts the download thread,  *)
(* for a request that downloadFile makes (121): an item that shows         *)
(* "Downloading" would be answered or left.  Once a Store was left,        *)
(* downloadThreadExit stays set.                                           *)
RequestAnswered ==
  \A f \in Files : Waiting(f) ~> (~Waiting(f) \/ crashed)
==============================================================================
