# pad-macro: a TLA+ model

pad-macro records what is done on a Switch's controller and plays it back. It is
a background service (`src/sysmodule`) and a Tesla overlay (`src/overlay`) that
edits the configuration and talks to the service. This directory holds TLA+
specifications of both programs' own code (the queue, the recorder, the player, the
controller, the LED, the service as a whole, its IPC server; the overlay's configuration,
macro files and store), TLC configurations that check them on small instances, and TLAPS
proofs, for every value of the constants, of the type and safety properties of all of them,
of the refinements between them, and of why what must end does.

## The system

### Parts, state, operations

| Part | Source | State | Operations |
|---|---|---|---|
| pair queue | `common/HdlsStatePairQueue.c` | ring of `MAX_SIZE` = 5 pairs, `front`, `rear`, `size`, semaphores `resource` and `space`, `initialized`; one mutex for all queues | init, enqueue (blocks), dequeue (blocks), try-dequeue |
| recorder | `sysmodule/source/recorder.c` | `g_recording`, two threads, a queue, the files | `recorder_switch` (start, stop), `recordThreadRead`, `recordThreadWrite` |
| player | `sysmodule/source/player.c` | `g_playing`, two threads, a queue | `start_play`, `playThreadRead`, `playThreadWrite` |
| listen thread, lifecycle | `sysmodule/source/common.c`, `main.c` | `exiting`, the thread | poll the pad and choose between playing the latest macro, playing a mapped one, toggling the recording; initialise, exit |
| configuration | `sysmodule/source/config.c` | masks, flags, frame rates, macro list | load (reset, then parse), free, accessors, `maskMatch` |
| controller | `sysmodule/source/controller.c` | HDLS session, `stateList` | attach, release, `readState`, `writeState` |
| IPC server | `sysmodule/source/ipc/ipc.c` | `exiting`, `isClientConnected`, two handles | accept, receive, handle (`CMD_UPDATE_CONF`, `CMD_EXIT`), reply, close, stop |
| LED | `sysmodule/source/util/notifled.c` | pad id, pattern | set the pattern, find the pad again |
| logging | `common/log.c` | file, socket | no-ops in the default build |
| overlay: configuration file | `overlay/source/config.hpp` | `g_config` | load, save (write, cut the size, notify) |
| overlay: control, macro list | `overlay/source/main.cpp` | service handle, connected flag, list items with captured indices | launch, terminate, reconnect, edit, delete, add; list and delete macro files |
| overlay: macro editor | `overlay/source/gui/MacroFileView.hpp`, `ComboSet.hpp` | list of pairs | change count, drop, save; choose a combination |
| overlay: store | `overlay/source/gui/Store.hpp` | download thread, request event, result queue | list, download, close |

### How they interact

The main thread of the service runs the IPC server. The listen thread polls the
pad every 16 ms. It calls `recorder_switch` and `start_play` itself; the first
blocks in its stop half until the recording's two threads have ended, the second
never waits. Recorder and player each own one queue with one producer and one
consumer; both queues share `g_mutex`. The recorder's reader and the listen thread
read the pad through the controller, the player's writer injects through it. The
overlay writes the configuration file and sends `CMD_UPDATE_CONF`, upon which the
main thread reloads the configuration while the other threads use it. Inside the overlay
the GUI thread and the store's download thread share an event, a few flags, one set of
parameters and a result queue, and both write to the directory of macro files.

### What is hard here

* *The queue*: semaphores outside the mutex, two initialisers in either order,
  pairs that survive from one session to the next.
* *Recording*: three threads, a queue smaller than a recording, a stop that waits
  for a reader that may wait for a writer; failures of which one thread knows and
  the other does not.
* *Playback*: nobody waits for its threads; the flag is cleared by one of them.
* *Configuration*: reloaded under the feet of all other threads; paths handed out
  by `maskMatch` outlive the list.
* *Service*: one session, clients that come second or vanish, exit in between.
* *Shutdown*: frees first, waits later, leaves recorder and player running.
* *Pads*: one list of pads and one work buffer for everybody who reads or injects,
  pads that come and go in the middle of a playback or of a request to an LED.
* *Overlay*: indices captured by list items, a download thread with plain flags whose
  results point to items that may be gone, files rewritten in place.

The full list, with lines and the properties that watch each, is in
`PROJECT.json` under `hazards`.

### What makes each part correct

* queue: no slot and no pair is lost or used twice; it is a FIFO; it drains.
* recorder: the files hold the sampled frames, each once and in order; stopping
  ends and leaves nothing behind.
* player: the injected frames are the macro's, each once and in order; a playback
  ends; the flag says whether one is going on.
* IPC server: its handle is the session's; only a vanished client is fatal; every
  request is answered or fails.
* listen thread: plays and records never at the same time and only for the
  combinations configured; exits cleanly.
* configuration: readers see the old or the new one; what is saved is what is loaded.
* controller: a pad's input stays on its side; no injected frame sticks to a pad.
* LED: the pattern asked for last is shown, on one pad; in the end all are dark.
* overlay: an item edits its own entry; a download's result is true and reaches an item
  that exists; the editor writes back what it has read and what was changed, nothing else.

## The modules

```
BoundedFifo  <-- implemented by --  HdlsStatePairQueue
     |
 used by Recorder, Player
     |
 RunLength (pairs and frames)

Recorder -- implements --> RecorderService <-- contains -- PadMacro
Player   -- implements --> PlayerService   <-- contains --    |
     |
 Injection = Player with Controller (readState, writeState, pads)

LedUsers  = NotifLed under its callers      IpcServer: sessions and requests

MacroFiles = list and editor of macro files with Store (downloads)
Overlay: edits, config.ini, the list of mappings

PairQueueProofs   of HdlsStatePairQueue     PadMacroProofs    of PadMacro
RecorderProofs    of Recorder               ServiceProofs     of IpcServer, LedUsers
InjectionProofs   of Player, Controller     MacroFilesProofs  of MacroFiles, Store
                  and Injection             OverlayProofs     of Overlay
RunLengthProofs   lemmas about RunLength, for Recorder, Injection and Overlay
```

`MCPairQueue`, `MCRecorder`, `MCPlayer`, `MCPadMacro`, `MCLed`, `MCIpcServer`, `MCOverlay`
and `MCMacroFiles` instantiate them for TLC; constants get their values in the `.cfg`
files. What one module leaves abstract another has in detail. `PadMacro`'s recorder and
player are those of `Recorder` and `Player`: the modules `RecorderService` and
`PlayerService` say what both sides agree on, `Recorder!ImplementsService` and
`Player!ImplementsService` that the detailed models keep it, `PadMacro!UsesRecorder` and
`UsesPlayer` that the rest of the service relies on no more. `PadMacro`'s reload is what
`IpcServer` handles as `CMD_UPDATE_CONF`, `Overlay`'s service is `PadMacro` seen from
outside, and choosing a file in `MacroFiles` is `Overlay`'s `PickFile`.

**`HdlsStatePairQueue`** models the C file step by step. `statePair`, `front`,
`rear`, `size`, `resource`, `space`, `initialized` and `g_mutex` are the fields of
that name (the semaphores by their counts); `pc[t]` is where thread `t` is in an
operation and `value[t]` its argument or result. Each semaphore or mutex call is an
action, and the work under the mutex is split into the copy of the pair and the
update of the indices, so that a second thread in the critical section would do
harm. `hdlsStatePairQueueDequeue` and `TryDequeue` are the same actions: they differ
only when nothing can be taken, where one waits and the other returns. `Restart`
stands for a new session whose threads call the init function again.

**`BoundedFifo`** is what the queue promises: `Put` (store), `Publish` (make
available) and `Take`. Storing and publishing are separate because the code
signals `resource` after it has released the mutex; a consumer that polls in
between finds nothing.

**`RunLength`** defines a pair (state, count), and the frames a sequence of pairs
stands for. The left and right halves of a pair are read, compared, stored and
written together everywhere and are one value.

**`Recorder`** has the listen thread (`lpc`), `recordThreadRead` (`rpc`) and
`recordThreadWrite` (`wpc`). `CreateThreads` to `StartFails` are `start_recording`,
one action per library call that can fail; `StopRecording`, `WaitRead` and
`WaitWrite` are `stop_recording`. `ReadCheck`, `ReadFrame` or `ReadSkip`, `Compare`,
`EnqueueRun` and `PublishRun` are one round of the reader; `cur`, `last` and
`count` are its `cl`/`cr`, `ll`/`lr` and `count`. The writer's three loops are
`WritePair` with `NextLoop`. The two files get the same writes and are one
variable. The trailing pair is released, but its other fields are those of
the pair before or uninitialised: any member of `Released`. A thread that touches
unmapped or null memory sets `crashed`, after which nothing happens. The
queue is `BoundedFifo`, which `QueueImplementsFifo` justifies. `observed` is a
history variable: the frames sampled in this session. `faults` is what may fail in a
behaviour, chosen once from `FaultSets`, so that one run covers healthy and failing systems
and each property says which failures it holds under.

**`RecorderService`** is what the rest of the service sees of a recording: a flag, a wait,
two threads that start together and end in order. `ReaderSeen` and `WriterSeen` are the
refinement mapping; creating and starting the two threads is one step of the service.

**`Player`** is built in the same way. `StartPlay` closes what an earlier playback has
left; a thread closed while it runs loses its stack, hence `crashed`. `left` is the
writer's `statePair.count`. `injected` is a history variable, and so is `failed`: once a
thread could not be created or started, pairs may be left in the queue and
`g_playing` set, and the properties claim less. **`PlayerService`** corresponds to
`RecorderService`; nobody waits for a playback, and a writer may be closed alive.

**`Controller`** has `readState` and `writeState` for one left and one right pad:
`stateList` is the static of that name, `workmem` what is in the buffer that was attached,
`requests` what hiddbg has not served yet. Both functions block in hiddbg; `CallReadState`
and `ReadState` (or `ReadFails`) are the two halves of one call. hiddbg lists the pads that
are there in either order, and writes a dump into the work buffer when it serves it; this
is external and modelled from the two calls. An input remembers the side it was meant for.

**`Injection`** composes `Player` and `Controller`: a frame that is played is a
`WriteState`, the listen thread polls at any time, pads come and go (`MaxMoves` times).
`raced` is a history variable: a frame was put into the work buffer with a dump in flight.
In that case, and only then, TLC finds a playback whose last frame is lost, so
`NoFrameSticks` leaves it out; it depends on when hiddbg copies, which the repository
cannot say.

**`NotifLed`** has `setLedPattern` and `initPad`, one request to hidsys at a time, for any
number of calling threads. `call[t]` is where thread `t` is; `led_pattern` and `padId` are
the statics. A pattern is a name, as `initLedPattern` is a table. `Pads` come and go
(`npad`), and only those in `HasLed` accept a pattern. **`LedUsers`** adds the callers with
as much of their order as `PadMacro` proves: SOLID for a recording, BREATHING for a
playback, OFF after each and at the exit. `moved` and `overlapped` are history variables:
a property about one call is judged when no pad moved during it and no second call was
under way.

**`PadMacro`** has the main thread (`mpc`: `padMacroInitialize`, the IPC loop,
`padMacroExit`) and the listen thread (`lpc`). A load of the configuration is two
steps, `BeginLoad` (`reset_state`) and `EndLoad`, with the blocking read of the file
between them; a file may say anything in `Configs`. One poll is `CheckExiting` and then
one of `PlayLatest`, `PlayMacro`, `StartRecording`, `StopRecording` and `NothingToDo`,
whose guards are the conditions of `common.c:17-35` in their order. A combination is a set
of buttons, and pressing means including. `recr`, `recw`, `playr` and `playw` are the
threads of recorder and player with what matters to the others: whether they
run, the LED, the path. `path` is the pointer that `maskMatch` gave out; `ResetState`
makes it `Freed`. `loaded` is a history variable: the configuration loaded last.

**`IpcServer`** has the main thread (`spc`, one action per kernel call or handler), the
kernel's view of the sessions (`pending`, `serverEnds`) and clients that connect,
send, wait and may vanish. Clients and kernel are not in the repository's
service code and are modelled from how it uses them.

**`Overlay`** has the overlay's one thread, which either is idle, with the list or an
editor in front (`gui`), or inside `saveConfig` (`spc`): `WriteFile`, `ResizeFile` and
`Notify` are its effects on others, `GiveUpWriting` and `GiveUpResizing` its early returns.
Every edit ends in a save. A file is its `[pad]` section, its lines, and the `tail` that
an older, longer text leaves behind between the write and the change of the size; the
tail may begin in the middle of a line, which then names another combination. `items` are the
list items with the index each has captured; `id` is an identity of mappings that the code
does not have and that tells which mapping an item was made for. `session` says whether
`g_service` belongs to the process that runs now, which `connected`
(`g_serviceConnected`) only says after an `update()`. `lapse` is a history variable:
whether a save was given up, whether the service has missed a notice, and whether it was
started on a text with an uncut tail and has loaded nothing since.

**`Store`** has the GUI thread's side of the store (`ClickFile`, `Update`, `BeginClose`,
`EndClose`, `CloseIdle`) and `downloadFilePoll`, one action for each statement that
another thread could be between (`dpc`). `downloadThreadRunning`, `downloadThreadExit`,
`resultQueue` and `downloading` are the code's; `event` is `downloadReqEvent`; `param` is
the rest of `downloadFileParam`. Entering a folder puts a Store on top of the others, and
each shares the one thread; a list item is its Store's place in the stack and its file, and
place 0 stands for a freed item. Writing to a freed item and an unchecked `fopen` set
`crashed`. A failed transfer leaves any content.

**`MacroFiles`** adds the list of macro files with its deletion and the editor, below the
Stores. A file is a sequence of pairs; the editor's `shown` are its items, which
`initContent` clears before it opens the file, so a file that cannot be read leaves an
empty list with the old listener. `Save` is the loop that drops pairs of count 0 and the
reload after it.

The definitions named in `PROJECT.json` under `mutants` as `as`, such as
`InitUnguarded` or `AgainBeforeDecrement`, are wrong variants of the definition
that follows them: each shows that a property notices the mistake.

## The runs

| cfg | Instance | Shows | Distinct states |
|---|---|---|---|
| `MCPairQueue` | 2 producers, 1 consumer, 2 pairs, 2 slots | no overwriting, refinement of `BoundedFifo`; `NoLostWakeUp`; `QueueProgresses`: a full queue drains, an enqueue completes | 21,660 |
| `MCRecorder` | 3 pad states, queue of 2, 3 frames a session; readState may fail; or threadCreate, threadStart and fopen too; or mkdir as well | `RecordingFaithful`, `SessionFramesKept`, `StoppedIsClean`, `StopCompletes` and `StopAdvances`, `ImplementsService` | 2,500,328 |
| `MCPlayer` | no file and a macro of three pairs, queue of 2, two pads that move twice; threadCreate and threadStart may fail | `PlayedFaithful`, `PlaybackEnds` and `PlaybackAdvances`, `ImplementsService`, `SidesKept`, `NoFrameSticks` | 909,610 |
| `MCPadMacro` | 2 buttons, 2 paths, 3 configurations with overlapping combinations, reloads and an exit at any time | `RecordingExcludesReading`, `LedOffWhenQuiet`, `OnlyAsConfigured`, `ExitCompletes` and `ExitAdvances`, `UsesRecorder`, `UsesPlayer` | 15,706 |
| `MCLed` | 3 pads, 2 with an LED, 2 npads, two moves | `LedShown`, `DarkWhenIdle` | about 6.5 million |
| `MCIpcServer` | 2 clients | `HandleMatchesSession`, `FatalOnlyIfVanished`, `RequestAnswered` and `AnswerAdvances` | 6,917 |
| `MCOverlay` | 2 mappings, 2 settings of `[pad]`, writes that fail, a service that comes and goes | `FileSaysWhatIsShown`, `ServiceFollowsFile`, `NoEmptyCombination` | 4,838,068 |
| `MCMacroFiles` | 2 files, 2 Stores, pairs counted 0 and 1; every call may fail | `ResultsTrue`, `LastRequestAnswered`, `CloseCompletes` and `StoreAdvances`, `FreedOnlyAfterExit`, `PagesSeeWholeFiles` | 1,151,060 |

Four more runs end with a counterexample. Each checks one property that a comment
or a README states of the program and that the code does not have:

| cfg | Property | What the code does |
|---|---|---|
| `MCPadMacroPath` | `PathValidWhenUsed` | a reload frees the path that `playThreadRead` is about to open |
| `MCOverlayDelete` | `ItemsEditTheirOwn` | after a deletion the items behind the deleted mapping act on the next one, or past the end |
| `MCMacroFilesAnswer` | `RequestAnswered` | `downloadThreadExit` is never reset: once a Store was left, no request is answered any more |
| `MCLedRetry` | `RetryShowsPattern` | the retry of `setLedPattern` sends the pattern that `initPad` has overwritten with OFF |

Five more things that the models have and that no property forbids: when the macro directory
cannot be made the recorder's writer ends alone, the reader blocks on the full queue and
`stop_recording` waits for it for ever (hence `"mkdir" \notin faults` in
`StopCompletes`); the run that is being counted when recording stops is dropped
(`RecordingFaithful` has it in `InHand`); two searches for a pad at once may leave a pad
lit (`~overlapped` in `DarkWhenIdle`); a result of a freed list item is written to by the next
Store's `update()` (`FreedOnlyAfterExit` only says that a Store was left before); and a
service may keep a mapping whose mask is 0, which matches every press. For the last nothing has
to fail: the user ends the program and starts it again before an `update()`, so that
`g_serviceConnected` is stale; deletes a mapping; between `fsFileWrite` and `fsFileSetSize` the
starting service reads the new text with a tail of the old one that begins with the 0 of a
longer mask; the tail is cut, but the notice goes to the dead session. The service keeps the
mapping until it is started again or told of a change by a reopened overlay. `NoEmptyCombination`
leaves out exactly the services that were started on an uncut tail and have loaded nothing
since (`"uncut"`), `ServiceFollowsFile` those that have missed a notice (`"untold"`). The
stale flag alone is enough for the latter: `update()` finds a running program and a set flag
(main.cpp:271-285), so a program that ended and was launched again between two `update()`s is
never connected to, `saveConfig` logs the failed notice (config.hpp:232-236), and the service
stays behind the file until it ends or the overlay is reopened and saves.

### Bounds

* *Queue*: two slots and three threads are enough for every slot to be reserved,
  filled or on its way back at once, for the indices to wrap, and for threads
  to contend for the mutex and for a slot. One producer and one consumer use a queue in
  the program; a second producer shows that nothing depends on that. The proofs have no
  bounds.
* *Recorder*: `MaxFrames` (frames sampled in a session) is the only artificial
  bound; after that many frames the reader may still skip or be stopped. Three frames
  make up to three runs on a queue of two: the queue fills, the writer is late by any
  number of runs, and runs of every length occur. The number of sessions is not
  bounded. Three pad states are needed: the zeroed one, another, and one with the record
  combination.
* *Player*: the macros are a file that cannot be opened and one that overfills the queue
  and ends with an empty pair as recordings do; playbacks are not bounded. Two moves of
  pads (`MaxMoves`) let one pad go and come back, or both go, during one playback.
* *LED*: two pads with an LED and one without, on two npads, are enough for a search that
  passes a pad without an LED, for a second pad to be found when the first has gone, and
  for one to come back in another place.
* *Macro files*: two Stores on top of each other (`MaxDepth`), two files, at most
  `MaxResults` results not yet shown when a file is clicked; clicks, downloads, edits,
  deletions and reopenings are not bounded. `MaxCount` bounds the counts in files and what
  a count is raised to.
* *Service*: two buttons give combinations that are equal, contained in each other and
  empty (a mask of 0, which matches every press); the number of loads, recordings and
  playbacks is not bounded. The proofs have no bounds.
* *IPC server*: two clients are the first number where one is turned away.
* *Overlay*: `MaxMacros` = 2 mappings in memory and lines in the file are enough for an item
  before and one behind a deleted one, for two items with the same index, and for a
  text that is shorter than the old one. Edits, saves, restarts of either process and
  faults are not bounded. One combination besides 0 and one file besides none decide
  whether a mapping is complete.

Real time is abstracted: a sleep is a point where others may run, for as long as they
like. The listen thread's second of sleep after `start_play` is therefore
not a guarantee that a playback is over: both `Player` and `PadMacro` let a second
playback begin while the first one's writer is still injecting, which needs a macro
whose last five pairs take longer than that second. It closes a running thread; both
models set `crashed` and claim nothing of what follows.

All threads of the service have the same priority on core 3, where Horizon switches only
when one blocks, sleeps or yields. The models of the queue, the recorder, the player and the
server let a thread be interrupted between any two steps, which covers this and any
other placement. `PadMacro`, `Controller` and `NotifLed` rely on it: what happens between two
blocking calls is one step, for otherwise the poll could read a configuration in the middle
of `reset_state`. In the overlay, the GUI thread and the download thread share a core
and the latter may be interrupted anywhere; a listener of the GUI thread is one step, except
where `~Store` waits.

### Fairness

* *Queue* (`FairSpec`): a thread inside a call goes on (weak fairness); the mutex
  is handed to a waiting thread when it is released, so a thread that waits for it
  is not passed over for ever, and a consumer polls again and again, so it
  eventually takes what stays available (strong fairness). Nothing makes a
  producer produce or a session begin.
* *Recorder, Player*: weak fairness of each thread, as each blocks or sleeps in
  every round of its loop. The user's part, pressing a combination, is not fair.
  A `readState` that fails keeps the reader in a loop that asks hiddbg again; it still
  sees the flag. hiddbg serves what it is asked (`Serve`).
* *Store*: the download thread, the GUI thread's `update()` in every frame and the end of
  its wait. A transfer that takes for ever is not excluded by the code, which sets no time
  limit; the model assumes that the network ends it. No click need come.
* *LED*: none; only safety is checked.
* *Service*: weak fairness of each thread. That the recorder's and the player's threads end
  is what `Recorder!StopCompletes` and `Player!PlaybackEnds` show. No request need come.
* *Overlay*: none; only safety is checked.
* *IPC server*: weak fairness of the server and of the kernel's part. Clients need
  not do anything.

`CHECK_DEADLOCK FALSE` is set where the system may stop: after a crash, with a
flag stuck, when the service or the server has been told to exit, or once the overlay
has used an index past the end.

## The proofs

Every safety property and every action property that a passing run checks is also a theorem. So is
the type invariant of each module (`TypeCorrect`); the runs repeat those of `Overlay` and
`MacroFiles` only, whose types say something of the program that the other properties do not.
Each proof has the same form: an inductive invariant `Inv`, checked with TLC before it
was proved, a lemma that `Init` establishes it, lemmas that each action keeps it, and theorems
that derive the properties from it. What follows says, for each module, from which assumptions
and why the properties alone would not be inductive.

### The queue: `PairQueueProofs`

For any finite sets of producers and consumers, any pairs and any `MAX_SIZE > 0`
(`QueueAssumption`):

* `InvHolds`: `Spec => []Inv`
* `TypeCorrect`: indices and counters stay in range
* `SlotsAreConserved`, `PairsAreConserved`, `NoOverwriteNoUnderflow`
* `QueueImplementsFifo`: `Spec => ImplementsFifo`
* `NoWakeUpIsLost`: `Spec => []NoLostWakeUp` (see *Why what must end does*)

*The argument.* The conservation laws alone are not inductive. That `size` never
passes `MAX_SIZE` needs that the slot a producer fills was reserved, which is a
statement about how many threads are where; that a store does not destroy a
pair needs that only one thread is between lock and unlock; that an
uninitialised queue is harmless needs that nobody is past the init call. `Inv` is
the conjunction: types without bounds (`Typed`), threads inside their own operations
(`Roles`), ownership of the mutex exactly in the critical sections
(`MutualExclusion`), an idle uninitialised queue (`Uninitialised`), the two
conservation laws, `rear = (front + size) % MAX_SIZE` (`RearInPlace`) and agreement
of slot and argument half-way through an operation (`SlotAgrees`). Each action has a
lemma that it keeps `Inv`. The counts are cardinalities of sets of threads;
`CountChanges` says how one thread's move changes them, by the library's facts about
finite sets. The modular arithmetic is isolated in `RearAdvances` and
`FrontAdvances`. The bounds of `TypeOK` and `NeverOverwritesOrUnderflows` follow
from the conservation laws.

*Refinement.* `items` is the ring read from `front`, without the pair a consumer has
copied and not yet removed; `ready` is `resource` plus the pairs claimed but not
yet copied; `got` is the consumers' buffers. `EnqueueAdvance` is `Put`,
`EnqueueSignal` is `Publish`, `DequeueLoad` is `Take`; every other step leaves all
three alone.

### The service: `PadMacroProofs`

For any buttons and paths and any set of configurations (`PadMacroAssumption`):

* `InvHolds`: `Spec => []Inv`, `TypeCorrect`
* `RecordingNeverMeetsReading`: no macro is read while a recording's threads run
* `LedIsOffWhenQuiet`
* `StartsAsConfigured`: `Spec => OnlyAsConfigured`
* `RecorderUsedAsPromised`, `PlayerUsedAsPromised`: `Spec => UsesRecorder`, `Spec => UsesPlayer`
* `ExitIsNeverStuck`, `ExitGetsShorter`, `ExitingAdvances` (see *Why what must end does*)

*The argument.* That recording and reading exclude each other is decided by two flags and
a wait in three files, so `Inv` says what the flags mean: `g_playing` is set exactly while
the reader runs and then the writer does too (`PlayerFlag`); the recorder's threads exist
only while `g_recording` is set or the listen thread waits for them, and then nothing
plays (`RecorderFlag`). The second half of `RecorderFlag` is what makes it inductive: after
`stop_recording` has cleared the flag, only the listen thread's own waiting keeps it from
starting a playback. For the LED, whoever lit it is still there to turn it off
(`LedHasOwner`); this needs that a playback's writer does not end before its reader.
For the configuration, it is always the one loaded last or the reset one (`WholeConfig`),
and the reset one enables nothing, so a mask of 0 in it cannot start anything; that the
listen thread is not there before it is started (`NotStarted`) covers the first load.
The two refinements need one more thing of each pair of threads, that they are made and
closed together; then every step of `PadMacro` is a step of the service or leaves
it alone.
`MaskMatch` chooses the least matching index, which exists because the natural numbers are
well-founded (`WFMin`).

### Pairs and frames: `RunLengthProofs`

`RecordingFaithful` and `PlayedFaithful` speak of the frames that a sequence of pairs
stands for, `Expand`, which is a fold. The lemmas say what it does to sequences of any length:
`ExpandAppend` (a pair more at the end appends its frames), `ExpandHead` (taking the first
pair takes its frames from the front), `ExpandConcat`, `ExpandType`. What a fold computes has
to be proved by induction. The library's induction theorems take a predicate as a parameter,
which the provers cannot instantiate, so `AllNumbers` states induction about a
*set*: one that holds 0 and with a number its successor holds all of `Nat`. It follows from
the least element of the complement, `WFMin`. `AllSequences` is the same for sequences that grow
at the end.

### The recorder: `RecorderProofs`

For any pad states, any `MAX_SIZE > 0`, any `MaxFrames` and any sets of faults
(`RecorderAssumption`):

* `InvHolds`, `TypeCorrect`
* `SessionsStartClean`: `Spec => []StoppedIsClean`
* `RecordingIsFaithful`, `SessionFramesAreKept`
* `RecorderImplementsService`: `Spec => ImplementsService`
* `StopIsNeverStuck`, `StopGetsShorter`, `StoppingAdvances` (see *Why what must end does*)

*The argument.* `ThreadsInStep` says where the reader and the writer may be for each place of
the listen thread, `FileInStep` when the file is open, and `RunBounded` that a run is no longer
than what was sampled. `CleanInStep` carries `StoppedIsClean`: it follows the emptiness of the
queue through the writer's three loops. The last loop is what makes it true, and it only empties
the queue because the writer has waited for the reader before it; so the invariant says
that in `final` the reader has ended and that an ended writer leaves no pair and no open file.
All of it holds only while nothing but `readState` fails, which is the property's own
condition. `RecordingIsFaithful` is proved about one sequence, the frames of file, queue and
the writer's hand followed by the run that is being counted (`Frames`): each of the reader's
and writer's steps either moves a pair within it or appends the sampled frame to it and to
`observed`. The refinement maps creating, starting and every failure of either to the
service's steps; `ThreadsInStep` says that they start together and end in order.

### The player and the pads: `InjectionProofs`

For any macros whose pairs have a count, any `MAX_SIZE > 0`, any faults and any number of moves
of the pads (`PlayerAssumption`, `ControllerAssumption`, `InjectionAssumption`):

* `PlayerTypeCorrect`, `PlayedIsFaithful`, `PlayerImplementsService`, `PlaybackIsNeverStuck`,
  `PlaybackGetsShorter`, `PlayingAdvances` of `Player` alone
* `InvHolds`, `TypeCorrect`, `SidesAreKept`, `NoFrameStays` of the composition

*The argument.* `PlayerInv` corresponds to the recorder's, with the difference that nobody
waits: a playback may begin while the last one's writer still runs, and from then on only
`crashed` is claimed. `ReaderInStep` ties the position in the file to `g_playing`, so that a
writer that sees the flag cleared and the reader gone knows that all pairs are in the queue. For
the pads, a list must name a pad at most once and give it input of its own side
(`ListInOrder`), for both `stateList` and `workmem`, as a dump moves one into the other.
`NoFrameStays` needs two more facts: whatever holds a frame is on both lists
(`FramesListed`), so that the neutral frame is addressed to it; and the neutral frame that ends
a macro is on its way to each such pad or has arrived (`NeutralArrives`). The latter fails as
soon as a dump is served between writing the buffer and applying it, which is why it and
the property say `~raced`.

### The IPC server and the LED: `ServiceProofs`

The two share no state; the module holds one proof after the other.

*The server.* For any finite set of clients (`IpcAssumption`):

* `InvHolds`, `TypeCorrect`
* `HandleIsTheSession`: `Spec => []HandleMatchesSession`
* `FatalNeedsVanished`: `Spec => []FatalOnlyIfVanished`
* `ClientIsNeverStuck`, `AnswerGetsNearer`, `AnsweringAdvances` (see *Why what must end does*)

*The argument.* The kernel counts one session, pending or accepted (`OneSession`); the server's
flag and handle name it (`SessionInStep`); and a client whose request is being handled either
still waits for the reply or has vanished (`ClientsInStep`). The last is what shows that a reply
can only fail, and the server only die, when a client has left: a client that has asked cannot
go on without an answer in any other way.

*The LED.* For any pads, with or without an LED, any number of npads and any number of moves
(`NotifLedAssumption`, `LedUsersAssumption`):

* `LedInvHolds`, `LedTypeCorrect`
* `LedIsShown`: `UsersSpec => []LedShown`
* `DarkWhenNothingRuns`: `UsersSpec => []DarkWhenIdle`

Both hold only as long as no two calls of `setLedPattern` have ever overlapped, which is part of
the properties.

*The argument.* As long as no two calls have overlapped, one call at a time is under way
(`OneCall`), and only the LED of the pad that `padId` remembers can be lit (`LitIsRemembered`).
A request to that pad fails only because it is not there, and a pad that comes back is dark; so
from a failure until a pad is found, and once OFF was sent, nothing is lit at all (`DarkInCall`).
That is `DarkWhenIdle`, together with whose turn it is to send OFF (`CallersInStep`: a caller is
in `setLedPattern` exactly while its own state says so). `LedShown` needs in addition that a
search succeeds where it can: every pad with an LED is still ahead of it or has just been found
(`Ahead`), which holds for as long as no pad moves (`StillPads`), since npads are tried in
order.

### Macro files and store: `MacroFilesProofs`

For any files, any contents, any depth of Stores and any faults (`StoreAssumption`,
`MacroFilesAssumption`). The contents must include what the editor may leave of each, with
counts changed and pairs of count 0 dropped (`Edited`), and no content has a pair of count 0.
The set of all macros with counts above 0 is so closed. That a file has no count 0 is an
assumption about files that come from elsewhere: a download is stored as the server sends it
(Store.hpp:48-52), and a file may be copied to the card by hand.

* `InvHolds`, `TypeCorrect`
* `ResultsAreTrue`: `FilesSpec => []ResultsTrue`
* `FreedNeedsExit`: `FilesSpec => []FreedOnlyAfterExit`
* `PagesSeeFiles`: `FilesSpec => []PagesSeeWholeFiles`
* `CloseGetsShorter`, `RequestIsNotLost`, `RequestGetsNearer`, `DownloadingAdvances` (see *Why
  what must end does*)

*The argument.* `ResultsTrue` is about parameters that the GUI thread writes and the download
thread reads without a lock. What protects them is a plain flag: `downloading` is set exactly
while the thread is at a file (`ThreadInStore`), a click is refused while it is set, and so the
file named when the transfer began is still the one reported when it ends (`ParamStable`).
That a result of a freed item needs an exit rests on the stack: no pointer leads to a Store
that was left (`PointersInside`, which leaving re-establishes by making them freed), and until
an exit the thread serves a live item (`LiveUntilExit`). The pages are only in front when there
is no Store, hence no thread, hence no result that could still count; so their edits cannot make
a result untrue and they meet no file that is being written. For the editor, the invariant
keeps that it shows as many pairs as some content has (`EditorInside`): what it saves is then
an edited content.

### The configuration: `OverlayProofs`

For any settings, combinations and files, any `MaxMacros > 0` and any faults
(`OverlayAssumption`):

* `InvHolds`, `TypeCorrect`
* `FileIsFaithful`: `Spec => []FileSaysWhatIsShown`
* `ServiceIsUpToDate`: `Spec => []ServiceFollowsFile`
* `NoCombinationIsEmpty`: `Spec => []NoEmptyCombination`

*The argument.* A save is three effects, so the invariant says how far it is: after the text
the file begins with what is shown, after the change of its size there is nothing behind that
(`FileWritten`); and the service has what is in the file until the next text is written
(`ServiceTold`), since every way to skip the notice is a lapse. An edit always enters a save,
so no idle state shows what the file has not. `NoEmptyCombination` needs that what is saved is
complete, always, so that only a tail can have a mask of 0, and that there is no tail when a
notice is sent: then only a start can load one. `Saved` and `ServiceView` pick
the lines of a set (`Among`); that this keeps the order, commutes with appending and picks all or
nothing is proved by induction (`AmongAppend`, `AmongType`, `AmongAll`). There is an item for
each mapping, counted by cardinality, and a new mapping's identity is one that no other has,
which exists because there are more identities than mappings.

### Why what must end does

The prover has no rules for fairness, but what a liveness property rests on besides fairness are
safety and action properties, and these are stated, checked and proved by themselves. There are two
halves to each: the threads are never all waiting, and each step of any of them lowers a measure
that is a natural number. The measures also count steps that a thread has still to *begin*, so
that nothing that is done meanwhile can raise them.

| What ends | Never stuck | Gets shorter | Both, as a run checks them |
|---|---|---|---|
| `StopCompletes` | `StopIsNeverStuck` | `StopGetsShorter` | `StopAdvances` |
| `PlaybackEnds` | `PlaybackIsNeverStuck` | `PlaybackGetsShorter` | `PlaybackAdvances` |
| `ExitCompletes` | `ExitIsNeverStuck` | `ExitGetsShorter` | `ExitAdvances` |
| `CloseCompletes` | `TypeCorrect` of `MacroFilesProofs`, last conjunct of `TypeOK` | `CloseGetsShorter` | `StoreAdvances` |
| `LastRequestAnswered` | `RequestIsNotLost` | `RequestGetsNearer` | `StoreAdvances` |
| `RequestAnswered` (server) | `ClientIsNeverStuck` | `AnswerGetsNearer` | `AnswerAdvances` |
| `QueueProgresses` | `NoWakeUpIsLost` | none: producers may go on for ever | `NoLostWakeUp` |

* *Recorder.* The circle to exclude is: listen thread waits for the reader, the reader for room in
  the queue, the writer, having found the queue empty, for the reader. When the writer waits, the
  flag was cleared and the queue was empty, so the reader has at most one run left to put in
  (`RoomInStep`); `MAX_SIZE > 0` leaves room for it. The directory is the exception that
  `StopCompletes` makes as well.
* *Player.* The writer leaves its first loop only after the flag was cleared (`PhaseInStep`), that
  is after the reader has put its last pair in; before that it takes what there is. The measure
  counts the frames not yet injected; that they are not fewer than 0 is `PlayedFaithful`. A
  thread that could not be started, and a writer that was closed, are left out as in
  `PlaybackEnds`.
* *Exit.* The listen thread waits for the recorder only after it has cleared its flag, and the
  threads it waits for are there (`ExitInStep`). The measure counts one more thing that the listen
  thread may start: it looks at `exiting` after each.
* *Store.* The download thread never waits for a request while `~Store` waits for it, since `event`
  is set then. No more than five steps are left wherever it is.
* *A request to the store.* The thread clears the event after it was woken, so a click in between is
  cleared with the one before. That does no harm because the parameters are read later:
  until the result is there to be shown, either the event is signalled or the thread is between
  clearing it and reading them, and `RequestNotLost` is inductive together with `Inv`; and
  the thread is there, as it ends only when it was told to. At most
  seven steps of the thread and an `update()` are left; a click on another file, which the
  measure does not survive, makes another request. A result of the last request is never the one
  that crashes, as a freed item in the queue needs an exit (`FreedOnlyAfterExit`).
* *A request to the server.* A client waits for ever only if the server stops with its session
  open. `exiting` is cleared by `CMD_EXIT` alone, and then that request's own session is closed
  before the server looks at it again (`ExitClosesSession`); there is no other session, and
  one not yet accepted goes with the port. The server takes at most four steps to answer or to
  fail, and no client's connecting, sending or vanishing adds one.
* *Queue.* With no slot free and no pair posted, the conservation laws say that a slot or a pair is
  in some thread's hands; that thread will signal. One that waits for `g_mutex` waits for its
  owner, which is in a critical section and waits for nothing.

Every `...CanGoOn` and the last conjunct of `TypeOK` spell out by hand when a thread has a step to
take, as `ENABLED` is out of the prover's reach. From the two halves follows each `~>` of the
table's rows but the last, for every value of the constants, once a thread that can go on does go on;
this last step is the fairness of the runs and is made by TLC only.

### Only model-checked

* Liveness itself: `QueueProgresses`, `StopCompletes`, `PlaybackEnds`, `ExitCompletes`,
  `CloseCompletes`, `RequestAnswered` of the server, `LastRequestAnswered`. The prover has
  no rules for fairness and `ENABLED`.
* What `SelectSeq` returns when the editor saves: it is a recursion over a function that the
  provers do not unfold, and the proofs use only the assumption that the result is a content.

## Not modelled

* Third-party code: `overlay/include` holds Tesla, a JSON parser and a font renderer, 34,357
  of the repository's 37,293 lines of code. What the overlay uses of it (a stack of pages, a
  list of items) is modelled where it is used.
* Drawing, translations (a table loaded once), logging (no-ops in the default build), the
  opening and closing of system services in `__appInit` and `__appExit`.
* In `PadMacro`, the frame rates; that the recorder's reader skips frames with the record
  combination is in `Recorder`.
* In `Overlay`, a `config.ini` that was written by hand or cannot be read; a failed
  `fsFileWrite` that has written a part (`GiveUpWriting` leaves the file as it was); and a tail
  that reaches back into the old text's `[pad]` lines (`Tails` begins in an old mapping), which
  the service skips, as they do not begin with a number, and of which a reopened overlay
  would show mappings with a mask of 0 until it saves again. Mapping
  combinations may repeat or contain each other: `isUsedCombo`, whose comment says it prevents
  this, has no caller.
* In `MacroFiles`, recordings made while the list is open, files beyond the fiftieth, and
  the parsing of the server's answer in `write_callback`; a Store lists the same names
  every time.
* In `LedUsers`, a playback that starts while the writer of the one before still runs:
  `Player` has that case.
* Pads other than one left and one right pad; entries past the last device of a list.
* Functions without a caller: `copy_file`, `stop_playing`, `hdlsStatePairQueuePeek`,
  `ReadPayload`, `isUsedCombo`.
* Disk full and short writes of macro files: `fwrite`'s result is ignored by the code and
  the model assumes it succeeds.
* Clock values: file names are not modelled, so two sessions in the same second are
  not told apart.

## Plan

1. An abstract specification of the mapping list (add, edit, delete by identity) that
   `Overlay` implements as long as nothing behind a deleted mapping is used, with the
   refinement proved.
2. An abstract specification of the store (a request is answered truly or not at all) that
   `Store` implements before an exit.
