--------------------------- MODULE InjectionProofs ---------------------------
(***************************************************************************)
(* Proofs about Player, Controller and their composition, for any macros,  *)
(* any capacity of the queue, any faults and pads that come and go as      *)
(* often as they like.                                                     *)
(***************************************************************************)
EXTENDS Injection, RunLengthProofs, FiniteSetTheorems, SequenceTheorems

MacroStates == {p.state : p \in MacroPairs}

ReaderRuns == rpc \notin Ended
WriterRuns == wpc \notin Ended

(* Where the two threads are while the listen thread is somewhere.         *)
ThreadsInStep ==
  /\ lpc = "create" => g_playing /\ rpc = "none" /\ wpc = "none"
  /\ lpc = "startRead" => g_playing /\ rpc = "created" /\ wpc = "created"
  /\ lpc = "startWrite" => (ReaderRuns \/ rpc = "exited") /\ wpc = "created"
  /\ lpc = "idle" /\ ~failed =>
       \/ rpc = "none" /\ wpc = "none" /\ ~g_playing
       \/ (ReaderRuns \/ rpc = "exited") /\ (WriterRuns \/ wpc = "exited")
  /\ lpc = "idle" /\ failed /\ ~(WriterRuns \/ wpc = "exited") =>
       rpc \in {"none", "created"} /\ wpc \in {"none", "created"}
  /\ WriterRuns \/ wpc = "exited" => ReaderRuns \/ rpc = "exited"

(* How far the reader is in the file, and what it has not published.       *)
ReaderInStep ==
  /\ rpc \in {"init", "check", "enqueue", "publish", "clear"} => g_playing
  /\ rpc \in {"exiting", "exited"} => ~g_playing
  /\ rpc = "enqueue" => pos < Len(macro)
  /\ rpc \in {"clear", "exiting", "exited"} => pos = Len(macro)
  /\ ready = IF rpc = "publish" THEN Len(items) - 1 ELSE Len(items)

(* The writer plays a pair of the macro, and waits for the reader before   *)
(* its last loop, which leaves the queue empty.                            *)
WriterInStep ==
  /\ wpc = "play" => got["writer"] \in MacroPairs /\ left \in Nat \ {0}
  /\ wpc = "join" => phase = "final"
  /\ wpc \in {"next", "play"} /\ phase = "final" => rpc = "exited"
  /\ wpc = "exited" => rpc = "exited" /\ items = <<>>
  /\ wpc = "none" /\ ~failed => items = <<>>

PlayerInv ==
  /\ TypeOK /\ injected \in Seq(MacroStates)
  /\ crashed => wpc = "none"
  /\ ~crashed => ThreadsInStep /\ ReaderInStep /\ WriterInStep

-----------------------------------------------------------------------------
DevicesOf(list) == {list[i].device : i \in 1..2}

(* A list has each pad at most once, from the front, and gives it input    *)
(* that was meant for its side.                                            *)
ListInOrder(list) ==
  /\ list[1].device # NoDevice => list[1].device # list[2].device
  /\ list[1].device = NoDevice => list[2].device = NoDevice
  /\ \A i \in 1..2 : list[i].device # NoDevice => list[i].input.side = list[i].device

(* What is not a pad's own input is on its list, and on its way back to it. *)
FramesListed ==
  /\ \A d \in Devices : input[d].state # Own =>
       d \in attached /\ d \in DevicesOf(stateList) /\ d \in DevicesOf(workmem)
  /\ \A i \in 1..2 : workmem[i].input.state # Own => workmem[i].device \in DevicesOf(stateList)

(* A neutral frame that was written alone is about to reach every pad that *)
(* holds a frame, or has reached it.                                       *)
NeutralArrives ==
  ~raced /\ injected # <<>> /\ Last(injected) = Neutral =>
    IF Applying
      THEN /\ Head(requests) = "apply"
           /\ \A i \in 1..2 : workmem[i].input.state \in {Own, Neutral}
           /\ \A i \in 1..2 : workmem[i].device # NoDevice => workmem[i].input.state = Neutral
      ELSE \A d \in Devices : input[d].state \in {Own, Neutral}

ControllerInv ==
  /\ ControllerTypeOK
  /\ ListInOrder(stateList) /\ ListInOrder(workmem)
  /\ \A d \in Devices : input[d].side = d
  /\ FramesListed

Inv == PlayerInv /\ ControllerInv /\ moves \in 0..MaxMoves /\ raced \in BOOLEAN /\ NeutralArrives

-----------------------------------------------------------------------------
(* The player                                                              *)
LEMMA MacroFacts ==
  /\ MacroPairs \subseteq PairsOf(MacroStates)
  /\ \A m \in Macros : m \in Seq(MacroPairs)
  /\ \A p \in MacroPairs : p.state \in MacroStates /\ p.count \in Nat \ {0}
  BY PlayerAssumption DEF PlayerAssumption, PairsOf, MacroStates, Pair

LEMMA PlayerInvInit == Init => PlayerInv
  <1> SUFFICES ASSUME Init PROVE PlayerInv
    OBVIOUS
  <1> USE PlayerAssumption DEF PlayerAssumption, Init, Q!Init
  <1>1. items \in Seq(MacroPairs) /\ injected \in Seq(MacroStates) /\ injected = <<>>
    BY EmptyType
  <1>2. Len(items) = 0 /\ ready = 0 /\ MAX_SIZE \in Nat
    OBVIOUS
  <1>3. got \in [{"writer"} -> MacroPairs \cup {Pair(Neutral, 0)}]
    OBVIOUS
  <1>4. Q!TypeOK
    BY <1>1, <1>2, <1>3 DEF Q!TypeOK
  <1>5. macro \in Macros /\ pos \in 0..Len(macro) /\ left \in Nat
    BY MacroFacts
  <1>6. \A i \in DOMAIN injected : injected[i] \in {p.state : p \in MacroPairs}
    BY <1>1
  <1>7. TypeOK
    BY <1>4, <1>5, <1>6 DEF TypeOK, ListenLabels, ReaderLabels, WriterLabels, Ended
  <1>8. ThreadsInStep /\ ReaderInStep /\ WriterInStep
    BY DEF ThreadsInStep, ReaderInStep, WriterInStep, Ended, ReaderRuns, WriterRuns
  <1>9. QED BY <1>1, <1>7, <1>8 DEF PlayerInv

LEMMA PlayerListenStep ==
  ASSUME PlayerInv, ~crashed, ListenStep \/ \E m \in Macros : StartPlay(m)
  PROVE  PlayerInv'
  <1> USE MacroFacts, EmptyType
      DEF PlayerInv, TypeOK, Q!TypeOK, ListenLabels, ReaderLabels, WriterLabels, Ended,
          ThreadsInStep, ReaderInStep, WriterInStep, ReaderRuns, WriterRuns, queue, writer,
          outcome
  <1>1. ASSUME NEW m \in Macros, StartPlay(m) PROVE PlayerInv'
    <2>1. Len(m) \in Nat
      OBVIOUS
    <2>2. injected' \in Seq(MacroStates) /\ injected' = <<>>
      BY <1>1 DEF StartPlay
    <2>3. TypeOK'
      BY <1>1, <2>1, <2>2 DEF StartPlay
    <2>4. ~crashed' => ThreadsInStep' /\ ReaderInStep' /\ WriterInStep'
      BY <1>1 DEF StartPlay
    <2>5. crashed' => wpc' = "none"
      BY <1>1 DEF StartPlay
    <2>6. QED BY <2>2, <2>3, <2>4, <2>5
  <1>2. CASE CreateThreads
    BY <1>2 DEF CreateThreads
  <1>3. CASE CreateFails
    BY <1>3 DEF CreateFails
  <1>4. CASE StartReadThread
    BY <1>4 DEF StartReadThread
  <1>5. CASE StartWriteThread
    BY <1>5 DEF StartWriteThread
  <1>6. CASE StartFails
    BY <1>6 DEF StartFails
  <1>7. QED BY <1>1, <1>2, <1>3, <1>4, <1>5, <1>6 DEF ListenStep

LEMMA PlayerReadStep ==
  ASSUME PlayerInv, ~crashed, ReadStep
  PROVE  PlayerInv'
  <1>1. macro \in Seq(MacroPairs) /\ Len(macro) \in Nat
    BY MacroFacts DEF PlayerInv, TypeOK
  <1> USE <1>1
      DEF PlayerInv, TypeOK, Q!TypeOK, ListenLabels, ReaderLabels, WriterLabels, Ended,
          ThreadsInStep, ReaderInStep, WriterInStep, ReaderRuns, WriterRuns, queue, writer,
          outcome
  <1>2. CASE ReadInit
    BY <1>2 DEF ReadInit
  <1>3. CASE ReadPair
    BY <1>3 DEF ReadPair
  <1>4. CASE ReadEnd
    BY <1>4 DEF ReadEnd
  <1>5. CASE EnqueuePair
    <2>1. macro[pos + 1] \in MacroPairs /\ ready = Len(items)
      BY <1>5 DEF EnqueuePair
    <2>2. items' \in Seq(MacroPairs) /\ Len(items') = Len(items) + 1
      BY <1>5, <2>1 DEF EnqueuePair, Q!Put
    <2>3. TypeOK'
      <3>1. Q!TypeOK'
        BY <1>5, <2>1, <2>2, PlayerAssumption
           DEF EnqueuePair, Q!Put, Q!HasSpace, PlayerAssumption
      <3> HIDE DEF Q!TypeOK
      <3>2. pos' \in 0..Len(macro')
        BY <1>5 DEF EnqueuePair
      <3>3. QED BY <1>5, <3>1, <3>2 DEF EnqueuePair
    <2>4. ThreadsInStep' /\ ReaderInStep'
      BY <1>5, <2>1, <2>2 DEF EnqueuePair, Q!Put
    <2>5. WriterInStep'
      BY <1>5 DEF EnqueuePair, Q!Put
    <2>6. QED BY <1>5, <2>3, <2>4, <2>5 DEF EnqueuePair
  <1>6. CASE PublishPair
    BY <1>6 DEF PublishPair, Q!Publish
  <1>7. CASE ClearPlaying \/ ReadExit
    <2>1. TypeOK'
      BY <1>7 DEF ClearPlaying, ResetPlaying, ReadExit
    <2>2. ThreadsInStep' /\ ReaderInStep' /\ WriterInStep'
      BY <1>7 DEF ClearPlaying, ResetPlaying, ReadExit
    <2>3. QED BY <1>7, <2>1, <2>2 DEF ClearPlaying, ReadExit
  <1>8. QED BY <1>2, <1>3, <1>4, <1>5, <1>6, <1>7 DEF ReadStep

LEMMA PlayerWriteStep ==
  ASSUME PlayerInv, ~crashed, WriteStep
  PROVE  PlayerInv'
  <1> USE DEF PlayerInv, TypeOK, Q!TypeOK, ListenLabels, ReaderLabels, WriterLabels, Ended,
              ThreadsInStep, ReaderInStep, WriterInStep, ReaderRuns, WriterRuns, queue, writer,
              outcome
  <1>1. CASE WriteInit
    BY <1>1 DEF WriteInit
  <1>2. CASE TakePair
    <2>1. items # <<>> /\ Head(items) \in MacroPairs /\ Tail(items) \in Seq(MacroPairs)
      BY <1>2 DEF TakePair, Q!Take
    <2>2. Len(Tail(items)) = Len(items) - 1 /\ Head(items).count \in Nat \ {0}
      BY <2>1, MacroFacts
    <2>3. got'["writer"] = Head(items) /\ got' \in [{"writer"} -> MacroPairs \cup {Pair(Neutral, 0)}]
      BY <1>2, <2>1 DEF TakePair, Q!Take
    <2>4. TypeOK'
      <3>1. items' \in Seq(MacroPairs) /\ Len(items') <= MAX_SIZE /\ ready' \in 0..Len(items')
        <4>1. items' = Tail(items) /\ ready' = ready - 1 /\ ready > 0
          BY <1>2 DEF TakePair, Q!Take
        <4>2. ready \in 0..Len(items) /\ Len(items) <= MAX_SIZE /\ Len(items) \in Nat
          OBVIOUS
        <4> HIDE DEF PlayerInv, TypeOK, Q!TypeOK
        <4>3. QED BY <2>1, <2>2, <4>1, <4>2, PlayerAssumption DEF PlayerAssumption
      <3>2. Q!TypeOK'
        BY <2>3, <3>1
      <3> HIDE DEF Q!TypeOK
      <3>3. QED BY <1>2, <2>2, <3>2 DEF TakePair
    <2>5. ThreadsInStep' /\ ReaderInStep' /\ WriterInStep'
      BY <1>2, <2>1, <2>2, <2>3 DEF TakePair, Q!Take
    <2>6. QED BY <1>2, <2>4, <2>5 DEF TakePair
  <1>3. CASE PlayFrame
    <2>1. got["writer"].state \in MacroStates
      BY <1>3, MacroFacts DEF PlayFrame
    <2>2. injected' \in Seq(MacroStates)
      BY <1>3, <2>1 DEF PlayFrame
    <2>3. \A i \in DOMAIN injected' : injected'[i] \in {p.state : p \in MacroPairs}
      BY <2>2 DEF MacroStates
    <2>4. left' \in Nat /\ (left - 1 # 0 => left' \in Nat \ {0})
      BY <1>3 DEF PlayFrame
    <2>5. QED BY <1>3, <2>2, <2>3, <2>4 DEF PlayFrame, Again
  <1>4. CASE NextLoop
    BY <1>4 DEF NextLoop, NoPairLeft
  <1>5. CASE JoinReader
    BY <1>5 DEF JoinReader
  <1>6. QED BY <1>1, <1>2, <1>3, <1>4, <1>5 DEF WriteStep

LEMMA PlayerInvStep == PlayerInv /\ [Next]_vars => PlayerInv'
  <1> SUFFICES ASSUME PlayerInv, [Next]_vars PROVE PlayerInv'
    OBVIOUS
  <1>1. CASE UNCHANGED vars
    BY <1>1 DEF vars, queue, writer, outcome, PlayerInv, TypeOK, Q!TypeOK, ThreadsInStep,
                ReaderInStep, WriterInStep, ReaderRuns, WriterRuns
  <1>2. CASE Next
    BY <1>2, PlayerListenStep, PlayerReadStep, PlayerWriteStep DEF Next
  <1>3. QED BY <1>1, <1>2

(* The player's inductive invariant holds, whatever is played and fails    *)
(* (player.c:44-138).                                                      *)
THEOREM PlayerInvHolds == Spec => []PlayerInv
  <1>1. QED BY PlayerInvInit, PlayerInvStep, PTL DEF Spec

(* The player's variables keep their types, and the writer never counts    *)
(* below 0 (player.c:44-92, 110-150).                                      *)
THEOREM PlayerTypeCorrect == Spec => []TypeOK
  <1>1. PlayerInv => TypeOK
    BY DEF PlayerInv
  <1>2. QED BY <1>1, PlayerInvHolds, PTL

-----------------------------------------------------------------------------
(* What was played and what was read.                                      *)
InHand == IF wpc = "play" THEN Repeat(got["writer"].state, left) ELSE <<>>
Started == SubSeq(macro, 1, pos)

LEMMA PlayedIs ==
  /\ Played = injected \o InHand \o Expand(items)
  /\ Played' = injected' \o InHand' \o Expand(items')
  BY DEF Played, InHand

LEMMA PlayedType ==
  ASSUME PlayerInv, ~crashed
  PROVE  /\ injected \in Seq(MacroStates) /\ InHand \in Seq(MacroStates)
         /\ items \in Seq(PairsOf(MacroStates)) /\ Expand(items) \in Seq(MacroStates)
         /\ Started \in Seq(PairsOf(MacroStates)) /\ Expand(Started) \in Seq(MacroStates)
         /\ Played \in Seq(MacroStates)
  <1>1. items \in Seq(MacroPairs) /\ macro \in Seq(MacroPairs) /\ pos \in 0..Len(macro)
    BY MacroFacts DEF PlayerInv, TypeOK, Q!TypeOK
  <1>2. items \in Seq(PairsOf(MacroStates)) /\ macro \in Seq(PairsOf(MacroStates))
    BY <1>1, MacroFacts
  <1>3. Started \in Seq(PairsOf(MacroStates))
    BY <1>1, <1>2 DEF Started
  <1>4. Expand(items) \in Seq(MacroStates) /\ Expand(Started) \in Seq(MacroStates)
    BY <1>2, <1>3, ExpandType
  <1>5. InHand \in Seq(MacroStates)
    <2>1. wpc = "play" => got["writer"].state \in MacroStates /\ left \in Nat
      BY MacroFacts DEF PlayerInv, WriterInStep
    <2>2. wpc = "play" => Repeat(got["writer"].state, left) \in Seq(MacroStates)
      BY <2>1, RepeatType
    <2>3. QED BY <2>2, EmptyType DEF InHand
  <1>6. injected \in Seq(MacroStates)
    BY DEF PlayerInv
  <1>7. QED BY <1>2, <1>3, <1>4, <1>5, <1>6, PlayedIs

(* A pair of the file goes to the queue.                                   *)
LEMMA EnqueueAddsPair ==
  ASSUME PlayerInv, ~crashed, EnqueuePair
  PROVE  \E r \in Seq(MacroStates) :
           Played' = Played \o r /\ Expand(Started') = Expand(Started) \o r
  <1> DEFINE p == macro[pos + 1]
             r == Repeat(p.state, p.count)
  <1>1. macro \in Seq(MacroPairs) /\ pos \in 0..Len(macro) /\ pos < Len(macro)
    BY MacroFacts DEF PlayerInv, TypeOK, EnqueuePair, ReaderInStep
  <1>2. p \in MacroPairs
    BY <1>1
  <1>3. Started' = Append(Started, p)
    BY <1>1 DEF EnqueuePair, Started
  <1>4. items' = Append(items, p) /\ injected' = injected /\ InHand' = InHand
    BY DEF EnqueuePair, Q!Put, InHand, writer
  <1> HIDE DEF p
  <1>5. p \in PairsOf(MacroStates) /\ r \in Seq(MacroStates)
    BY <1>2, MacroFacts, PairFrames
  <1>6. /\ Expand(Append(Started, p)) = Expand(Started) \o r
        /\ Expand(Append(items, p)) = Expand(items) \o r
    BY <1>5, PlayedType, ExpandAppend
  <1> HIDE DEF r
  <1>7. Played' = injected \o InHand \o (Expand(items) \o r)
    BY <1>4, <1>6, PlayedIs
  <1>8. injected \o InHand \o (Expand(items) \o r) = (injected \o InHand \o Expand(items)) \o r
    BY <1>5, PlayedType
  <1>9. Played' = Played \o r
    BY <1>7, <1>8, PlayedIs
  <1>10. QED BY <1>3, <1>5, <1>6, <1>9

(* The writer takes a pair: its frames are in hand then.                   *)
LEMMA TakeKeepsPlayed ==
  ASSUME PlayerInv, ~crashed, TakePair
  PROVE  Played' = Played
  <1> DEFINE h == Head(items)
             r == Repeat(h.state, h.count)
  <1>1. items # <<>>
    BY DEF TakePair, Q!Take, PlayerInv, TypeOK, Q!TypeOK
  <1>2. items' = Tail(items) /\ injected' = injected
    BY DEF TakePair, Q!Take
  <1>3. InHand = <<>>
    BY DEF TakePair, InHand
  <1>4. got'["writer"] = h /\ left' = h.count /\ wpc' = "play"
    BY DEF TakePair, Q!Take, PlayerInv, TypeOK, Q!TypeOK
  <1>5. InHand' = r
    BY <1>4 DEF InHand
  <1>6. items \in Seq(PairsOf(MacroStates))
    BY PlayedType
  <1>7. Expand(items) = r \o Expand(Tail(items))
    BY <1>1, <1>6, ExpandHead
  <1>8. r \in Seq(MacroStates) /\ Expand(Tail(items)) \in Seq(MacroStates)
    <2>1. h \in PairsOf(MacroStates) /\ Tail(items) \in Seq(PairsOf(MacroStates))
      BY <1>1, <1>6
    <2>2. QED BY <2>1, PairFrames, ExpandType
  <1>9. injected \in Seq(MacroStates)
    BY PlayedType
  <1> HIDE DEF r
  <1>10. (injected \o r) \o Expand(Tail(items)) = (injected \o <<>>) \o (r \o Expand(Tail(items)))
    BY <1>8, <1>9
  <1>11. Played' = (injected \o r) \o Expand(Tail(items))
    BY <1>2, <1>5, PlayedIs
  <1>12. Played = (injected \o <<>>) \o (r \o Expand(Tail(items)))
    BY <1>3, <1>7, PlayedIs
  <1>13. QED BY <1>10, <1>11, <1>12, Zenon

(* The writer plays a frame of its pair.                                   *)
LEMMA PlayKeepsPlayed ==
  ASSUME PlayerInv, ~crashed, PlayFrame
  PROVE  Played' = Played
  <1> DEFINE s == got["writer"].state
  <1>1. s \in MacroStates /\ left \in Nat /\ left # 0
    BY MacroFacts DEF PlayFrame, PlayerInv, WriterInStep
  <1>2. /\ injected' = Append(injected, s) /\ left' = left - 1
        /\ UNCHANGED <<items, got>>
        /\ wpc' = IF left - 1 # 0 THEN "play" ELSE "next"
    BY DEF PlayFrame, Again, queue
  <1>3. InHand = Repeat(s, left)
    BY DEF PlayFrame, InHand
  <1>4. InHand' = Repeat(s, left - 1)
    <2>1. CASE left - 1 # 0
      BY <1>2, <2>1 DEF InHand
    <2>2. CASE left - 1 = 0
      BY <1>2, <2>2, RepeatNone DEF InHand
    <2>3. QED BY <2>1, <2>2
  <1>5. Repeat(s, left) = <<s>> \o Repeat(s, left - 1)
    BY <1>1, RepeatFirst
  <1>6. injected \in Seq(MacroStates) /\ Repeat(s, left - 1) \in Seq(MacroStates)
    <2>1. left - 1 \in Nat
      BY <1>1
    <2>2. QED BY <1>1, <2>1, PlayedType, RepeatType
  <1> HIDE DEF s
  <1>7. injected \o (<<s>> \o Repeat(s, left - 1)) = Append(injected, s) \o Repeat(s, left - 1)
    BY <1>1, <1>6
  <1>8. Played' = (Append(injected, s) \o Repeat(s, left - 1)) \o Expand(items)
    BY <1>2, <1>4, PlayedIs
  <1>9. Played = (injected \o (<<s>> \o Repeat(s, left - 1))) \o Expand(items)
    BY <1>3, <1>5, PlayedIs
  <1>10. QED BY <1>7, <1>8, <1>9, Zenon

(* No other step of the two threads, or of their making, moves a frame.    *)
LEMMA OthersKeepPlayed ==
  ASSUME PlayerInv, ~crashed, ~crashed',
         \/ ListenStep
         \/ ReadInit \/ ReadPair \/ ReadEnd \/ PublishPair \/ ClearPlaying \/ ReadExit
         \/ WriteInit \/ NextLoop \/ JoinReader
  PROVE  Played' = Played /\ UNCHANGED <<macro, pos>>
  <1> USE DEF queue, writer, outcome
  <1>1. UNCHANGED <<macro, pos, items, injected>>
    BY DEF ListenStep, CreateThreads, CreateFails, StartReadThread, StartWriteThread,
           StartFails, ReadInit, ReadPair, ReadEnd, PublishPair, ClearPlaying, ReadExit,
           WriteInit, NextLoop, JoinReader, Q!Publish
  <1>2. CASE ListenStep
    <2>1. wpc # "play" /\ wpc' # "play"
      BY <1>2 DEF ListenStep, CreateThreads, CreateFails, StartReadThread, StartWriteThread,
                  StartFails, PlayerInv, ThreadsInStep
    <2>2. InHand = <<>> /\ InHand' = <<>>
      BY <2>1 DEF InHand
    <2>3. QED BY <1>1, <2>2, PlayedIs
  <1>3. CASE ReadInit \/ ReadPair \/ ReadEnd \/ PublishPair \/ ClearPlaying \/ ReadExit
    <2>1. UNCHANGED <<wpc, left, got>>
      BY <1>3 DEF ReadInit, ReadPair, ReadEnd, PublishPair, ClearPlaying, ReadExit, Q!Publish
    <2>2. InHand' = InHand
      BY <2>1 DEF InHand
    <2>3. QED BY <1>1, <2>2, PlayedIs
  <1>4. CASE WriteInit \/ NextLoop \/ JoinReader
    <2>1. wpc # "play" /\ wpc' # "play"
      BY <1>4 DEF WriteInit, NextLoop, JoinReader
    <2>2. InHand = <<>> /\ InHand' = <<>>
      BY <2>1 DEF InHand
    <2>3. QED BY <1>1, <2>2, PlayedIs
  <1>5. QED BY <1>2, <1>3, <1>4

LEMMA SuffixOfItself ==
  ASSUME NEW S, NEW s \in Seq(S)
  PROVE  IsSuffix(s, s)
  <1>1. s = <<>> \o s /\ <<>> \in Seq(S)
    OBVIOUS
  <1>2. IsSuffix(s, <<>> \o s)
    BY <1>1, ConcatIsSuffix
  <1>3. QED BY <1>1, <1>2

(* A new playback finds the queue empty, unless a thread has failed.       *)
LEMMA BeginFollows ==
  ASSUME PlayerInv, ~crashed, NEW m \in Macros, StartPlay(m), ~crashed'
  PROVE  Follows(Played, Started)'
  <1>1. /\ injected' = <<>> /\ InHand' = <<>> /\ items' = items
        /\ failed' = failed /\ macro' = m /\ pos' = 0
    BY DEF StartPlay, InHand, queue
  <1>2. Expand(items) \in Seq(MacroStates)
    BY PlayedType
  <1>3. Played' = Expand(items)
    <2>1. Played' = <<>> \o <<>> \o Expand(items)
      BY <1>1, PlayedIs
    <2>2. QED BY <1>2, <2>1
  <1>4. Expand(Started') = <<>>
    <2>1. m \in Seq(MacroPairs)
      BY MacroFacts
    <2>2. Started' = <<>>
      BY <1>1, <2>1 DEF Started
    <2>3. QED BY <2>2, ExpandEmpty
  <1>5. CASE failed
    <2>1. Expand(items) \o <<>> = Expand(items) /\ <<>> \in Seq(MacroStates)
      BY <1>2
    <2>2. IsSuffix(<<>>, Expand(items))
      BY <1>2, <2>1, ConcatIsSuffix
    <2>3. QED BY <1>1, <1>3, <1>4, <1>5, <2>2 DEF Follows
  <1>6. CASE ~failed
    <2>1. items = <<>>
      BY <1>6 DEF StartPlay, PlayerInv, TypeOK, ThreadsInStep, WriterInStep, WriterRuns,
                  WriterLabels, Ended
    <2>2. QED BY <1>1, <1>3, <1>4, <1>6, <2>1, ExpandEmpty DEF Follows
  <1>7. QED BY <1>5, <1>6

(* What follows the beginning of the macro goes on doing so.               *)
LEMMA FollowsStep ==
  ASSUME PlayerInv, Next, ~crashed', Follows(Played, Started)
  PROVE  Follows(Played, Started)'
  <1>1. ~crashed
    BY DEF Next
  <1>2. Played \in Seq(MacroStates) /\ Expand(Started) \in Seq(MacroStates)
    BY <1>1, PlayedType
  <1>3. failed => failed'
    BY DEF Next, StartPlay, ListenStep, CreateThreads, CreateFails, StartReadThread,
           StartWriteThread, StartFails, ReadStep, ReadInit, ReadPair, ReadEnd, EnqueuePair,
           PublishPair, ClearPlaying, ReadExit, WriteStep, WriteInit, TakePair, PlayFrame,
           NextLoop, JoinReader, outcome
  <1>4. ASSUME Played' = Played, Started' = Started
        PROVE  Follows(Played, Started)'
    <2>1. Played = Expand(Started) => IsSuffix(Expand(Started), Played)
      BY <1>2, SuffixOfItself
    <2>2. QED BY <1>3, <1>4, <2>1 DEF Follows
  <1>5. ASSUME NEW m \in Macros, StartPlay(m) PROVE Follows(Played, Started)'
    BY <1>1, <1>5, BeginFollows
  <1>6. CASE EnqueuePair
    <2>1. PICK r \in Seq(MacroStates) :
            Played' = Played \o r /\ Expand(Started') = Expand(Started) \o r
      BY <1>1, <1>6, EnqueueAddsPair
    <2>2. failed' = failed
      BY <1>6 DEF EnqueuePair, outcome
    <2>3. CASE ~failed
      BY <2>1, <2>2, <2>3 DEF Follows
    <2>4. CASE failed
      <3>1. PICK u \in Seq(MacroStates) : Played = u \o Expand(Started)
        BY <1>2, <2>4, SuffixIs DEF Follows
      <3>2. /\ (u \o Expand(Started)) \o r = u \o (Expand(Started) \o r)
            /\ Expand(Started) \o r \in Seq(MacroStates)
        BY <1>2
      <3>3. IsSuffix(Expand(Started) \o r, u \o (Expand(Started) \o r))
        BY <3>2, ConcatIsSuffix
      <3>4. QED BY <2>1, <2>2, <2>4, <3>1, <3>2, <3>3 DEF Follows
    <2>5. QED BY <2>3, <2>4
  <1>7. CASE TakePair
    BY <1>1, <1>4, <1>7, TakeKeepsPlayed DEF TakePair, Started
  <1>8. CASE PlayFrame
    BY <1>1, <1>4, <1>8, PlayKeepsPlayed DEF PlayFrame, Started
  <1>9. CASE \/ ListenStep
             \/ ReadInit \/ ReadPair \/ ReadEnd \/ PublishPair \/ ClearPlaying \/ ReadExit
             \/ WriteInit \/ NextLoop \/ JoinReader
    BY <1>1, <1>4, <1>9, OthersKeepPlayed DEF Started
  <1>10. QED BY <1>5, <1>6, <1>7, <1>8, <1>9 DEF Next, ReadStep, WriteStep

(* A writer that has ended has played all that went through the queue, and *)
(* all of the file has.                                                    *)
LEMMA EndedHasPlayedAll ==
  ASSUME PlayerInv, ~crashed, wpc = "exited"
  PROVE  Played = injected /\ Started = macro
  <1>1. items = <<>> /\ pos = Len(macro) /\ InHand = <<>>
    BY DEF PlayerInv, WriterInStep, ReaderInStep, InHand
  <1>2. injected \in Seq(MacroStates) /\ macro \in Seq(MacroPairs)
    BY MacroFacts DEF PlayerInv, TypeOK
  <1>3. Played = injected \o <<>> \o <<>>
    BY <1>1, PlayedIs, ExpandEmpty
  <1>4. QED BY <1>1, <1>2, <1>3 DEF Started

(* A playback is the macro, frame by frame: what has gone through the queue *)
(* is its beginning, and a writer that has ended has played all of it, for *)
(* any macro, any capacity of the queue and every interleaving             *)
(* (player.c:44-92, 110-150).                                              *)
THEOREM PlayedIsFaithful == Spec => []PlayedFaithful
  <1> DEFINE F == ~crashed => Follows(Played, Started)
  <1>1. Init => F
    <2> SUFFICES ASSUME Init PROVE Follows(Played, Started)
      OBVIOUS
    <2>1. injected = <<>> /\ InHand = <<>> /\ items = <<>> /\ pos = 0 /\ ~failed
      BY DEF Init, Q!Init, InHand
    <2>2. macro \in Seq(MacroPairs)
      BY MacroFacts DEF Init
    <2>3. Started = <<>> /\ <<>> \o <<>> = <<>>
      BY <2>1, <2>2 DEF Started
    <2>4. Played = <<>> /\ Expand(Started) = <<>>
      BY <2>1, <2>3, PlayedIs, ExpandEmpty
    <2>5. QED BY <2>1, <2>4 DEF Follows
  <1>2. PlayerInv /\ F /\ [Next]_vars => F'
    <2> SUFFICES ASSUME PlayerInv, F, [Next]_vars, ~crashed' PROVE Follows(Played, Started)'
      OBVIOUS
    <2>1. CASE UNCHANGED vars
      BY <2>1 DEF vars, queue, writer, outcome, Played, Started, Follows
    <2>2. CASE Next
      <3>1. ~crashed
        BY <2>2 DEF Next
      <3>2. QED BY <2>2, <3>1, FollowsStep
    <2>3. QED BY <2>1, <2>2
  <1>3. PlayerInv /\ F => PlayedFaithful
    <2> SUFFICES ASSUME PlayerInv, ~crashed, Follows(Played, Started),
                        wpc = "exited"
                 PROVE  Follows(injected, macro)
      BY DEF PlayedFaithful, Started
    <2>1. QED BY EndedHasPlayedAll
  <1> HIDE DEF F
  <1>4. QED BY <1>1, <1>2, <1>3, PlayerInvHolds, PTL DEF Spec

-----------------------------------------------------------------------------
(* The end of a playback                                                   *)

(* The writer leaves its first loop only when the flag is cleared, which   *)
(* nobody sets again without closing the writer.                           *)
PhaseInStep == ~crashed /\ wpc \in {"next", "play", "join"} /\ phase # "loop" => ~g_playing

(* Every step keeps it.                                                    *)
LEMMA PhaseStep == PhaseInStep /\ [Next]_vars => PhaseInStep'
  BY DEF PhaseInStep, vars, queue, writer, outcome, Next, StartPlay, ListenStep, CreateThreads,
         CreateFails, StartReadThread, StartWriteThread, StartFails, ReadStep, ReadInit,
         ReadPair, ReadEnd, EnqueuePair, PublishPair, ClearPlaying, ResetPlaying, ReadExit,
         WriteStep, WriteInit, TakePair, PlayFrame, NextLoop, JoinReader

(* For any macros and any capacity of the queue: with the reader waiting   *)
(* for room and the writer for pairs or for the reader, one of them can go *)
(* on (player.c:30-92).                                                    *)
THEOREM PlaybackIsNeverStuck == Spec => []PlaybackNeverStuck
  <1>1. Init => PhaseInStep
    BY DEF Init, PhaseInStep
  <1>2. PlayerInv /\ PhaseInStep => PlaybackNeverStuck
    BY PlayerAssumption
       DEF PlayerInv, TypeOK, Q!TypeOK, ThreadsInStep, ReaderInStep, WriterInStep, PhaseInStep,
           PlaybackNeverStuck, Playing, ReaderCanGoOn, WriterCanGoOn, Q!HasSpace, ReaderRuns,
           WriterRuns, WriterLabels, Ended, PlayerAssumption
  <1>3. QED BY <1>1, <1>2, PhaseStep, PlayerInvHolds, PTL DEF Spec

(* A sequence is its first n elements and the rest.                        *)
LEMMA SplitSequence ==
  ASSUME NEW S, NEW s \in Seq(S), NEW n \in 0..Len(s)
  PROVE  /\ SubSeq(s, n + 1, Len(s)) \in Seq(S)
         /\ s = SubSeq(s, 1, n) \o SubSeq(s, n + 1, Len(s))
  <1> DEFINE a == SubSeq(s, 1, n)
             b == SubSeq(s, n + 1, Len(s))
  <1>1. Len(s) \in Nat /\ \A i \in 1..Len(s) : s[i] \in S
    OBVIOUS
  <1>2. a \in Seq(S) /\ Len(a) = n /\ \A i \in 1..n : a[i] = s[i]
    BY <1>1
  <1>3. b \in Seq(S) /\ Len(b) = Len(s) - n /\ \A i \in 1..(Len(s) - n) : b[i] = s[n + i]
    BY <1>1
  <1> HIDE DEF a, b
  <1>4. (a \o b) \in Seq(S) /\ Len(a \o b) = Len(s)
    BY <1>1, <1>2, <1>3
  <1>5. ASSUME NEW i \in 1..Len(s) PROVE (a \o b)[i] = s[i]
    <2>1. CASE i <= n
      BY <1>1, <1>2, <1>3, <2>1
    <2>2. CASE i > n
      <3>1. PICK j \in 1..(Len(s) - n) : j = i - n
        BY <1>1, <2>2
      <3>2. i = n + j
        BY <1>1, <3>1
      <3>3. (a \o b)[n + j] = b[j]
        BY <1>1, <1>2, <1>3
      <3>4. b[j] = s[n + j]
        BY <1>3
      <3>5. QED BY <3>2, <3>3, <3>4
    <2>3. i <= n \/ i > n
      BY <1>1
    <2>4. QED BY <2>1, <2>2, <2>3
  <1>6. a \o b = s
    BY <1>4, <1>5, SeqEqual
  <1>7. QED BY <1>3, <1>6 DEF a, b

LEMMA FramesToPlayIsNat ==
  ASSUME PlayerInv, ~crashed, ~failed, Follows(Played, Started)
  PROVE  FramesToPlay \in Nat
  <1> DEFINE rest == SubSeq(macro, pos + 1, Len(macro))
             later == InHand \o Expand(items)
  <1>1. macro \in Seq(PairsOf(MacroStates)) /\ pos \in 0..Len(macro)
    BY MacroFacts DEF PlayerInv, TypeOK
  <1>2. rest \in Seq(PairsOf(MacroStates)) /\ macro = Started \o rest
    BY <1>1, SplitSequence DEF Started
  <1> HIDE DEF rest
  <1>3. Expand(macro) = Expand(Started) \o Expand(rest) /\ Expand(rest) \in Seq(MacroStates)
    BY <1>2, PlayedType, ExpandConcat, ExpandType
  <1>4. later \in Seq(MacroStates) /\ injected \in Seq(MacroStates)
    BY PlayedType
  <1>5. Expand(Started) = injected \o later
    <2>1. injected \o InHand \o Expand(items) = injected \o later
      BY PlayedType
    <2>2. QED BY <2>1, PlayedIs DEF Follows
  <1> HIDE DEF later
  <1>6. Len(Expand(macro)) = Len(injected) + Len(later) + Len(Expand(rest))
    BY <1>3, <1>4, <1>5
  <1>7. QED BY <1>3, <1>4, <1>6 DEF FramesToPlay

StepsTyped ==
  /\ StartSteps[lpc] \in Nat /\ ReaderSteps[rpc] \in Nat /\ WriterSteps \in Nat
  /\ PairsToRead \in Nat /\ PairsToTake \in Nat /\ FramesToPlay \in Nat

(* The parts of the measure are natural numbers; that FramesToPlay is one  *)
(* takes PlayedFaithful.                                                   *)
LEMMA StepsAreTyped == PlayerInv /\ PlayedFaithful /\ ~crashed /\ ~failed => StepsTyped
  <1> SUFFICES ASSUME PlayerInv, PlayedFaithful, ~crashed, ~failed PROVE StepsTyped
    OBVIOUS
  <1>1. StartSteps[lpc] \in Nat
    BY DEF PlayerInv, TypeOK, ListenLabels, StartSteps
  <1>2. ReaderSteps[rpc] \in Nat
    BY DEF PlayerInv, TypeOK, ReaderLabels, Ended, ReaderSteps
  <1>3. WriterSteps \in Nat
    <2>1. wpc \in WriterLabels /\ phase \in {"loop", "drain", "final"}
      BY DEF PlayerInv, TypeOK
    <2>2. QED BY <2>1 DEF WriterLabels, Ended, WriterSteps
  <1>4. PairsToRead \in Nat /\ PairsToTake \in Nat
    BY MacroFacts DEF PlayerInv, TypeOK, Q!TypeOK, PairsToRead, PairsToTake
  <1>5. FramesToPlay \in Nat
    BY FramesToPlayIsNat DEF PlayedFaithful, Started
  <1>6. QED BY <1>1, <1>2, <1>3, <1>4, <1>5 DEF StepsTyped

(* What each thread's steps take off.                                      *)
LEMMA StartShortens ==
  ASSUME PlayerInv, ~crashed, ~failed', ListenStep
  PROVE  /\ StartSteps[lpc'] < StartSteps[lpc]
         /\ ReaderSteps[rpc'] = ReaderSteps[rpc] /\ WriterSteps' = WriterSteps
         /\ UNCHANGED <<PairsToRead, PairsToTake, FramesToPlay>>
  <1>1. CreateThreads \/ StartReadThread \/ StartWriteThread
    BY DEF ListenStep, CreateFails, StartFails
  <1>2. UNCHANGED <<PairsToRead, PairsToTake, FramesToPlay>>
    BY <1>1 DEF CreateThreads, StartReadThread, StartWriteThread, queue, writer, PairsToRead,
                PairsToTake, FramesToPlay
  <1>3. StartSteps[lpc'] < StartSteps[lpc] /\ ReaderSteps[rpc'] = ReaderSteps[rpc]
    BY <1>1 DEF CreateThreads, StartReadThread, StartWriteThread, StartSteps, ReaderSteps,
                PlayerInv, ThreadsInStep
  <1>4. WriterSteps' = WriterSteps
    BY <1>1 DEF CreateThreads, StartReadThread, StartWriteThread, WriterSteps, writer,
                PlayerInv, ThreadsInStep
  <1>5. QED BY <1>2, <1>3, <1>4

(* A step of the reader lowers its part of the measure alone.              *)
LEMMA ReadShortens ==
  ASSUME PlayerInv, ~crashed, ReadStep
  PROVE  /\ ReaderSteps[rpc'] + 3 * PairsToRead' < ReaderSteps[rpc] + 3 * PairsToRead
         /\ UNCHANGED <<StartSteps[lpc], WriterSteps, PairsToTake, FramesToPlay>>
  <1>1. macro \in Seq(MacroPairs) /\ Len(macro) \in Nat /\ pos \in Nat /\ Len(items) \in Nat
    BY MacroFacts DEF PlayerInv, TypeOK, Q!TypeOK
  <1>2. UNCHANGED <<macro, lpc, wpc, phase, injected>>
    BY DEF ReadStep, ReadInit, ReadPair, ReadEnd, EnqueuePair, PublishPair, ClearPlaying,
           ReadExit, writer
  <1>3. UNCHANGED <<StartSteps[lpc], WriterSteps, FramesToPlay>>
    BY <1>2 DEF WriterSteps, FramesToPlay, StartSteps
  <1>4. CASE EnqueuePair
    <2>1. Len(items') = Len(items) + 1 /\ pos' = pos + 1 /\ rpc = "enqueue" /\ rpc' = "publish"
      BY <1>1, <1>4 DEF EnqueuePair, Q!Put, PlayerInv, TypeOK, Q!TypeOK
    <2>2. QED BY <1>1, <1>2, <1>3, <2>1 DEF PairsToRead, PairsToTake, ReaderSteps
  <1>5. CASE ~EnqueuePair
    <2>1. UNCHANGED <<items, pos>>
      BY <1>5 DEF ReadStep, ReadInit, ReadPair, ReadEnd, PublishPair, ClearPlaying, ReadExit,
                  queue, Q!Publish
    <2>2. PairsToRead' = PairsToRead /\ PairsToTake' = PairsToTake /\ PairsToRead \in Int
      BY <1>1, <1>2, <2>1 DEF PairsToRead, PairsToTake
    <2>3. /\ ReaderSteps[rpc'] < ReaderSteps[rpc]
          /\ ReaderSteps[rpc'] \in Nat /\ ReaderSteps[rpc] \in Nat
      BY <1>5 DEF ReadStep, ReadInit, ReadPair, ReadEnd, PublishPair, ClearPlaying, ReadExit,
                  ReaderSteps
    <2>4. QED BY <1>3, <2>2, <2>3
  <1>6. QED BY <1>4, <1>5

LEMMA WriteShortens ==
  ASSUME PlayerInv, ~crashed, WriteStep
  PROVE  /\ \/ WriterSteps' < WriterSteps /\ UNCHANGED <<PairsToTake, FramesToPlay>>
            \/ PairsToTake' < PairsToTake /\ UNCHANGED <<WriterSteps, FramesToPlay>>
            \/ FramesToPlay' < FramesToPlay /\ UNCHANGED <<WriterSteps, PairsToTake>>
         /\ UNCHANGED <<StartSteps[lpc], ReaderSteps[rpc], PairsToRead>>
  <1>1. macro \in Seq(MacroPairs) /\ Len(macro) \in Nat /\ pos \in Nat /\ Len(items) \in Nat
    BY MacroFacts DEF PlayerInv, TypeOK, Q!TypeOK
  <1>2. UNCHANGED <<macro, pos, lpc, rpc>>
    BY DEF WriteStep, WriteInit, TakePair, PlayFrame, NextLoop, JoinReader
  <1>3. UNCHANGED <<StartSteps[lpc], ReaderSteps[rpc], PairsToRead>>
    BY <1>2 DEF StartSteps, ReaderSteps, PairsToRead
  <1>4. CASE WriteInit \/ NextLoop \/ JoinReader
    <2>1. UNCHANGED <<items, injected>>
      BY <1>4 DEF WriteInit, NextLoop, JoinReader, queue
    <2>2. WriterSteps' < WriterSteps
      BY <1>4 DEF WriteInit, NextLoop, JoinReader, WriterSteps, PlayerInv, WriterInStep
    <2>3. QED BY <1>2, <1>3, <2>1, <2>2 DEF PairsToTake, FramesToPlay, PairsToRead
  <1>5. CASE TakePair
    <2>1. Len(items') = Len(items) - 1
      BY <1>5 DEF TakePair, Q!Take, PlayerInv, TypeOK, Q!TypeOK
    <2>2. PairsToTake' < PairsToTake
      BY <1>1, <1>2, <2>1 DEF PairsToTake, PairsToRead
    <2>3. WriterSteps' = WriterSteps /\ injected' = injected
      BY <1>5 DEF TakePair, WriterSteps, PlayerInv, TypeOK
    <2>4. QED BY <1>2, <1>3, <2>2, <2>3 DEF FramesToPlay
  <1>6. CASE PlayFrame
    <2>1. Len(injected') = Len(injected) + 1 /\ Len(injected) \in Nat
      BY <1>6, MacroFacts DEF PlayFrame, PlayerInv, WriterInStep
    <2>2. Len(Expand(macro)) \in Nat
      <3>1. macro \in Seq(PairsOf(MacroStates))
        BY <1>1, MacroFacts
      <3>2. QED BY <3>1, ExpandType
    <2>3. FramesToPlay' < FramesToPlay
      BY <1>2, <2>1, <2>2 DEF FramesToPlay
    <2>4. WriterSteps' = WriterSteps /\ items' = items
      BY <1>6 DEF PlayFrame, WriterSteps, queue, PlayerInv, TypeOK
    <2>5. QED BY <1>2, <1>3, <2>3, <2>4 DEF PairsToTake, PairsToRead
  <1>7. QED BY <1>4, <1>5, <1>6 DEF WriteStep

(* And until a thread has failed to start, each step of the three threads  *)
(* brings the end nearer: once start_play has begun, no more than StepsLeft *)
(* are taken before reader and writer have ended, however long the macro   *)
(* and however small the queue (player.c:30-92, 110-138).                  *)
THEOREM PlaybackGetsShorter == Spec => PlaybackShortens
  <1>1. ASSUME PlayerInv, PlayerInv', PlayedFaithful, PlayedFaithful', [Next]_vars
        PROVE  [Playing => StepsLeft' \in 0..(StepsLeft - 1) \/ crashed' \/ failed']_vars
    <2> SUFFICES ASSUME Next, Playing, ~crashed', ~failed'
                 PROVE  StepsLeft' \in 0..(StepsLeft - 1)
      BY <1>1
    <2>1. ~crashed /\ ~failed
      BY DEF Next, StartPlay, ListenStep, CreateThreads, CreateFails, StartReadThread,
             StartWriteThread, StartFails, ReadStep, ReadInit, ReadPair, ReadEnd, EnqueuePair,
             PublishPair, ClearPlaying, ReadExit, WriteStep, WriteInit, TakePair, PlayFrame,
             NextLoop, JoinReader, outcome
    <2>2. StepsTyped
      BY <1>1, <2>1, StepsAreTyped
    <2>3. StepsTyped'
      BY <1>1, StepsAreTyped, PTL
    <2>4. ~\E m \in Macros : StartPlay(m)
      BY DEF StartPlay, Playing
    <2>5. CASE ListenStep
      BY <1>1, <2>1, <2>2, <2>3, <2>5, StartShortens DEF StepsLeft, StepsTyped
    <2>6. CASE ReadStep
      BY <1>1, <2>1, <2>2, <2>3, <2>6, ReadShortens DEF StepsLeft, StepsTyped
    <2>7. CASE WriteStep
      BY <1>1, <2>1, <2>2, <2>3, <2>7, WriteShortens DEF StepsLeft, StepsTyped
    <2>8. QED BY <2>4, <2>5, <2>6, <2>7 DEF Next
  <1>2. QED BY <1>1, PlayerInvHolds, PlayedIsFaithful, PTL DEF Spec, PlaybackShortens, PlaybackNearer

(* A playback comes to its end: one of its threads can go on, and each of  *)
(* their steps brings the end nearer (player.c:44-138).                    *)
THEOREM PlayingAdvances == Spec => PlaybackAdvances
  BY PlaybackIsNeverStuck, PlaybackGetsShorter, PTL DEF PlaybackAdvances, PlaybackShortens

-----------------------------------------------------------------------------
(* The service                                                             *)
LEMMA ServiceStep ==
  ASSUME PlayerInv, [Next]_vars, ~failed'
  PROVE  Service!Next \/ UNCHANGED Service!vars
  <1> USE DEF Service!vars, ReaderSeen, WriterSeen, PlayerInv, TypeOK, ThreadsInStep,
              ReaderInStep, WriterInStep, ReaderRuns, WriterRuns, ListenLabels, ReaderLabels,
              WriterLabels, Ended, queue, writer, outcome
  <1>1. CASE UNCHANGED vars
    BY <1>1 DEF vars
  <1>2. ASSUME NEW m \in Macros, ~crashed, StartPlay(m) PROVE Service!Next
    <2>1. ~failed /\ lpc = "idle" /\ ~g_playing /\ g_playing'
      BY <1>2 DEF StartPlay
    <2>2. ReaderSeen \in {"none", "exited"} /\ ReaderSeen' = "starting"
      BY <1>2, <2>1 DEF StartPlay
    <2>3. WriterSeen' = "running" /\ crashed' = (WriterSeen = "running")
      BY <1>2, <2>1 DEF StartPlay
    <2> HIDE DEF PlayerInv, ReaderSeen, WriterSeen
    <2>4. Service!Start
      BY <1>2, <2>1, <2>2, <2>3 DEF Service!Start
    <2>5. QED BY <1>2, <2>4 DEF Service!Next
  <1>3. CASE ~crashed /\ ListenStep
    <2>1. ~CreateFails /\ ~StartFails
      BY DEF CreateFails, StartFails
    <2>2. CASE CreateThreads \/ StartReadThread \/ StartWriteThread
      BY <1>3, <2>2 DEF CreateThreads, StartReadThread, StartWriteThread
    <2>3. QED BY <1>3, <2>1, <2>2 DEF ListenStep
  <1>4. CASE ~crashed /\ ReadStep
    <2>1. CASE ReadInit
      BY <1>4, <2>1 DEF ReadInit, Service!Next, Service!ReadBegins
    <2>2. CASE ClearPlaying
      BY <1>4, <2>2 DEF ClearPlaying, ResetPlaying, Service!Next, Service!ReadEnds
    <2>3. CASE ReadPair \/ ReadEnd \/ EnqueuePair \/ PublishPair \/ ReadExit
      BY <1>4, <2>3 DEF ReadPair, ReadEnd, EnqueuePair, PublishPair, ReadExit
    <2>4. QED BY <1>4, <2>1, <2>2, <2>3 DEF ReadStep
  <1>5. CASE ~crashed /\ WriteStep
    <2>1. CASE NextLoop
      BY <1>5, <2>1 DEF NextLoop, Service!Next, Service!WriteEnds
    <2>2. CASE WriteInit \/ TakePair \/ PlayFrame \/ JoinReader
      BY <1>5, <2>2 DEF WriteInit, TakePair, PlayFrame, JoinReader
    <2>3. QED BY <1>5, <2>1, <2>2 DEF WriteStep
  <1>6. QED BY <1>1, <1>2, <1>3, <1>4, <1>5 DEF Next

(* To its caller, start_play is the service that PadMacro contains: the    *)
(* reader is done when it clears the flag, and the writer ends after it    *)
(* (player.c:44-138).                                                      *)
THEOREM PlayerImplementsService == Spec => ImplementsService
  <1>1. Init => Service!Init
    BY DEF Init, Service!Init, ReaderSeen, WriterSeen
  <1> DEFINE A == ~failed' => Service!Next
  <1>2. PlayerInv /\ [Next]_vars => [A]_(Service!vars)
    BY ServiceStep
  <1> HIDE DEF A
  <1>3. QED BY <1>1, <1>2, PlayerInvHolds, PTL DEF Spec, ImplementsService, A

-----------------------------------------------------------------------------
(* The pads                                                                *)
LEMMA PadFacts ==
  /\ Left # Right /\ NoDevice \notin Devices /\ Own \notin States /\ "apply" \notin Readers
  /\ Devices = {Left, Right}
  BY ControllerAssumption DEF ControllerAssumption, Devices

LEMMA PadOrders ==
  ASSUME attached \subseteq Devices, NEW order \in SetToSeqs(attached)
  PROVE  /\ Len(order) \in 0..2 /\ DOMAIN order = 1..Len(order)
         /\ \A i \in 1..Len(order) : order[i] \in attached
         /\ \A d \in attached : \E i \in 1..Len(order) : order[i] = d
         /\ Len(order) = 2 => order[1] # order[2]
  <1> DEFINE n == Cardinality(attached)
  <1>1. /\ order \in [1..n -> attached]
        /\ \A i, j \in 1..n : i # j => order[i] # order[j]
    BY DEF SetToSeqs
  <1>2. Cardinality({}) = 0
    BY FS_EmptySet
  <1>3. Cardinality({Left}) = 1 /\ Cardinality({Right}) = 1 /\ IsFiniteSet({Left})
    BY FS_Singleton
  <1>4. Cardinality({Left, Right}) = 2
    <2>1. Cardinality({Left} \cup {Right}) = Cardinality({Left}) + 1
      BY <1>3, PadFacts, FS_AddElement
    <2>2. {Left} \cup {Right} = {Left, Right}
      OBVIOUS
    <2>3. QED BY <1>3, <2>1, <2>2
  <1>5. attached \in {{}, {Left}, {Right}, {Left, Right}}
    BY PadFacts
  <1> DEFINE R == /\ Len(order) \in 0..2 /\ DOMAIN order = 1..Len(order)
                  /\ \A i \in 1..Len(order) : order[i] \in attached
                  /\ \A d \in attached : \E i \in 1..Len(order) : order[i] = d
                  /\ Len(order) = 2 => order[1] # order[2]
  <1>6. CASE attached = {}
    <2>1. order \in [1..0 -> {}]
      BY <1>1, <1>2, <1>6
    <2>2. Len(order) = 0
      BY <2>1
    <2>3. QED BY <1>6, <2>1, <2>2
  <1>7. CASE attached = {Left} \/ attached = {Right}
    <2>1. order \in [1..1 -> attached]
      BY <1>1, <1>3, <1>7
    <2>2. Len(order) = 1 /\ order[1] \in attached
      BY <2>1
    <2>3. QED BY <1>7, <2>1, <2>2
  <1>8. CASE attached = {Left, Right}
    <2>1. order \in [1..2 -> {Left, Right}] /\ order[1] # order[2]
      BY <1>1, <1>4, <1>8
    <2>2. Len(order) = 2 /\ order[1] \in {Left, Right} /\ order[2] \in {Left, Right}
      BY <2>1
    <2>3. QED BY <1>8, <2>1, <2>2
  <1>9. QED BY <1>5, <1>6, <1>7, <1>8

(* What a dump brings.                                                     *)
LEMMA DumpedLists ==
  ASSUME attached \subseteq Devices, input \in [Devices -> Inputs],
         \A d \in Devices : input[d].side = d, NEW list \in Lists
  PROVE  /\ list \in [1..2 -> Entries] /\ ListInOrder(list)
         /\ \A d \in attached : d \in DevicesOf(list)
         /\ \A i \in 1..2 : \/ list[i] = NoEntry
                            \/ /\ list[i].device \in attached
                               /\ list[i].input = input[list[i].device]
  <1>1. PICK order \in SetToSeqs(attached) :
          list = [i \in 1..2 |-> IF i <= Len(order)
                                   THEN [device |-> order[i], input |-> input[order[i]]]
                                   ELSE NoEntry]
    BY DEF Lists
  <1>2. /\ Len(order) \in 0..2
        /\ \A i \in 1..Len(order) : order[i] \in attached
        /\ \A d \in attached : \E i \in 1..Len(order) : order[i] = d
        /\ Len(order) = 2 => order[1] # order[2]
    BY PadOrders
  <1>3. \A i \in 1..2 : i <= Len(order) =>
          /\ list[i] = [device |-> order[i], input |-> input[order[i]]]
          /\ order[i] \in attached /\ order[i] \in Devices
    BY <1>1, <1>2
  <1>4. \A i \in 1..2 : ~(i <= Len(order)) => list[i] = NoEntry
    BY <1>1
  <1>5. list \in [1..2 -> Entries]
    <2>1. \A i \in 1..2 : list[i] \in Entries
      BY <1>2, <1>3, <1>4 DEF Entries
    <2>2. QED BY <1>1, <2>1
  <1>6. \A d \in attached : d \in DevicesOf(list)
    <2>1. \A d \in attached : \E i \in 1..2 : list[i].device = d
      BY <1>2, <1>3
    <2>2. QED BY <2>1 DEF DevicesOf
  <1>7. \A i \in 1..2 : \/ list[i] = NoEntry
                        \/ /\ list[i].device \in attached
                           /\ list[i].input = input[list[i].device]
    BY <1>2, <1>3, <1>4
  <1>8. ListInOrder(list)
    <2>1. NoEntry.device = NoDevice
      BY DEF NoEntry
    <2>2. \A i \in 1..2 : i <= Len(order) => list[i].device = order[i] /\ list[i].device # NoDevice
      BY <1>3, PadFacts
    <2>3. CASE Len(order) = 2
      BY <1>2, <1>3, <2>2, <2>3 DEF ListInOrder
    <2>4. CASE Len(order) = 1
      BY <1>3, <1>4, <2>1, <2>2, <2>4 DEF ListInOrder
    <2>5. CASE Len(order) = 0
      BY <1>4, <2>1, <2>5 DEF ListInOrder
    <2>6. QED BY <1>2, <2>3, <2>4, <2>5
  <1>9. QED BY <1>5, <1>6, <1>7, <1>8

LEMMA ControllerInvInit == ControllerInit => ControllerInv
  <1> SUFFICES ASSUME ControllerInit PROVE ControllerInv
    OBVIOUS
  <1> USE DEF ControllerInit
  <1>1. NoEntry \in Entries /\ NoEntry.device = NoDevice /\ NoEntry.input.state = Own
    BY DEF Entries, NoEntry, OwnInput
  <1>2. stateList \in [1..2 -> Entries] /\ workmem \in [1..2 -> Entries]
    BY <1>1
  <1>3. \A d \in Devices : OwnInput(d) \in Inputs /\ OwnInput(d).side = d /\ OwnInput(d).state = Own
    BY DEF OwnInput, Inputs
  <1>4. input \in [Devices -> Inputs] /\ \A d \in Devices : input[d].side = d /\ input[d].state = Own
    BY <1>3
  <1>5. requests \in Seq(Readers \cup {"apply"}) /\ DOMAIN requests = {}
    BY EmptyType
  <1>6. ControllerTypeOK
    BY <1>2, <1>4, <1>5 DEF ControllerTypeOK, IsInjective
  <1>7. ListInOrder(stateList) /\ ListInOrder(workmem)
    BY <1>1 DEF ListInOrder
  <1>8. FramesListed
    BY <1>1, <1>4 DEF FramesListed
  <1>9. QED BY <1>4, <1>6, <1>7, <1>8 DEF ControllerInv

(* readState: nobody's requests but one's own.                             *)
LEMMA ReadStateKeepsInv ==
  ASSUME ControllerInv, NEW t \in Readers, CallReadState(t) \/ ReadState(t) \/ ReadFails(t)
  PROVE  ControllerInv'
  <1> USE DEF ControllerInv, ControllerTypeOK, FramesListed
  <1>1. CASE CallReadState(t)
    <2>1. requests' = Append(requests, t) /\ reading' = reading \cup {t}
      BY <1>1 DEF CallReadState
    <2>2. \A i \in DOMAIN requests : requests[i] # t
      BY <1>1, PadFacts DEF CallReadState
    <2>3. requests' \in Seq(Readers \cup {"apply"})
      BY <2>1
    <2>4. IsInjective(requests')
      BY <2>1, <2>2 DEF IsInjective
    <2>5. \A i \in DOMAIN requests' : requests'[i] \in reading' \cup {"apply"}
      BY <2>1
    <2>6. UNCHANGED <<stateList, workmem, attached, input>>
      BY <1>1 DEF CallReadState
    <2>7. QED BY <2>1, <2>3, <2>4, <2>5, <2>6
  <1>2. CASE ReadState(t) \/ ReadFails(t)
    <2>1. requests' = requests /\ reading' = reading \ {t} /\ UNCHANGED <<workmem, attached, input>>
      BY <1>2 DEF ReadState, ReadFails
    <2>2. \A i \in DOMAIN requests : requests[i] # t
      BY <1>2 DEF ReadState, ReadFails, Answered, Contains
    <2>3. \A i \in DOMAIN requests' : requests'[i] \in reading' \cup {"apply"}
      BY <2>1, <2>2
    <2>4. stateList' = stateList \/ stateList' = workmem
      BY <1>2 DEF ReadState, ReadFails
    <2>5. ControllerTypeOK'
      BY <2>1, <2>3, <2>4
    <2>6. ListInOrder(stateList') /\ ListInOrder(workmem')
      BY <2>1, <2>4
    <2>7. FramesListed'
      <3>1. CASE stateList' = stateList
        BY <2>1, <3>1
      <3>2. CASE stateList' = workmem
        BY <2>1, <3>2 DEF DevicesOf
      <3>3. QED BY <2>4, <3>1, <3>2
    <2>8. QED BY <2>1, <2>5, <2>6, <2>7
  <1>3. QED BY <1>1, <1>2

(* The list that a frame is written to keeps its pads.                     *)
LEMMA Written ==
  ASSUME ControllerInv, NEW s \in States, WriteState(s)
  PROVE  /\ stateList' \in [1..2 -> Entries] /\ ListInOrder(stateList')
         /\ \A i \in 1..2 : stateList'[i].device = stateList[i].device
         /\ \A i \in 1..2 : IF stateList[i].device = NoDevice
                              THEN stateList'[i].input.state = Own
                              ELSE stateList'[i].input.state = s
  <1> DEFINE side == IF LeftIndex(stateList) = 1 THEN <<Left, Right>> ELSE <<Right, Left>>
  <1>1. stateList' = [i \in 1..2 |->
           IF stateList[i] = NoEntry THEN NoEntry
           ELSE [stateList[i] EXCEPT !.input = [side |-> side[i], state |-> s]]]
    BY DEF WriteState
  <1>2. stateList \in [1..2 -> Entries] /\ ListInOrder(stateList)
    BY DEF ControllerInv, ControllerTypeOK
  <1>3. NoEntry.device = NoDevice /\ NoEntry.input.state = Own
    BY DEF NoEntry, OwnInput
  <1>4. \A e \in Entries : e # NoEntry =>
          e \in [device: Devices, input: Inputs] /\ e.device \in Devices /\ e.device # NoDevice
    BY PadFacts DEF Entries
  <1>5. side[1] \in Devices /\ side[2] \in Devices
    BY PadFacts
  <1>6. stateList[1].device # NoDevice => side[1] = stateList[1].device
    BY <1>2, <1>3, <1>4, PadFacts DEF LeftIndex
  <1>7. stateList[2].device # NoDevice => side[2] = stateList[2].device
    BY <1>2, <1>3, <1>4, PadFacts DEF LeftIndex, ListInOrder
  <1> HIDE DEF side
  <1>8. ASSUME NEW i \in 1..2
        PROVE  /\ stateList'[i] \in Entries
               /\ stateList'[i].device = stateList[i].device
               /\ stateList[i].device = NoDevice => stateList'[i].input.state = Own
               /\ stateList[i].device # NoDevice =>
                    stateList'[i].input = [side |-> stateList[i].device, state |-> s]
    <2>1. CASE stateList[i] = NoEntry
      BY <1>1, <1>3, <2>1 DEF Entries
    <2>2. CASE stateList[i] # NoEntry
      <3>1. /\ stateList[i] \in [device: Devices, input: Inputs]
            /\ stateList[i].device # NoDevice
        BY <1>2, <1>4, <2>2
      <3>2. side[i] = stateList[i].device /\ side[i] \in Devices
        BY <1>5, <1>6, <1>7, <3>1
      <3>3. [side |-> side[i], state |-> s] \in Inputs
        BY <3>2 DEF Inputs
      <3>4. stateList'[i] = [stateList[i] EXCEPT !.input = [side |-> side[i], state |-> s]]
        BY <1>1, <2>2
      <3>5. QED BY <3>1, <3>2, <3>3, <3>4 DEF Entries
    <2>3. QED BY <2>1, <2>2
  <1>9. stateList' \in [1..2 -> Entries]
    BY <1>1, <1>8
  <1>10. ListInOrder(stateList')
    BY <1>2, <1>8 DEF ListInOrder
  <1>11. QED BY <1>8, <1>9, <1>10

LEMMA WriteStateKeepsInv ==
  ASSUME ControllerInv, NEW s \in States, WriteState(s)
  PROVE  ControllerInv'
  <1>1. /\ requests' = Append(requests, "apply") /\ workmem' = stateList'
        /\ UNCHANGED <<reading, attached, input>>
        /\ ~Contains(requests, "apply")
    BY DEF WriteState
  <1>2. \A i \in DOMAIN requests : requests[i] # "apply"
    BY <1>1 DEF Contains, ControllerInv, ControllerTypeOK
  <1>3. requests' \in Seq(Readers \cup {"apply"})
    BY <1>1 DEF ControllerInv, ControllerTypeOK
  <1>4. IsInjective(requests')
    BY <1>1, <1>2 DEF IsInjective, ControllerInv, ControllerTypeOK
  <1>5. \A i \in DOMAIN requests' : requests'[i] \in reading' \cup {"apply"}
    BY <1>1 DEF ControllerInv, ControllerTypeOK
  <1>6. ControllerTypeOK'
    BY <1>1, <1>3, <1>4, <1>5, Written DEF ControllerInv, ControllerTypeOK
  <1>7. DevicesOf(stateList') = DevicesOf(stateList)
    BY Written DEF DevicesOf
  <1>8. FramesListed'
    <2>1. \A i \in 1..2 : stateList'[i].device \in DevicesOf(stateList')
      BY DEF DevicesOf
    <2>2. \A d \in Devices : input[d].state # Own => d \in attached /\ d \in DevicesOf(stateList)
      BY DEF ControllerInv, FramesListed
    <2>3. QED BY <1>1, <1>7, <2>1, <2>2 DEF FramesListed
  <1>9. QED BY <1>1, <1>6, <1>8, Written DEF ControllerInv

(* hiddbg.                                                                 *)
LEMMA TailOfRequests ==
  ASSUME ControllerTypeOK, requests # <<>>, requests' = Tail(requests), reading' = reading
  PROVE  /\ requests' \in Seq(Readers \cup {"apply"}) /\ IsInjective(requests')
         /\ \A i \in DOMAIN requests' : requests'[i] \in reading' \cup {"apply"}
         /\ \A i \in DOMAIN requests' : requests'[i] # Head(requests)
  <1>1. requests \in Seq(Readers \cup {"apply"}) /\ Len(requests) \in Nat /\ Len(requests) # 0
    BY DEF ControllerTypeOK
  <1>2. /\ requests' \in Seq(Readers \cup {"apply"}) /\ Len(requests') = Len(requests) - 1
        /\ \A i \in 1..Len(requests') : requests'[i] = requests[i + 1]
    BY <1>1
  <1>3. DOMAIN requests = 1..Len(requests) /\ DOMAIN requests' = 1..Len(requests')
    BY <1>1, <1>2
  <1>4. \A i, j \in 1..Len(requests) : requests[i] = requests[j] => i = j
    BY <1>3 DEF ControllerTypeOK, IsInjective
  <1>5. \A i \in 1..Len(requests) : requests[i] \in reading \cup {"apply"}
    BY <1>3 DEF ControllerTypeOK
  <1>6. \A i \in 1..Len(requests') : i + 1 \in 1..Len(requests)
    BY <1>1, <1>2
  <1>7. IsInjective(requests')
    BY <1>1, <1>2, <1>3, <1>4, <1>6 DEF IsInjective
  <1>8. Head(requests) = requests[1] /\ 1 \in 1..Len(requests)
    BY <1>1
  <1>9. QED BY <1>1, <1>2, <1>3, <1>4, <1>5, <1>6, <1>7, <1>8

LEMMA ServeDumpKeepsInv ==
  ASSUME ControllerInv, ServeDump
  PROVE  ControllerInv'
  <1>1. /\ requests # <<>> /\ requests' = Tail(requests) /\ workmem' \in Lists
        /\ UNCHANGED <<stateList, reading, attached, input>>
    BY DEF ServeDump
  <1>2. /\ attached \subseteq Devices /\ input \in [Devices -> Inputs]
        /\ \A d \in Devices : input[d].side = d
    BY DEF ControllerInv, ControllerTypeOK
  <1>3. /\ workmem' \in [1..2 -> Entries] /\ ListInOrder(workmem')
        /\ \A d \in attached : d \in DevicesOf(workmem')
        /\ \A i \in 1..2 : \/ workmem'[i] = NoEntry
                           \/ /\ workmem'[i].device \in attached
                              /\ workmem'[i].input = input[workmem'[i].device]
    BY <1>1, <1>2, DumpedLists
  <1>4. ControllerTypeOK'
    BY <1>1, <1>3, TailOfRequests DEF ControllerInv, ControllerTypeOK
  <1>5. FramesListed'
    <2>1. \A d \in Devices : input[d].state # Own => d \in attached /\ d \in DevicesOf(stateList)
      BY DEF ControllerInv, FramesListed
    <2>2. NoEntry.input.state = Own
      BY DEF NoEntry, OwnInput
    <2>3. \A i \in 1..2 : workmem'[i].input.state # Own =>
            workmem'[i].device \in DevicesOf(stateList)
      BY <1>2, <1>3, <2>1, <2>2
    <2>4. QED BY <1>1, <1>3, <2>1, <2>3 DEF FramesListed
  <1>6. QED BY <1>1, <1>3, <1>4, <1>5 DEF ControllerInv

(* What a served frame gives each pad.                                     *)
LEMMA Applied ==
  ASSUME ControllerInv, ServeApply
  PROVE  /\ DOMAIN input' = Devices
         /\ \A d \in Devices :
              \/ input'[d] = input[d] /\ (d \notin attached \/ d \notin DevicesOf(workmem))
              \/ d \in attached /\ \E i \in 1..2 : workmem[i].device = d /\ input'[d] = workmem[i].input
  <1>1. input' = [d \in Devices |->
           IF d \in attached /\ \E i \in 1..2 : workmem[i].device = d
             THEN workmem[CHOOSE i \in 1..2 : workmem[i].device = d].input
             ELSE input[d]]
    BY DEF ServeApply
  <1>2. ASSUME NEW d \in Devices
        PROVE  \/ input'[d] = input[d] /\ (d \notin attached \/ d \notin DevicesOf(workmem))
               \/ d \in attached /\ \E i \in 1..2 : workmem[i].device = d /\ input'[d] = workmem[i].input
    <2>1. CASE d \in attached /\ \E i \in 1..2 : workmem[i].device = d
      <3> DEFINE j == CHOOSE i \in 1..2 : workmem[i].device = d
      <3>1. j \in 1..2 /\ workmem[j].device = d
        BY <2>1
      <3>2. input'[d] = workmem[j].input
        BY <1>1, <2>1
      <3> HIDE DEF j
      <3>3. QED BY <2>1, <3>1, <3>2
    <2>2. CASE ~(d \in attached /\ \E i \in 1..2 : workmem[i].device = d)
      BY <1>1, <2>2 DEF DevicesOf
    <2>3. QED BY <2>1, <2>2
  <1>3. QED BY <1>1, <1>2

LEMMA ServeApplyKeepsInv ==
  ASSUME ControllerInv, ServeApply
  PROVE  ControllerInv'
  <1>1. /\ requests # <<>> /\ requests' = Tail(requests)
        /\ UNCHANGED <<stateList, workmem, reading, attached>>
    BY DEF ServeApply
  <1>2. \A i \in 1..2 : workmem[i] \in Entries /\ workmem[i].input \in Inputs
    BY DEF ControllerInv, ControllerTypeOK, Entries, NoEntry, Inputs, OwnInput, Devices
  <1>3. \A i \in 1..2 : workmem[i].device \in Devices => workmem[i].input.side = workmem[i].device
    BY PadFacts DEF ControllerInv, ListInOrder
  <1>4. \A d \in Devices : input'[d] \in Inputs /\ input'[d].side = d
    BY <1>2, <1>3, Applied DEF ControllerInv, ControllerTypeOK
  <1>5. input' \in [Devices -> Inputs]
    <2>1. input' = [d \in Devices |-> input'[d]]
      BY DEF ServeApply
    <2>2. QED BY <1>4, <2>1
  <1>6. ControllerTypeOK'
    BY <1>1, <1>5, TailOfRequests DEF ControllerInv, ControllerTypeOK
  <1>7. FramesListed'
    <2>1. ASSUME NEW d \in Devices, input'[d].state # Own
          PROVE  d \in attached /\ d \in DevicesOf(stateList) /\ d \in DevicesOf(workmem)
      <3>1. CASE input'[d] = input[d]
        BY <2>1, <3>1 DEF ControllerInv, FramesListed
      <3>2. CASE d \in attached /\ \E i \in 1..2 : workmem[i].device = d /\ input'[d] = workmem[i].input
        BY <2>1, <3>2 DEF ControllerInv, FramesListed, DevicesOf
      <3>3. QED BY <3>1, <3>2, Applied
    <2>2. QED BY <1>1, <2>1 DEF ControllerInv, FramesListed
  <1>8. QED BY <1>1, <1>4, <1>6, <1>7 DEF ControllerInv

LEMMA MovePadKeepsInv ==
  ASSUME ControllerInv, NEW d \in Devices, MovePad(d)
  PROVE  ControllerInv'
  <1>1. /\ input' = [input EXCEPT ![d] = OwnInput(d)]
        /\ UNCHANGED <<stateList, workmem, requests, reading>>
        /\ attached' \subseteq attached \cup {d}
        /\ \A e \in attached : e # d => e \in attached'
    BY DEF MovePad
  <1>2. OwnInput(d) \in Inputs /\ OwnInput(d).side = d /\ OwnInput(d).state = Own
    BY DEF OwnInput, Inputs
  <1>3. ControllerTypeOK'
    BY <1>1, <1>2 DEF ControllerInv, ControllerTypeOK
  <1>4. \A e \in Devices : input'[e].side = e
    BY <1>1, <1>2 DEF ControllerInv, ControllerTypeOK
  <1>5. FramesListed'
    <2>1. \A e \in Devices : input'[e].state # Own => e # d /\ input'[e] = input[e]
      BY <1>1, <1>2 DEF ControllerInv, ControllerTypeOK
    <2>2. QED BY <1>1, <2>1 DEF ControllerInv, FramesListed
  <1>6. QED BY <1>1, <1>3, <1>4, <1>5 DEF ControllerInv

-----------------------------------------------------------------------------
(* Player and pads together                                                *)

(* A step of the composition is one of the player or leaves it alone.      *)
LEMMA StepsThePlayer == [InjectionNext]_allVars => [Next]_vars
  BY DEF InjectionNext, allVars, Inject, PlayerStep, Begin, Poll, Serve, PadMoves, Next,
         ListenStep, ReadStep, WriteStep

(* A playback on pads that come and go is a playback: what is proved of    *)
(* the player alone holds of the composition (player.c:69 is its call of   *)
(* writeState).                                                            *)
THEOREM PlayerIsPart == InjectionSpec => Spec
  <1>1. InjectionInit => Init
    BY DEF InjectionInit
  <1>2. QED BY <1>1, StepsThePlayer, PTL DEF InjectionSpec, Spec

(* What a step does to the pads.                                           *)
LEMMA PadSteps ==
  ASSUME [InjectionNext]_allVars
  PROVE  \/ UNCHANGED controllerVars
         \/ Inject
         \/ Poll /\ \/ CallReadState("listen") \/ ReadState("listen") \/ ReadFails("listen")
         \/ Serve /\ (ServeDump \/ ServeApply)
         \/ \E d \in Devices : PadMoves(d) /\ MovePad(d)
  BY DEF InjectionNext, allVars, Inject, PlayerStep, Begin, Poll, Serve, PadMoves

LEMMA InjectedState ==
  ASSUME PlayerInv, ~crashed, PlayFrame
  PROVE  /\ got["writer"].state \in States
         /\ injected' # <<>> /\ Last(injected') = got["writer"].state
  <1>1. got["writer"] \in MacroPairs /\ injected \in Seq(MacroStates)
    BY DEF PlayerInv, WriterInStep, PlayFrame
  <1>2. got["writer"].state \in MacroStates
    BY <1>1, MacroFacts
  <1>3. injected' = Append(injected, got["writer"].state)
    BY DEF PlayFrame
  <1>4. injected' # <<>> /\ Last(injected') = got["writer"].state
    BY <1>1, <1>2, <1>3 DEF Last
  <1>5. QED BY <1>2, <1>4, InjectionAssumption DEF InjectionAssumption, MacroStates

LEMMA ControllerInvStep ==
  ASSUME PlayerInv, ControllerInv, [InjectionNext]_allVars
  PROVE  ControllerInv'
  <1>1. CASE UNCHANGED controllerVars
    BY <1>1 DEF controllerVars, ControllerInv, ControllerTypeOK, FramesListed
  <1>2. CASE Inject
    <2>1. CASE ~crashed
      <3>1. PlayFrame /\ WriteState(got["writer"].state)
        BY <1>2 DEF Inject
      <3>2. QED BY <2>1, <3>1, InjectedState, WriteStateKeepsInv
    <2>2. CASE crashed
      BY <1>2, <2>2 DEF Inject, PlayFrame, PlayerInv
    <2>3. QED BY <2>1, <2>2
  <1>3. CASE CallReadState("listen") \/ ReadState("listen") \/ ReadFails("listen")
    BY <1>3, ReadStateKeepsInv, InjectionAssumption DEF InjectionAssumption
  <1>4. CASE ServeDump \/ ServeApply
    BY <1>4, ServeDumpKeepsInv, ServeApplyKeepsInv
  <1>5. CASE \E d \in Devices : MovePad(d)
    BY <1>5, MovePadKeepsInv
  <1>6. QED BY <1>1, <1>2, <1>3, <1>4, <1>5, PadSteps

LEMMA CountsStep ==
  ASSUME moves \in 0..MaxMoves, raced \in BOOLEAN, [InjectionNext]_allVars
  PROVE  moves' \in 0..MaxMoves /\ raced' \in BOOLEAN
  <1>1. moves' = moves \/ (moves < MaxMoves /\ moves' = moves + 1)
    BY DEF InjectionNext, allVars, Inject, PlayerStep, Begin, Poll, Serve, PadMoves
  <1>2. raced' \in BOOLEAN
    BY Zenon DEF InjectionNext, allVars, Inject, PlayerStep, Begin, Poll, Serve, PadMoves
  <1>3. QED BY <1>1, <1>2, InjectionAssumption DEF InjectionAssumption

(* Steps that leave the pads alone, and the frames.                        *)
LEMMA PlayerKeepsInjected ==
  ASSUME [InjectionNext]_allVars, ~Inject
  PROVE  (injected' = injected /\ raced' = raced) \/ injected' = <<>>
  BY DEF InjectionNext, allVars, vars, writer, Inject, PlayerStep, Begin, Poll, Serve, PadMoves,
         ReadStep, ReadInit, ReadPair, ReadEnd, EnqueuePair, PublishPair, ClearPlaying,
         ReadExit, WriteInit, TakePair, NextLoop, JoinReader, ListenStep, CreateThreads,
         CreateFails, StartReadThread, StartWriteThread, StartFails, StartPlay

(* A neutral frame written alone: it fills the list.                       *)
LEMMA InjectKeepsNeutral ==
  ASSUME PlayerInv, ControllerInv, Inject
  PROVE  NeutralArrives'
  <1> SUFFICES ASSUME ~raced', Last(injected') = Neutral
               PROVE  /\ Applying' /\ Head(requests') = "apply"
                      /\ \A i \in 1..2 : workmem'[i].input.state \in {Own, Neutral}
                      /\ \A i \in 1..2 : workmem'[i].device # NoDevice =>
                                           workmem'[i].input.state = Neutral
    BY DEF NeutralArrives
  <1>1. ~crashed
    BY DEF Inject, PlayFrame, PlayerInv
  <1>2. got["writer"].state = Neutral /\ Neutral \in States /\ WriteState(Neutral)
    BY <1>1, InjectedState DEF Inject
  <1>3. requests = <<>> /\ requests' = Append(requests, "apply") /\ workmem' = stateList'
    BY <1>2 DEF Inject, WriteState
  <1>4. Applying' /\ Head(requests') = "apply"
    BY <1>3 DEF Applying, Contains
  <1>5. QED BY <1>2, <1>3, <1>4, Written

LEMMA NeutralArrivesStep ==
  ASSUME PlayerInv, ControllerInv, NeutralArrives, [InjectionNext]_allVars
  PROVE  NeutralArrives'
  <1>1. CASE Inject
    BY <1>1, InjectKeepsNeutral
  <1>2. CASE ~Inject
    <2>1. SUFFICES ASSUME injected' = injected, raced' = raced, ~raced, injected # <<>>,
                          Last(injected) = Neutral
                   PROVE  NeutralArrives'
      BY <1>2, PlayerKeepsInjected DEF NeutralArrives
    <2>2. requests \in Seq(Readers \cup {"apply"}) /\ "listen" # "apply"
      BY PadFacts, InjectionAssumption DEF ControllerInv, ControllerTypeOK, InjectionAssumption
    <2> DEFINE A == IF Applying
          THEN /\ Head(requests) = "apply"
               /\ \A i \in 1..2 : workmem[i].input.state \in {Own, Neutral}
               /\ \A i \in 1..2 : workmem[i].device # NoDevice => workmem[i].input.state = Neutral
          ELSE \A d \in Devices : input[d].state \in {Own, Neutral}
    <2>3. A
      BY <2>1 DEF NeutralArrives
    <2>4. A' => NeutralArrives'
      BY DEF NeutralArrives
    <2>5. CASE UNCHANGED controllerVars
      <3>1. A'
        BY <2>3, <2>5 DEF controllerVars, Applying
      <3>2. QED BY <2>4, <3>1
    <2>6. CASE CallReadState("listen")
      <3>1. requests' = Append(requests, "listen") /\ UNCHANGED <<workmem, input>>
        BY <2>6 DEF CallReadState
      <3>2. Applying' = Applying
        BY <2>2, <3>1 DEF Applying, Contains
      <3>3. Applying => requests # <<>>
        BY <2>2 DEF Applying, Contains
      <3>4. Applying => Head(requests') = Head(requests)
        BY <2>2, <3>1, <3>3
      <3>5. A'
        BY <2>3, <3>1, <3>2, <3>4
      <3>6. QED BY <2>4, <3>5
    <2>7. CASE ReadState("listen") \/ ReadFails("listen")
      <3>1. UNCHANGED <<requests, workmem, input>>
        BY <2>7 DEF ReadState, ReadFails
      <3>2. A'
        BY <2>3, <3>1 DEF Applying
      <3>3. QED BY <2>4, <3>2
    <2>8. CASE ServeDump
      <3>1. requests # <<>> /\ Head(requests) # "apply" /\ requests' = Tail(requests)
            /\ input' = input
        BY <2>8 DEF ServeDump
      <3>2. ~Applying /\ ~Applying'
        <4>1. ~Applying
          BY <2>3, <3>1
        <4>2. QED BY <2>2, <3>1, <4>1 DEF Applying, Contains
      <3>3. A'
        BY <2>3, <3>1, <3>2
      <3>4. QED BY <2>4, <3>3
    <2>9. CASE ServeApply
      <3>1. requests # <<>> /\ Head(requests) = "apply" /\ requests' = Tail(requests)
            /\ reading' = reading
        BY <2>9 DEF ServeApply
      <3>2. Applying
        BY <2>2, <3>1 DEF Applying, Contains
      <3>3. ~Applying'
        <4>1. \A i \in DOMAIN requests' : requests'[i] # "apply"
          BY <3>1, TailOfRequests DEF ControllerInv
        <4>2. requests' \in Seq(Readers \cup {"apply"})
          BY <2>2, <3>1
        <4>3. QED BY <4>1, <4>2 DEF Applying, Contains
      <3>4. ASSUME NEW d \in Devices PROVE input'[d].state \in {Own, Neutral}
        <4>1. CASE input'[d] = input[d] /\ (d \notin attached \/ d \notin DevicesOf(workmem))
          BY <4>1 DEF ControllerInv, FramesListed
        <4>2. CASE \E i \in 1..2 : workmem[i].device = d /\ input'[d] = workmem[i].input
          BY <2>3, <3>2, <4>2
        <4>3. QED BY <2>9, <4>1, <4>2, Applied
      <3>5. A'
        BY <3>3, <3>4
      <3>6. QED BY <2>4, <3>5
    <2>10. CASE \E d \in Devices : MovePad(d)
      <3>1. PICK d \in Devices : MovePad(d)
        BY <2>10
      <3>2. UNCHANGED <<requests, workmem>> /\ input' = [input EXCEPT ![d] = OwnInput(d)]
        BY <3>1 DEF MovePad
      <3>3. Applying' = Applying
        BY <3>2 DEF Applying
      <3>4. \A e \in Devices : input'[e] = input[e] \/ input'[e].state = Own
        BY <3>2 DEF OwnInput, ControllerInv, ControllerTypeOK
      <3>5. A'
        BY <2>3, <3>2, <3>3, <3>4
      <3>6. QED BY <2>4, <3>5
    <2> HIDE DEF A
    <2>11. QED BY <1>2, <2>5, <2>6, <2>7, <2>8, <2>9, <2>10, PadSteps
  <1>3. QED BY <1>1, <1>2

(* The inductive invariant of player, pads and listen thread holds         *)
(* (controller.c:52-75, player.c:44-92, common.c:10-28).                   *)
THEOREM InvHolds == InjectionSpec => []Inv
  <1>1. InjectionInit => Inv
    <2> SUFFICES ASSUME InjectionInit PROVE Inv
      OBVIOUS
    <2>1. PlayerInv /\ ControllerInv
      BY PlayerInvInit, ControllerInvInit DEF InjectionInit
    <2>2. moves \in 0..MaxMoves
      BY InjectionAssumption DEF InjectionAssumption, InjectionInit
    <2>3. raced \in BOOLEAN /\ injected = <<>>
      BY DEF InjectionInit, Init
    <2>4. QED BY <2>1, <2>2, <2>3 DEF Inv, NeutralArrives
  <1>2. Inv /\ [InjectionNext]_allVars => Inv'
    <2> SUFFICES ASSUME Inv, [InjectionNext]_allVars PROVE Inv'
      OBVIOUS
    <2>1. PlayerInv'
      BY StepsThePlayer, PlayerInvStep DEF Inv
    <2>2. ControllerInv' /\ NeutralArrives'
      BY ControllerInvStep, NeutralArrivesStep DEF Inv
    <2>3. moves' \in 0..MaxMoves /\ raced' \in BOOLEAN
      BY CountsStep DEF Inv
    <2>4. QED BY <2>1, <2>2, <2>3 DEF Inv
  <1>3. QED BY <1>1, <1>2, PTL DEF InjectionSpec

(* Player and pads keep their types.  Nobody returns from readState before *)
(* its dump was served, and no two requests of one thread wait in hiddbg   *)
(* (controller.c:47-103).                                                  *)
THEOREM TypeCorrect == InjectionSpec => []InjectionTypeOK
  <1>1. Inv => InjectionTypeOK
    BY DEF Inv, PlayerInv, ControllerInv, InjectionTypeOK
  <1>2. QED BY <1>1, InvHolds, PTL

(* Each pad gets input of its own side, and is read as it, whoever has     *)
(* replaced the shared list in between (controller.c:47-103).              *)
THEOREM SidesAreKept == InjectionSpec => []SidesKept
  <1>1. Inv => SidesKept
    <2> SUFFICES ASSUME ControllerInv PROVE SidesKept
      BY DEF Inv
    <2>1. ListInOrder(stateList) /\ Left # NoDevice /\ Right # NoDevice
      BY PadFacts DEF ControllerInv
    <2>2. LeftIndex(stateList) \in 1..2
      BY DEF LeftIndex
    <2>3. Left \in {SeenLeft.device, SeenRight.device} => SeenLeft.device = Left
      BY <2>1 DEF SeenLeft, SeenRight, LeftIndex, ListInOrder
    <2>4. Right \in {SeenLeft.device, SeenRight.device} => SeenRight.device = Right
      <3>1. stateList[1].device \in {Left, Right, NoDevice}
        BY PadFacts DEF ControllerInv, ControllerTypeOK, Entries, NoEntry
      <3>2. stateList[1].device = Right \/ stateList[2].device = Right =>
              stateList[1].device = Right
              \/ (stateList[1].device = Left /\ stateList[2].device = Right)
        BY <2>1, <3>1, PadFacts DEF ListInOrder
      <3>3. QED BY <3>2, PadFacts DEF SeenLeft, SeenRight, LeftIndex
    <2>5. QED BY <2>3, <2>4 DEF SidesKept, ControllerInv
  <1>2. QED BY <1>1, InvHolds, PTL

(* The last frame of a macro is the last pair's state.                     *)
LEMMA LastOfMacro ==
  ASSUME NEW m \in Macros, m # <<>>
  PROVE  Expand(m) # <<>> /\ Last(Expand(m)) = Last(m).state
  <1> DEFINE k == Len(m)
             f == SubSeq(m, 1, k - 1)
             p == m[k]
             r == Repeat(p.state, p.count)
  <1>1. m \in Seq(MacroPairs)
    BY MacroFacts
  <1>2. k \in Nat /\ k # 0 /\ p \in MacroPairs /\ f \in Seq(MacroPairs) /\ m = Append(f, p)
    BY <1>1
  <1>3. Last(m) = p
    BY DEF Last
  <1> HIDE DEF f, p, k
  <1>4. p \in PairsOf(MacroStates) /\ f \in Seq(PairsOf(MacroStates))
    BY <1>2, MacroFacts
  <1>5. Expand(f) \in Seq(MacroStates)
    BY <1>4, ExpandType
  <1>6. Expand(m) = Expand(f) \o r
    BY <1>2, <1>4, <1>5, ExpandAppend
  <1>7. p.state \in MacroStates /\ p.count \in Nat /\ p.count # 0
    BY <1>2, MacroFacts
  <1>8. r \in Seq(MacroStates) /\ Len(r) = p.count
    BY <1>7, RepeatType
  <1>9. r[p.count] = p.state
    BY <1>7 DEF Repeat
  <1> HIDE DEF r
  <1>10. /\ Len(Expand(f) \o r) = Len(Expand(f)) + p.count
         /\ (Expand(f) \o r)[Len(Expand(f)) + p.count] = p.state
    BY <1>5, <1>7, <1>8, <1>9
  <1>11. Len(Expand(f)) + p.count # 0
    BY <1>5, <1>7
  <1>12. QED BY <1>3, <1>6, <1>10, <1>11 DEF Last

(* No pad holds a frame of a macro that has ended with a neutral pair,     *)
(* however the pads came and went, unless a frame was written while a dump *)
(* was on its way to the same buffer (player.c:54-92, controller.c:47-103). *)
THEOREM NoFrameStays == InjectionSpec => []NoFrameSticks
  <1>1. Inv /\ PlayedFaithful => NoFrameSticks
    <2> SUFFICES ASSUME Inv, PlayedFaithful, wpc = "exited", ~Applying, ~raced, ~failed,
                        macro # <<>>, Last(macro).state = Neutral
                 PROVE  \A d \in Devices : input[d].state \in {Own, Neutral}
      BY DEF NoFrameSticks
    <2>1. ~crashed /\ macro \in Macros
      BY DEF Inv, PlayerInv, TypeOK
    <2>2. injected = Expand(macro)
      BY <2>1 DEF PlayedFaithful, Follows
    <2>3. injected # <<>> /\ Last(injected) = Neutral
      BY <2>1, <2>2, LastOfMacro
    <2>4. QED BY <2>3 DEF Inv, NeutralArrives
  <1>2. QED BY <1>1, InvHolds, PlayedIsFaithful, PlayerIsPart, PTL
=============================================================================
