------------------------------ MODULE Controller ------------------------------
(***************************************************************************)
(* The pads' input: readState and writeState of                            *)
(* sysmodule/source/controller.c, for one left and one right pad.  Both    *)
(* use the one stateList and, inside hiddbg, the one work buffer that was  *)
(* attached, and nothing locks them.  A thread blocks in hiddbg until its  *)
(* request was served; the rest of the two functions is not interrupted    *)
(* (PadMacro has the scheduling).                                          *)
(***************************************************************************)
EXTENDS SequencesExt

CONSTANTS Readers,      \* the threads that call readState
          Left, Right,  \* the pads; no device
          NoDevice,
          States,       \* what a frame says of a pad
          Own           \* the pad's own input, whatever it is

Devices == {Left, Right}

ASSUME ControllerAssumption ==
  /\ Left # Right /\ NoDevice \notin Devices
  /\ Own \notin States /\ "apply" \notin Readers

VARIABLES
  stateList,  \* the entries of the file's static
  workmem,    \* the entries in the work buffer
  requests,   \* not served yet: a reader's dump, or "apply"
  reading,    \* the threads in readState
  attached,   \* the pads that are connected
  input       \* what each pad gives, and for which side it was meant

controllerVars == <<stateList, workmem, requests, reading, attached, input>>

Inputs == [side: Devices, state: States \cup {Own}]
OwnInput(d) == [side |-> d, state |-> Own]

(* What stands past the last device is left out.                           *)
NoEntry == [device |-> NoDevice, input |-> OwnInput(Left)]
Entries == [device: Devices, input: Inputs] \cup {NoEntry}

ControllerInit ==
  /\ stateList = <<NoEntry, NoEntry>> /\ workmem = <<NoEntry, NoEntry>>
  /\ requests = <<>> /\ reading = {}
  /\ attached \in SUBSET Devices
  /\ input = [d \in Devices |-> OwnInput(d)]

AlwaysFirst(list) == 1

(* Where the left pad is: at entries[0] if that is a JoyLeft2.             *)
LeftIndex(list) == IF list[1].device = Left THEN 1 ELSE 2

-----------------------------------------------------------------------------
(* readState as far as hiddbgDumpHdlsStates.                               *)
CallReadState(t) ==
  /\ t \notin reading
  /\ reading' = reading \cup {t}
  /\ requests' = Append(requests, t)
  /\ UNCHANGED <<stateList, workmem, attached, input>>

Answered(t) == ~Contains(requests, t)

(* It succeeds: the list is what the work buffer holds by now.             *)
ReadState(t) ==
  /\ t \in reading /\ Answered(t)
  /\ reading' = reading \ {t}
  /\ stateList' = workmem
  /\ UNCHANGED <<workmem, requests, attached, input>>

(* What readState hands out.                                               *)
SeenLeft == stateList[LeftIndex(stateList)]
SeenRight == stateList[3 - LeftIndex(stateList)]

ReadFails(t) ==
  /\ t \in reading /\ Answered(t)
  /\ reading' = reading \ {t}
  /\ UNCHANGED <<stateList, workmem, requests, attached, input>>

(* writeState as far as hiddbgApplyHdlsStateList.                          *)
WriteState(state) ==
  /\ ~Contains(requests, "apply")
  /\ LET side == IF LeftIndex(stateList) = 1 THEN <<Left, Right>> ELSE <<Right, Left>>
     IN  stateList' = [i \in 1..2 |->
           IF stateList[i] = NoEntry THEN NoEntry
           ELSE [stateList[i] EXCEPT !.input = [side |-> side[i], state |-> state]]]
  /\ workmem' = stateList'
  /\ requests' = Append(requests, "apply")
  /\ UNCHANGED <<reading, attached, input>>

-----------------------------------------------------------------------------
(* hiddbg, which serves one request after the other.                       *)

(* The lists of the pads that are there, in either order.                  *)
Lists ==
  {[i \in 1..2 |-> IF i <= Len(order)
                     THEN [device |-> order[i], input |-> input[order[i]]]
                     ELSE NoEntry] : order \in SetToSeqs(attached)}

ServeDump ==
  /\ requests # <<>> /\ Head(requests) # "apply"
  /\ requests' = Tail(requests)
  /\ workmem' \in Lists
  /\ UNCHANGED <<stateList, reading, attached, input>>

(* The pads of the list get its input, as far as they are still there.     *)
ServeApply ==
  /\ requests # <<>> /\ Head(requests) = "apply"
  /\ requests' = Tail(requests)
  /\ input' = [d \in Devices |->
       IF d \in attached /\ \E i \in 1..2 : workmem[i].device = d
         THEN workmem[CHOOSE i \in 1..2 : workmem[i].device = d].input
         ELSE input[d]]
  /\ UNCHANGED <<stateList, workmem, reading, attached>>

(* A pad goes, or comes and gives its own input.                           *)
MovePad(d) ==
  /\ attached' = IF d \in attached THEN attached \ {d} ELSE attached \cup {d}
  /\ input' = [input EXCEPT ![d] = OwnInput(d)]
  /\ UNCHANGED <<stateList, workmem, requests, reading>>

-----------------------------------------------------------------------------
(* Type invariant.  What matters in it: nobody returns from readState      *)
(* before its request was served, so that no dump comes later than its     *)
(* reader thinks.                                                          *)
ControllerTypeOK ==
  /\ stateList \in [1..2 -> Entries] /\ workmem \in [1..2 -> Entries]
  /\ requests \in Seq(Readers \cup {"apply"}) /\ reading \subseteq Readers
  /\ attached \subseteq Devices /\ input \in [Devices -> Inputs]
  /\ IsInjective(requests)
  /\ \A i \in DOMAIN requests : requests[i] \in reading \cup {"apply"}

(* The left pad's input is read as the left one and the right one's as the *)
(* right one, and a played frame goes back to the same sides, whoever has  *)
(* read or written the shared list in between and in whatever order the    *)
(* pads are listed after they were connected again.                        *)
SidesKept ==
  /\ \A d \in Devices : input[d].side = d
  /\ Left \in {SeenLeft.device, SeenRight.device} => SeenLeft.device = Left
  /\ Right \in {SeenLeft.device, SeenRight.device} => SeenRight.device = Right
==============================================================================
