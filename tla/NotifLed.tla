------------------------------- MODULE NotifLed -------------------------------
(***************************************************************************)
(* The notification LED: sysmodule/source/util/notifled.c.  Several        *)
(* threads call setLedPattern; led_pattern and padId are shared, without a *)
(* lock.  A request to hidsys blocks and lets other threads run, and       *)
(* nothing else in the file does (PadMacro has the scheduling): a step is  *)
(* what a thread does from the answer of one request to the next request,  *)
(* with what that request does to the pad.  Pads come and go; a request to *)
(* a pad that is not there, or has no such LED, fails.                     *)
(***************************************************************************)
EXTENDS Naturals, FiniteSets

CONSTANTS Threads,  \* who calls setLedPattern
          Pads, NoPad,
          HasLed,   \* the pads with a notification LED
          MAX_PADS, \* how many npads are searched
          Patterns  \* LedPatternType

ASSUME NotifLedAssumption ==
  /\ NoPad \notin Pads /\ HasLed \subseteq Pads
  /\ MAX_PADS \in Nat \ {0} /\ "off" \in Patterns

VARIABLES
  led_pattern, padId,  \* the file's statics
  call,                \* what each thread is doing in setLedPattern
  npad,                \* where each pad is connected; 0: nowhere
  lit,                 \* what its LED shows
  moved,               \* history: the threads during whose call a pad moved
  overlapped           \* history: two calls were under way at once

ledVars == <<led_pattern, padId, call, npad, lit, moved, overlapped>>

(* pc is "none" outside setLedPattern; "ask", "try" and "tried" in         *)
(* initPad; "sent" and "resent" after the requests with the pattern, the   *)
(* second of which is the retry; "returned" once it is over.               *)
Calls == [pc: {"none", "ask", "try", "tried", "sent", "resent", "returned"},
          type: Patterns, i: 1..MAX_PADS, todo: SUBSET Pads,
          pad: Pads \cup {NoPad}, ok: BOOLEAN, retry: BOOLEAN]

Called(type) == [pc |-> "ask", type |-> type, i |-> 1, todo |-> {},
                 pad |-> NoPad, ok |-> FALSE, retry |-> FALSE]

LedInit ==
  /\ led_pattern = "off" /\ padId = NoPad
  /\ call = [t \in Threads |-> [Called("off") EXCEPT !.pc = "none"]]
  /\ npad \in [Pads -> 0..MAX_PADS]
  /\ lit = [p \in Pads |-> "off"]
  /\ moved = {} /\ overlapped = FALSE

Attached == {p \in Pads : npad[p] # 0}
InCall(t) == call[t].pc # "none"
Callers == {t \in Threads : InCall(t)}

(* hidsysSetNotificationLedPattern succeeds.                               *)
Accepts(p) == p \in Attached \cap HasLed

(* t sends pattern to p, its call being c, and will find the answer at pc. *)
SendPattern(t, c, p, pattern, pc) ==
  /\ lit' = IF Accepts(p) THEN [lit EXCEPT ![p] = pattern] ELSE lit
  /\ call' = [call EXCEPT ![t] = [c EXCEPT !.pc = pc, !.pad = p, !.ok = Accepts(p)]]

(* t goes on, or returns, without a request to a pad.                      *)
GoOn(t, c) == lit' = lit /\ call' = [call EXCEPT ![t] = c]
Return(t) == GoOn(t, [call[t] EXCEPT !.pc = "returned"])

-----------------------------------------------------------------------------
AlwaysSearches == TRUE

(* padId.id == 0                                                           *)
NeedsSearch == padId = NoPad

(* setLedPattern up to its first request.                                  *)
SetLedPattern(t, type) ==
  /\ ~InCall(t)
  /\ IF NeedsSearch
       THEN led_pattern' = "off" /\ GoOn(t, Called(type))
       ELSE led_pattern' = type /\ SendPattern(t, Called(type), padId, type, "sent")
  /\ moved' = moved \ {t}
  /\ overlapped' = (overlapped \/ Callers # {})
  /\ UNCHANGED <<padId, npad>>

(* initPad: hidsysGetUniquePadsFromNpad                                    *)
GetUniquePads(t) ==
  /\ call[t].pc = "ask"
  /\ GoOn(t, [call[t] EXCEPT !.pc = "try", !.todo = {p \in Pads : npad[p] = call[t].i}])
  /\ UNCHANGED <<led_pattern, padId, npad, moved, overlapped>>

(* The next of them, in whatever order they were given.  The pattern was   *)
(* set to OFF when initPad began, perhaps by another thread since.         *)
TryPad(t) ==
  /\ call[t].pc = "try"
  /\ \E p \in call[t].todo :
       SendPattern(t, [call[t] EXCEPT !.todo = @ \ {p}], p, led_pattern, "tried")
  /\ UNCHANGED <<led_pattern, padId, npad, moved, overlapped>>

NextNpad(t) ==
  /\ call[t].pc = "try" /\ call[t].todo = {} /\ call[t].i < MAX_PADS
  /\ GoOn(t, [call[t] EXCEPT !.pc = "ask", !.i = @ + 1])
  /\ UNCHANGED <<led_pattern, padId, npad, moved, overlapped>>

TriedFails(t) ==
  /\ call[t].pc = "tried" /\ ~call[t].ok
  /\ GoOn(t, [call[t] EXCEPT !.pc = "try"])
  /\ UNCHANGED <<led_pattern, padId, npad, moved, overlapped>>

PatternOfSearch(t) == led_pattern

PatternAfter(t) == IF call[t].retry THEN led_pattern ELSE call[t].type

(* initPad returns, into the search before the first request or into the   *)
(* retry, which does not set the pattern again.                            *)
AfterInitPad(t) ==
  /\ led_pattern' = PatternAfter(t)
  /\ IF padId' = NoPad THEN Return(t)
     ELSE SendPattern(t, call[t], padId', led_pattern',
                      IF call[t].retry THEN "resent" ELSE "sent")

(* R_SUCCEEDED(rc)                                                         *)
Succeeded(c) == c.ok

Found(t) ==
  /\ call[t].pc = "tried" /\ Succeeded(call[t])
  /\ padId' = call[t].pad /\ AfterInitPad(t)
  /\ UNCHANGED <<npad, moved, overlapped>>

NotFound(t) ==
  /\ call[t].pc = "try" /\ call[t].todo = {} /\ call[t].i = MAX_PADS
  /\ padId' = padId /\ AfterInitPad(t)
  /\ UNCHANGED <<npad, moved, overlapped>>

(* The answer to the first request; on a failure, the retry's initPad.     *)
Answered(t) ==
  /\ call[t].pc = "sent"
  /\ IF call[t].ok
       THEN led_pattern' = led_pattern /\ Return(t)
       ELSE /\ led_pattern' = "off"
            /\ GoOn(t, [Called(call[t].type) EXCEPT !.retry = TRUE])
  /\ UNCHANGED <<padId, npad, moved, overlapped>>

RetryAnswered(t) ==
  /\ call[t].pc = "resent"
  /\ padId' = IF call[t].ok THEN padId ELSE NoPad
  /\ Return(t)
  /\ UNCHANGED <<led_pattern, npad, moved, overlapped>>

LedStep(t) ==
  \/ GetUniquePads(t) \/ TryPad(t) \/ NextNpad(t) \/ TriedFails(t)
  \/ Found(t) \/ NotFound(t) \/ Answered(t) \/ RetryAnswered(t)

(* A pad is connected, or goes; its LED is off when it comes.              *)
MovePad(p, n) ==
  /\ n # npad[p]
  /\ npad' = [npad EXCEPT ![p] = n]
  /\ lit' = [lit EXCEPT ![p] = "off"]
  /\ moved' = moved \cup Callers
  /\ UNCHANGED <<led_pattern, padId, call, overlapped>>

(* Back in its caller.                                                     *)
Resume(t) ==
  /\ call[t].pc = "returned"
  /\ call' = [call EXCEPT ![t] = [Called("off") EXCEPT !.pc = "none"]]
  /\ UNCHANGED <<led_pattern, padId, npad, lit, moved, overlapped>>

-----------------------------------------------------------------------------
(* Type invariant.  What matters in it: the pad that is remembered has an  *)
(* LED.                                                                    *)
LedTypeOK ==
  /\ led_pattern \in Patterns /\ padId \in HasLed \cup {NoPad}
  /\ call \in [Threads -> Calls] /\ npad \in [Pads -> 0..MAX_PADS]
  /\ lit \in [Pads -> Patterns]
  /\ moved \subseteq Threads /\ overlapped \in BOOLEAN
==============================================================================
