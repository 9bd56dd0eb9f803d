----------------------------- MODULE IpcServer -----------------------------
(***************************************************************************)
(* The service "padmacro": sysmodule/source/ipc/ipc.c, the main thread of  *)
(* the sysmodule, and the kernel objects it works on.  A client (the       *)
(* overlay) connects, sends requests and waits for each reply, and sends a *)
(* close request before it closes its end of the session; one that is      *)
(* killed vanishes without it.                                             *)
(*                                                                         *)
(* fatalThrow ends the process: spc = "fatal".  Requests are well formed,  *)
(* as libnx's serviceDispatch makes them.                                  *)
(***************************************************************************)
EXTENDS Naturals, Sequences, FiniteSets, SequencesExt

CONSTANTS Clients, NoClient

ASSUME IpcAssumption == IsFiniteSet(Clients) /\ NoClient \notin Clients

VARIABLES
  exiting,            \* as in the code: TRUE until an exit is requested
  isClientConnected, clientHandle,
  spc,                \* where the server is in WaitAndProcessRequest
  request,            \* the request it handles
  shouldClose,
  pending,            \* kernel: sessions opened by clients, not accepted yet
  serverEnds,         \* kernel: sessions whose server end is open
  cpc,                \* what each client does
  inbox,              \* inbox[c]: the request c waits for an answer to
  vanished            \* history: clients that vanished

server == <<exiting, isClientConnected, clientHandle, spc, request, shouldClose>>
kernel == <<pending, serverEnds>>
clients == <<cpc, inbox, vanished>>
vars == <<server, kernel, clients>>

(* Command ids, and message types that are not a command.                  *)
Commands == {"CMD_UPDATE_CONF", "CMD_EXIT", "unknown command"}
Requests == Commands \cup {"close", "other type"}
NoRequest == "none"

TwoSessions == 2

(* The last argument of smRegisterService.                                 *)
MaxSessions == 1

Init ==
  /\ exiting = TRUE
  /\ isClientConnected = FALSE /\ clientHandle = NoClient
  /\ spc = "wait" /\ request = NoRequest /\ shouldClose = FALSE
  /\ pending = <<>> /\ serverEnds = {}
  /\ cpc = [c \in Clients |-> "away"]
  /\ inbox = [c \in Clients |-> NoRequest]
  /\ vanished = {}

Sessions == ToSet(pending) \cup serverEnds

Running == spc \notin {"stopped", "fatal"}

-----------------------------------------------------------------------------
(* Clients and kernel.                                                     *)

(* smGetService: the kernel counts a session until its server end is gone. *)
Connect(c) ==
  /\ cpc[c] = "away" /\ c \notin Sessions /\ Running
  /\ Cardinality(Sessions) < MaxSessions
  /\ pending' = Append(pending, c)
  /\ cpc' = [cpc EXCEPT ![c] = "connected"]
  /\ UNCHANGED <<server, serverEnds, inbox, vanished>>

(* serviceDispatch, or the close request of serviceClose.                  *)
Send(c, r) ==
  /\ cpc[c] = "connected"
  /\ cpc' = [cpc EXCEPT ![c] = "waiting"]
  /\ inbox' = [inbox EXCEPT ![c] = r]
  /\ UNCHANGED <<server, kernel, vanished>>

(* A request on a session whose server end is closed fails.                *)
SendFails(c) ==
  /\ cpc[c] = "waiting" /\ c \notin Sessions
  /\ cpc' = [cpc EXCEPT ![c] = "away"]
  /\ inbox' = [inbox EXCEPT ![c] = NoRequest]
  /\ UNCHANGED <<server, kernel, vanished>>

Vanish(c) ==
  /\ cpc[c] \in {"connected", "waiting"}
  /\ cpc' = [cpc EXCEPT ![c] = "away"]
  /\ inbox' = [inbox EXCEPT ![c] = NoRequest]
  /\ vanished' = vanished \cup {c}
  /\ UNCHANGED <<server, kernel>>

-----------------------------------------------------------------------------
(* The server: WaitAndProcessRequest, called while exiting is TRUE.        *)

(* index == 0.  The new session is closed again when there already is one; *)
(* clientHandle is overwritten in either case.                             *)
Accept ==
  /\ spc = "wait" /\ exiting /\ pending # <<>>
  /\ serverEnds' =
       IF isClientConnected THEN serverEnds ELSE serverEnds \cup {Head(pending)}
  /\ pending' = Tail(pending)
  /\ isClientConnected' = TRUE /\ clientHandle' = Head(pending)
  /\ UNCHANGED <<exiting, spc, request, shouldClose, clients>>

(* index == 1: a request is waiting, or the other end has been closed, and *)
(* svcReplyAndReceive fails (as it does for a handle that is not open).    *)
Receive ==
  /\ spc = "wait" /\ exiting /\ isClientConnected
  /\ \/ clientHandle \in serverEnds /\ cpc[clientHandle] = "waiting"
        /\ spc' = "handle" /\ request' = inbox[clientHandle]
     \/ (clientHandle \notin serverEnds \/ cpc[clientHandle] = "away")
        /\ spc' = "fatal" /\ UNCHANGED request
  /\ UNCHANGED <<exiting, isClientConnected, clientHandle, shouldClose, kernel, clients>>

ExitKeepsSession(r) == r \in {"unknown command", "close"}
CloseIgnored(r) == r \in {"CMD_EXIT", "unknown command"}

(* What HandleCommand and the switch around it return.                     *)
ClosesSession(r) == r \in {"CMD_EXIT", "unknown command", "close"}

(* HandleCommand and the other message types; the answer is in the TLS.    *)
Handle ==
  /\ spc = "handle"
  /\ spc' = "reply"
  /\ exiting' = (exiting /\ request # "CMD_EXIT")
  /\ shouldClose' = ClosesSession(request)
  /\ UNCHANGED <<isClientConnected, clientHandle, request, kernel, clients>>

ReplyLost == UNCHANGED <<cpc, inbox>>

(* The client gets its answer.  After a close request it is gone.          *)
Answer ==
  /\ cpc' = [cpc EXCEPT ![clientHandle] = IF request = "close" THEN "away" ELSE "connected"]
  /\ inbox' = [inbox EXCEPT ![clientHandle] = NoRequest]

(* The second svcReplyAndReceive.  When the client has vanished in the     *)
(* meantime the kernel may report that (fatal) or not.                     *)
Reply ==
  /\ spc = "reply"
  /\ \/ /\ cpc[clientHandle] = "waiting"
        /\ Answer
        /\ spc' = IF shouldClose THEN "close" ELSE "wait"
     \/ /\ cpc[clientHandle] # "waiting"
        /\ spc' \in {"fatal", IF shouldClose THEN "close" ELSE "wait"}
        /\ UNCHANGED <<cpc, inbox>>
  /\ UNCHANGED <<exiting, isClientConnected, clientHandle, request, shouldClose,
                 kernel, vanished>>

CloseSession ==
  /\ spc = "close"
  /\ serverEnds' = serverEnds \ {clientHandle}
  /\ isClientConnected' = FALSE
  /\ spc' = "wait"
  /\ UNCHANGED <<exiting, clientHandle, request, shouldClose, pending, clients>>

(* StopServer: sessions that were not accepted are closed with the port.   *)
StopServer ==
  /\ spc = "wait" /\ ~exiting
  /\ pending' = <<>>
  /\ spc' = "stopped"
  /\ UNCHANGED <<exiting, isClientConnected, clientHandle, request, shouldClose,
                 serverEnds, clients>>

(* A process that was ended by fatalThrow has its handles closed.          *)
CleanUp ==
  /\ spc = "fatal" /\ Sessions # {}
  /\ pending' = <<>> /\ serverEnds' = {}
  /\ UNCHANGED <<server, clients>>

-----------------------------------------------------------------------------
ServerStep == Accept \/ Receive \/ Handle \/ Reply \/ CloseSession \/ StopServer

Next ==
  \/ ServerStep \/ CleanUp
  \/ \E c \in Clients :
       \/ Connect(c) \/ SendFails(c) \/ Vanish(c)
       \/ \E r \in Requests : Send(c, r)

Spec == Init /\ [][Next]_vars

(* The main thread does nothing but serve; the kernel does its part.       *)
FairSpec ==
  /\ Spec
  /\ WF_vars(ServerStep) /\ WF_vars(CleanUp)
  /\ \A c \in Clients : WF_vars(SendFails(c))

-----------------------------------------------------------------------------
(* Type invariant.  There is never more than the one session that          *)
(* StartServer registers the service for.                                  *)
TypeOK ==
  /\ exiting \in BOOLEAN /\ isClientConnected \in BOOLEAN /\ shouldClose \in BOOLEAN
  /\ clientHandle \in Clients \cup {NoClient}
  /\ spc \in {"wait", "handle", "reply", "close", "stopped", "fatal"}
  /\ request \in Requests \cup {NoRequest}
  /\ pending \in Seq(Clients) /\ serverEnds \subseteq Clients
  /\ Len(pending) + Cardinality(serverEnds) <= 1
  /\ cpc \in [Clients -> {"away", "connected", "waiting"}]
  /\ inbox \in [Clients -> Requests \cup {NoRequest}]
  /\ vanished \subseteq Clients

(* Between two requests the server holds exactly the session it thinks it  *)
(* holds: clientHandle is never a closed handle, although accepting while  *)
(* connected would overwrite it with one, and no handle leaks.             *)
HandleMatchesSession ==
  spc \in {"wait", "stopped"} =>
    serverEnds = IF isClientConnected THEN {clientHandle} ELSE {}

(* While no client vanishes, no sequence of connections and requests ends  *)
(* the sysmodule with fatalThrow.                                          *)
FatalOnlyIfVanished == spc = "fatal" => vanished # {}

(* Whoever sends a request gets an answer or an error.                     *)
RequestAnswered == \A c \in Clients : (cpc[c] = "waiting") ~> (cpc[c] # "waiting")

(* Why, without reference to fairness.  First, no client is left waiting   *)
(* on an open session by a server that has nothing more to do: whoever has *)
(* asked is served, is not accepted because the server ends, or belongs to *)
(* a session that is closed.  In particular the server never stops with a  *)
(* session open (IpcThread, ipc.c:171-179).                                *)
ServerCanGoOn ==
  \/ spc \in {"handle", "reply", "close", "fatal"}
  \/ spc = "wait" /\ (~exiting \/ pending # <<>>)
  \/ spc = "wait" /\ isClientConnected /\ cpc[clientHandle] # "connected"
ClientNeverStuck ==
  \A c \in Clients : cpc[c] = "waiting" => c \notin Sessions \/ ServerCanGoOn

(* Second, the server's steps bring the answer, or the error, nearer to    *)
(* the client whose session is open, and no step of anybody puts it off.   *)
StepsAt == [wait |-> 3, handle |-> 2, reply |-> 1, close |-> 1, fatal |-> 1, stopped |-> 0]
StepsToAnswer(c) ==
  IF cpc[c] # "waiting" THEN 0
  ELSE 1 + (IF c \in Sessions THEN StepsAt[spc] ELSE 0)
         + (IF c \in ToSet(pending) THEN 1 ELSE 0)
AnswerNearer ==
  \A c \in Clients : cpc[c] = "waiting" =>
    /\ StepsToAnswer(c)' <= StepsToAnswer(c)
    /\ c \in Sessions /\ ~UNCHANGED <<server, kernel>> =>
         StepsToAnswer(c)' < StepsToAnswer(c)
AnswerNears == [][AnswerNearer]_vars

(* Both together: no step leaves a client waiting for a server that has    *)
(* nothing more to do, and the server's bring the answer nearer.           *)
AnswerAdvances == [][ClientNeverStuck' /\ AnswerNearer]_vars
=============================================================================
