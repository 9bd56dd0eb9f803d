---------------------------- MODULE ServiceProofs ----------------------------
(***************************************************************************)
(* Proofs about two parts of the service that share no state: the IPC      *)
(* server, for any finite set of clients, any requests in any order and    *)
(* clients that vanish at any moment; and the notification LED under its   *)
(* callers, for any pads, any number of npads and pads that move at any    *)
(* moment.                                                                 *)
(***************************************************************************)
EXTENDS IpcServer, LedUsers, FiniteSetTheorems, TLAPS

(***************************************************************************)
(* The IPC server                                                          *)
(***************************************************************************)
Types ==
  /\ exiting \in BOOLEAN /\ isClientConnected \in BOOLEAN /\ shouldClose \in BOOLEAN
  /\ clientHandle \in Clients \cup {NoClient}
  /\ spc \in {"wait", "handle", "reply", "close", "stopped", "fatal"}
  /\ request \in Requests \cup {NoRequest}
  /\ pending \in Seq(Clients) /\ serverEnds \subseteq Clients
  /\ cpc \in [Clients -> {"away", "connected", "waiting"}]
  /\ inbox \in [Clients -> Requests \cup {NoRequest}]
  /\ vanished \subseteq Clients

(* The kernel counts one session.                                          *)
OneSession ==
  /\ Len(pending) <= 1
  /\ serverEnds = {} \/ (pending = <<>> /\ serverEnds = {clientHandle})

(* The server's own idea of the session is right, until it is ended.       *)
SessionInStep ==
  /\ spc # "fatal" => serverEnds = IF isClientConnected THEN {clientHandle} ELSE {}
  /\ spc \in {"handle", "reply", "close"} => isClientConnected
  /\ isClientConnected => clientHandle \in Clients

(* Who waits for the server, and who has left.                             *)
ClientsInStep ==
  /\ \A c \in Clients : cpc[c] = "waiting" => inbox[c] \in Requests
  /\ spc \in {"handle", "reply"} => cpc[clientHandle] = "waiting" \/ clientHandle \in vanished
  /\ spc = "reply" => shouldClose = ClosesSession(request)
  /\ \A c \in Sessions : cpc[c] = "away" /\ spc # "close" => c \in vanished
  /\ spc = "fatal" => vanished # {}

Inv == Types /\ OneSession /\ SessionInStep /\ ClientsInStep

-----------------------------------------------------------------------------
LEMMA NoLength ==
  ASSUME NEW S, NEW s \in Seq(S)
  PROVE  /\ Len(s) \in Nat /\ (Len(s) = 0 <=> s = <<>>)
         /\ s # <<>> /\ Len(s) <= 1 => Len(s) = 1
  <1>1. Len(s) \in Nat /\ (Len(s) = 0 <=> s = <<>>)
    OBVIOUS
  <1>2. \A n \in Nat : n <= 1 /\ n # 0 => n = 1
    OBVIOUS
  <1>3. QED BY <1>1, <1>2, Zenon

LEMMA ClosesOrNot == \A r : ClosesSession(r) \in BOOLEAN
  BY DEF ClosesSession

LEMMA InvInit == Init => Inv
  <1> SUFFICES ASSUME Init PROVE Inv
    OBVIOUS
  <1> USE DEF Init
  <1>1. pending \in Seq(Clients) /\ Len(pending) = 0
    OBVIOUS
  <1>2. Sessions = {}
    BY DEF Sessions, ToSet
  <1>3. Types
    BY <1>1 DEF Types
  <1>4. QED BY <1>1, <1>2, <1>3 DEF Inv, OneSession, SessionInStep, ClientsInStep

(* A client connects when there is no session.                             *)
LEMMA NoOtherSession ==
  ASSUME Types, Cardinality(Sessions) < MaxSessions
  PROVE  pending = <<>> /\ serverEnds = {}
  <1>1. Sessions \subseteq Clients
    BY DEF Types, Sessions, ToSet
  <1>2. IsFiniteSet(Sessions)
    BY <1>1, IpcAssumption, FS_Subset DEF IpcAssumption
  <1>3. Cardinality(Sessions) \in Nat /\ (Cardinality(Sessions) = 0 => Sessions = {})
    BY <1>2, FS_CardinalityType, FS_EmptySet
  <1>4. Sessions = {}
    BY <1>3 DEF MaxSessions
  <1>5. serverEnds = {} /\ \A i \in DOMAIN pending : FALSE
    BY <1>4 DEF Sessions, ToSet
  <1>6. pending \in Seq(Clients) /\ DOMAIN pending = 1..Len(pending) /\ Len(pending) \in Nat
    BY DEF Types
  <1>7. ~(1 \in 1..Len(pending))
    BY <1>5, <1>6
  <1>8. Len(pending) = 0
    BY <1>6, <1>7
  <1>9. QED BY <1>5, <1>6, <1>8

LEMMA ClientStep ==
  ASSUME Inv, NEW c \in Clients,
         \/ Connect(c) \/ SendFails(c) \/ Vanish(c)
         \/ \E r \in Requests : Send(c, r)
  PROVE  Inv'
  <1> USE DEF Inv, Types, OneSession, SessionInStep, ClientsInStep, server, kernel
  <1>1. CASE Connect(c)
    <2>1. pending = <<>> /\ serverEnds = {}
      BY <1>1, NoOtherSession DEF Connect
    <2>2. pending' = <<c>> /\ serverEnds' = {} /\ cpc' = [cpc EXCEPT ![c] = "connected"]
      BY <1>1, <2>1 DEF Connect
    <2>3. Sessions' = {c}
      BY <2>2 DEF Sessions, ToSet
    <2>4. ~isClientConnected \/ spc = "fatal"
      BY <2>1
    <2>5. cpc'[c] = "connected"
      BY <2>2
    <2>6. UNCHANGED <<server, inbox, vanished>>
      BY <1>1 DEF Connect
    <2>7. Types' /\ OneSession' /\ SessionInStep'
      BY <2>1, <2>2, <2>6
    <2>8. ClientsInStep'
      BY <2>2, <2>3, <2>4, <2>5, <2>6
    <2>9. QED BY <2>7, <2>8
  <1>2. CASE \E r \in Requests : Send(c, r)
    <2>1. Sessions' = Sessions
      BY <1>2 DEF Send, Sessions
    <2>2. QED BY <1>2, <2>1 DEF Send
  <1>3. CASE SendFails(c)
    <2>1. Sessions' = Sessions /\ c \notin Sessions
      BY <1>3 DEF SendFails, Sessions
    <2>2. serverEnds \subseteq Sessions
      BY DEF Sessions
    <2>3. QED BY <1>3, <2>1, <2>2 DEF SendFails
  <1>4. CASE Vanish(c)
    <2>1. Sessions' = Sessions
      BY <1>4 DEF Vanish, Sessions
    <2>2. QED BY <1>4, <2>1 DEF Vanish
  <1>5. QED BY <1>1, <1>2, <1>3, <1>4

(* The session that is accepted is the only one.                           *)
LEMMA AcceptFacts ==
  ASSUME Inv, Accept
  PROVE  /\ Head(pending) \in Clients /\ pending # <<>> /\ serverEnds = {}
         /\ serverEnds' = {Head(pending)} /\ pending' = <<>>
         /\ clientHandle' = Head(pending) /\ isClientConnected'
         /\ UNCHANGED <<exiting, spc, request, shouldClose, clients>> /\ spc = "wait"
         /\ Sessions = {Head(pending)} /\ Sessions' = {Head(pending)}
  <1> USE DEF Inv, Types, OneSession, SessionInStep, ClientsInStep, clients
  <1> DEFINE c == Head(pending)
  <1>1. /\ pending \in Seq(Clients) /\ pending # <<>> /\ Len(pending) = 1
        /\ serverEnds = {} /\ ~isClientConnected
    <2>1. pending \in Seq(Clients) /\ pending # <<>> /\ Len(pending) <= 1
      BY DEF Accept
    <2>2. Len(pending) = 1
      BY <2>1, NoLength, Zenon
    <2>3. serverEnds = {}
      BY <2>1
    <2>4. serverEnds = IF isClientConnected THEN {clientHandle} ELSE {}
      BY DEF Accept
    <2>5. QED BY <2>1, <2>2, <2>3, <2>4
  <1>2. c \in Clients /\ c = pending[1] /\ Tail(pending) = <<>> /\ DOMAIN pending = {1}
    <2> HIDE DEF Inv
    <2>1. c \in Clients /\ c = pending[1]
      BY <1>1
    <2>2. Tail(pending) \in Seq(Clients) /\ Len(Tail(pending)) = 0
      BY <1>1
    <2>3. Tail(pending) = <<>>
      BY <2>2, NoLength
    <2>4. DOMAIN pending = 1..1
      BY <1>1
    <2>5. QED BY <2>1, <2>3, <2>4
  <1> HIDE DEF c
  <1>3. /\ serverEnds' = {c} /\ pending' = <<>> /\ clientHandle' = c /\ isClientConnected'
        /\ UNCHANGED <<exiting, spc, request, shouldClose, clients>> /\ spc = "wait"
    BY <1>1, <1>2 DEF Accept, c
  <1>4. Sessions = {c} /\ Sessions' = {c}
    BY <1>1, <1>2, <1>3 DEF Sessions, ToSet
  <1>5. QED BY <1>1, <1>2, <1>3, <1>4 DEF c

LEMMA AcceptStep ==
  ASSUME Inv, Accept
  PROVE  Inv'
  <1> DEFINE c == Head(pending)
  <1>1. /\ c \in Clients /\ serverEnds' = {c} /\ pending' = <<>> /\ clientHandle' = c
        /\ isClientConnected' /\ Sessions = {c} /\ Sessions' = {c} /\ spc = "wait"
        /\ UNCHANGED <<exiting, spc, request, shouldClose, clients>>
    BY AcceptFacts
  <1> HIDE DEF c
  <1>2. pending' \in Seq(Clients) /\ Len(pending') = 0
    BY <1>1
  <1>3. QED
    BY <1>1, <1>2
       DEF Inv, Types, OneSession, SessionInStep, ClientsInStep, clients

LEMMA RequestStep ==
  ASSUME Inv, Receive \/ Handle \/ Reply
  PROVE  Inv'
  <1> USE DEF Inv, Types, OneSession, SessionInStep, ClientsInStep, kernel, clients
  <1>1. Sessions' = Sessions
    BY DEF Receive, Handle, Reply, Sessions
  <1>2. isClientConnected /\ clientHandle \in Clients /\ serverEnds = {clientHandle}
    BY DEF Receive, Handle, Reply
  <1>3. clientHandle \in Sessions
    BY <1>2 DEF Sessions
  <1>4. CASE Receive
    BY <1>1, <1>2, <1>3, <1>4 DEF Receive
  <1>5. CASE Handle
    <2>1. /\ spc = "handle" /\ spc' = "reply" /\ shouldClose' = ClosesSession(request)
          /\ UNCHANGED <<isClientConnected, clientHandle, request, kernel, clients>>
      BY <1>5 DEF Handle
    <2>2. exiting' \in BOOLEAN
      BY <1>5, Zenon DEF Handle
    <2>3. shouldClose' \in BOOLEAN
      BY <2>1, ClosesOrNot, Zenon
    <2>4. Types'
      BY <2>1, <2>2, <2>3
    <2>5. OneSession' /\ SessionInStep'
      BY <2>1
    <2>6. shouldClose' = ClosesSession(request')
      BY <2>1
    <2>7. ClientsInStep'
      BY <1>1, <2>1, <2>6
    <2>8. QED BY <2>4, <2>5, <2>7
  <1>6. CASE Reply
    <2>1. CASE cpc[clientHandle] = "waiting"
      <3>1. \A c \in Sessions : c = clientHandle
        BY <1>2 DEF Sessions, ToSet
      <3>2. /\ cpc'[clientHandle] = IF request = "close" THEN "away" ELSE "connected"
            /\ \A c \in Clients : c # clientHandle => cpc'[c] = cpc[c] /\ inbox'[c] = inbox[c]
        BY <1>2, <1>6, <2>1 DEF Reply, Answer
      <3>3. spc' = IF shouldClose THEN "close" ELSE "wait"
        BY <1>6, <2>1 DEF Reply
      <3>4. request = "close" => shouldClose
        BY <1>6 DEF Reply, ClosesSession
      <3>5. Types' /\ OneSession' /\ SessionInStep'
        BY <1>2, <1>6, <2>1, <3>3 DEF Reply, Answer, NoRequest
      <3>6. ClientsInStep'
        BY <1>1, <1>2, <1>6, <2>1, <3>1, <3>2, <3>3, <3>4 DEF Reply
      <3>7. QED BY <3>5, <3>6
    <2>2. CASE cpc[clientHandle] # "waiting"
      BY <1>1, <1>2, <1>6, <2>2 DEF Reply
    <2>3. QED BY <2>1, <2>2
  <1>7. QED BY <1>4, <1>5, <1>6

LEMMA EndStep ==
  ASSUME Inv, CloseSession \/ StopServer \/ CleanUp
  PROVE  Inv'
  <1> USE DEF Inv, Types, OneSession, SessionInStep, ClientsInStep, server, clients
  <1>1. pending' \in Seq(Clients) /\ (pending' = <<>> => Len(pending') = 0)
    <2>1. pending' = pending \/ pending' = <<>>
      BY DEF CloseSession, StopServer, CleanUp
    <2>2. <<>> \in Seq(Clients) /\ Len(<<>>) = 0
      OBVIOUS
    <2>3. pending \in Seq(Clients)
      OBVIOUS
    <2>4. QED BY <2>1, <2>2, <2>3, Zenon
  <1>2. CASE CloseSession
    <2>1. serverEnds' = {} /\ pending' = pending /\ pending = <<>>
      BY <1>2 DEF CloseSession
    <2>2. Sessions' = {}
      BY <2>1 DEF Sessions, ToSet
    <2>3. QED BY <1>1, <1>2, <2>1, <2>2 DEF CloseSession
  <1>3. CASE StopServer \/ CleanUp
    <2>1. Sessions' \subseteq Sessions /\ pending' = <<>> /\ serverEnds' \subseteq serverEnds
      BY <1>3 DEF StopServer, CleanUp, Sessions, ToSet
    <2>2. QED BY <1>1, <1>3, <2>1 DEF StopServer, CleanUp
  <1>4. QED BY <1>2, <1>3

LEMMA InvStep == Inv /\ [Next]_vars => Inv'
  <1> SUFFICES ASSUME Inv, [Next]_vars PROVE Inv'
    OBVIOUS
  <1>1. CASE UNCHANGED vars
    BY <1>1 DEF vars, server, kernel, clients, Inv, Types, OneSession, SessionInStep,
                ClientsInStep, Sessions
  <1>2. CASE Next
    BY <1>2, ClientStep, AcceptStep, RequestStep, EndStep DEF Next, ServerStep
  <1>3. QED BY <1>1, <1>2

(* The inductive invariant of the server holds, whatever the clients send  *)
(* and whenever they vanish (ipc.c:112-179).                               *)
THEOREM InvHolds == Spec => []Inv
  <1>1. QED BY InvInit, InvStep, PTL DEF Spec

(* The server's and the clients' variables keep their types, and there is  *)
(* never more than the one session that StartServer asks for (ipc.c).      *)
THEOREM TypeCorrect == Spec => []TypeOK
  <1>1. Inv => TypeOK
    <2> SUFFICES ASSUME Inv PROVE TypeOK
      OBVIOUS
    <2>1. Cardinality({}) = 0 /\ Cardinality({clientHandle}) = 1
      BY FS_EmptySet, FS_Singleton
    <2>2. Len(pending) + Cardinality(serverEnds) <= 1
      <3>1. CASE serverEnds = {}
        BY <2>1, <3>1 DEF Inv, OneSession, Types
      <3>2. CASE pending = <<>> /\ serverEnds = {clientHandle}
        <4>1. Len(pending) = 0
          BY <3>2
        <4>2. QED BY <2>1, <3>2, <4>1
      <3>3. QED BY <3>1, <3>2 DEF Inv, OneSession
    <2>3. QED BY <2>2 DEF Inv, Types, TypeOK
  <1>2. QED BY <1>1, InvHolds, PTL

(* Between two requests the server holds the one session it thinks it      *)
(* holds, for any number of clients that come, ask and vanish (ipc.c).     *)
THEOREM HandleIsTheSession == Spec => []HandleMatchesSession
  <1>1. Inv => HandleMatchesSession
    BY DEF Inv, SessionInStep, HandleMatchesSession
  <1>2. QED BY <1>1, InvHolds, PTL

(* Nothing but a client that vanishes ends the sysmodule with fatalThrow:  *)
(* no connection, and no request, in whatever order they come (ipc.c).     *)
THEOREM FatalNeedsVanished == Spec => []FatalOnlyIfVanished
  <1>1. Inv => FatalOnlyIfVanished
    BY DEF Inv, ClientsInStep, FatalOnlyIfVanished
  <1>2. QED BY <1>1, InvHolds, PTL

-----------------------------------------------------------------------------
(* The end of a request                                                    *)

(* CMD_EXIT closes the session it came on, and no other is accepted        *)
(* afterwards; when the server has stopped there is none.                  *)
ExitClosesSession ==
  /\ ~exiting => spc # "handle"
  /\ ~exiting /\ spc = "reply" => shouldClose
  /\ ~exiting /\ spc \in {"wait", "stopped"} => ~isClientConnected
  /\ spc = "stopped" => ~exiting /\ pending = <<>>

(* Every step keeps it.                                                    *)
LEMMA ExitClosesStep == Inv /\ ExitClosesSession /\ [Next]_vars => ExitClosesSession'
  <1> SUFFICES ASSUME Inv, ExitClosesSession, [Next]_vars PROVE ExitClosesSession'
    OBVIOUS
  <1> USE DEF ExitClosesSession
  <1>1. CASE UNCHANGED vars \/ CleanUp
    BY <1>1 DEF vars, server, kernel, CleanUp
  <1>2. CASE \E c \in Clients : \/ Connect(c) \/ SendFails(c) \/ Vanish(c)
                               \/ \E r \in Requests : Send(c, r)
    <2>1. UNCHANGED server /\ (spc = "stopped" => UNCHANGED pending)
      BY <1>2 DEF Connect, SendFails, Vanish, Send, Running, kernel
    <2>2. QED BY <2>1 DEF server
  <1>3. CASE Accept \/ Receive
    BY <1>3 DEF Accept, Receive
  <1>4. CASE Handle
    <2>1. spc' = "reply" /\ exiting
      BY <1>4 DEF Handle
    <2>2. ~exiting' => request = "CMD_EXIT"
      BY <1>4, <2>1, Zenon DEF Handle
    <2>3. request = "CMD_EXIT" => shouldClose'
      BY <1>4 DEF Handle, ClosesSession
    <2>4. QED BY <2>1, <2>2, <2>3
  <1>5. CASE Reply
    <2>1. spc = "reply" /\ spc' \in {"fatal", IF shouldClose THEN "close" ELSE "wait"}
      BY <1>5 DEF Reply
    <2>2. UNCHANGED <<exiting, shouldClose>>
      BY <1>5 DEF Reply
    <2>3. QED BY <2>1, <2>2
  <1>6. CASE CloseSession \/ StopServer
    BY <1>6 DEF CloseSession, StopServer
  <1>7. QED BY <1>1, <1>2, <1>3, <1>4, <1>5, <1>6 DEF Next, ServerStep

LEMMA ExitClosesHolds == Spec => []ExitClosesSession
  <1>1. Init => ExitClosesSession
    BY DEF Init, ExitClosesSession
  <1>2. QED BY <1>1, ExitClosesStep, InvHolds, PTL DEF Spec

(* Who is in a session, and where the server then is.                      *)
LEMMA InSession ==
  ASSUME Inv, ExitClosesSession, NEW c \in Sessions
  PROVE  /\ spc # "stopped"
         /\ \/ c \in serverEnds /\ pending = <<>> /\ c = clientHandle
               /\ (spc # "fatal" => isClientConnected)
            \/ c \in ToSet(pending) /\ c \notin serverEnds /\ pending # <<>> /\ serverEnds = {}
               /\ (spc # "fatal" => ~isClientConnected)
  <1>1. ToSet(<<>>) = {}
    BY DEF ToSet
  <1>2. c \in serverEnds \/ (c \in ToSet(pending) /\ c \notin serverEnds)
    BY DEF Sessions
  <1>3. CASE c \in serverEnds
    BY <1>3 DEF Inv, OneSession, SessionInStep, ExitClosesSession
  <1>4. CASE c \in ToSet(pending) /\ c \notin serverEnds
    <2>1. pending # <<>>
      BY <1>1, <1>4
    <2>2. serverEnds = {}
      BY <2>1 DEF Inv, OneSession
    <2>3. QED BY <1>4, <2>1, <2>2 DEF Inv, SessionInStep, ExitClosesSession
  <1>5. QED BY <1>2, <1>3, <1>4

(* No client is left waiting on an open session by a server that has       *)
(* nothing more to do: CMD_EXIT takes its own session along, and nobody    *)
(* else can have one (ipc.c:93-111, 162-179).                              *)
THEOREM ClientIsNeverStuck == Spec => []ClientNeverStuck
  <1>1. Inv /\ ExitClosesSession => ClientNeverStuck
    <2> SUFFICES ASSUME Inv, ExitClosesSession, NEW c \in Clients, cpc[c] = "waiting",
                        c \in Sessions
                 PROVE  ServerCanGoOn
      BY DEF ClientNeverStuck
    <2>1. spc \in {"wait", "handle", "reply", "close", "fatal"}
      BY InSession DEF Inv, Types
    <2>2. CASE spc = "wait"
      BY <2>2, InSession DEF ServerCanGoOn
    <2>3. QED BY <2>1, <2>2 DEF ServerCanGoOn
  <1>2. QED BY <1>1, InvHolds, ExitClosesHolds, PTL

(* A step of the server leaves the client its place in the session or ends *)
(* the wait.                                                               *)
LEMMA ServerNears ==
  ASSUME Inv, ExitClosesSession, NEW c \in Clients, cpc[c] = "waiting",
         ServerStep \/ CleanUp
  PROVE  /\ StepsToAnswer(c)' <= StepsToAnswer(c)
         /\ c \in Sessions => StepsToAnswer(c)' < StepsToAnswer(c)
  <1> USE DEF StepsToAnswer, StepsAt
  <1>1. ToSet(<<>>) = {} /\ ToSet(pending) \subseteq Sessions
    BY DEF ToSet, Sessions
  <1>2. CASE Accept
    <2>1. /\ Sessions' = Sessions /\ spc = "wait" /\ spc' = "wait" /\ cpc' = cpc
          /\ ToSet(pending)' = {} /\ ToSet(pending) = Sessions
      BY <1>1, <1>2, AcceptFacts DEF clients, Sessions, ToSet
    <2>2. QED BY <2>1
  <1>3. CASE Receive \/ Handle \/ Reply
    <2>1. Sessions' = Sessions /\ ToSet(pending)' = ToSet(pending)
      BY <1>3 DEF Receive, Handle, Reply, kernel, Sessions
    <2>2. serverEnds = {clientHandle} /\ pending = <<>> /\ clientHandle \in Clients
      BY <1>3 DEF Receive, Handle, Reply, Inv, OneSession, SessionInStep
    <2>3. Sessions = {clientHandle} /\ ToSet(pending) = {}
      BY <1>1, <2>2 DEF Sessions
    <2>4. CASE c = clientHandle
      <3>1. \/ spc = "wait" /\ spc' = "handle" /\ cpc' = cpc
            \/ spc = "handle" /\ spc' = "reply" /\ cpc' = cpc
            \/ spc = "reply" /\ cpc'[c] # "waiting"
        BY <1>3, <2>2, <2>4 DEF Receive, Handle, Reply, Answer, clients, Inv, Types
      <3>2. QED BY <2>1, <2>3, <2>4, <3>1
    <2>5. CASE c # clientHandle
      <3>1. cpc'[c] = cpc[c]
        BY <1>3, <2>2, <2>5 DEF Receive, Handle, Reply, Answer, clients, Inv, Types
      <3>2. QED BY <2>1, <2>3, <2>5, <3>1
    <2>6. QED BY <2>4, <2>5
  <1>4. CASE CloseSession \/ StopServer \/ CleanUp
    <2>1. /\ spc \in {"close", "wait", "fatal"} /\ UNCHANGED cpc
          /\ pending' = <<>> /\ serverEnds' = {}
      BY <1>4 DEF CloseSession, StopServer, CleanUp, clients, Inv, OneSession, SessionInStep,
                  ExitClosesSession
    <2>2. Sessions' = {} /\ ToSet(pending)' = {}
      BY <1>1, <2>1 DEF Sessions, ToSet
    <2>3. QED BY <2>1, <2>2
  <1>5. QED BY <1>2, <1>3, <1>4 DEF ServerStep

(* A step of a client leaves the others where they are: while there is a   *)
(* session nobody connects.                                                *)
LEMMA OthersKeepPlace ==
  ASSUME Inv, ExitClosesSession, NEW c \in Clients, cpc[c] = "waiting", NEW d \in Clients,
         \/ Connect(d) \/ SendFails(d) \/ Vanish(d)
         \/ \E r \in Requests : Send(d, r)
  PROVE  /\ StepsToAnswer(c)' <= StepsToAnswer(c)
         /\ c \in Sessions => UNCHANGED <<server, kernel>>
  <1> USE DEF StepsToAnswer, StepsAt
  <1>1. ToSet(<<>>) = {} /\ ToSet(pending) \subseteq Sessions
    BY DEF ToSet, Sessions
  <1>2. CASE Connect(d)
    <2>1. pending = <<>> /\ serverEnds = {} /\ pending' = <<d>> /\ serverEnds' = {}
      BY <1>2, NoOtherSession DEF Connect, Inv
    <2>2. Sessions = {} /\ Sessions' = {d} /\ ToSet(pending)' = {d}
      BY <1>1, <2>1 DEF Sessions, ToSet
    <2>3. d # c /\ cpc'[c] = cpc[c]
      BY <1>2 DEF Connect, Inv, Types
    <2>4. QED BY <1>1, <2>2, <2>3
  <1>3. CASE SendFails(d) \/ Vanish(d) \/ \E r \in Requests : Send(d, r)
    <2>1. UNCHANGED <<server, kernel>>
      BY <1>3 DEF SendFails, Vanish, Send
    <2>2. Sessions' = Sessions /\ ToSet(pending)' = ToSet(pending) /\ spc' = spc
      BY <2>1 DEF server, kernel, Sessions
    <2>3. c \in Sessions => spc \in {"wait", "handle", "reply", "close", "fatal"}
      BY InSession DEF Inv, Types
    <2>4. QED BY <1>1, <2>1, <2>2, <2>3
  <1>4. QED BY <1>2, <1>3

(* Whoever waits is brought nearer to an answer or an error by every step  *)
(* of the server, of which there are no more than four, and put off by no  *)
(* other client (ipc.c:112-179).                                           *)
THEOREM AnswerGetsNearer == Spec => AnswerNears
  <1>1. ASSUME Inv, ExitClosesSession, [Next]_vars
        PROVE  [\A c \in Clients : cpc[c] = "waiting" =>
                  /\ StepsToAnswer(c)' <= StepsToAnswer(c)
                  /\ c \in Sessions /\ ~UNCHANGED <<server, kernel>> =>
                        StepsToAnswer(c)' < StepsToAnswer(c)]_vars
    <2> SUFFICES ASSUME Next, NEW c \in Clients, cpc[c] = "waiting"
                 PROVE  /\ StepsToAnswer(c)' <= StepsToAnswer(c)
                        /\ c \in Sessions /\ ~UNCHANGED <<server, kernel>> =>
                              StepsToAnswer(c)' < StepsToAnswer(c)
      BY <1>1
    <2>1. CASE ServerStep \/ CleanUp
      BY <1>1, <2>1, ServerNears
    <2>2. CASE \E d \in Clients : \/ Connect(d) \/ SendFails(d) \/ Vanish(d)
                                 \/ \E r \in Requests : Send(d, r)
      BY <1>1, <2>2, OthersKeepPlace
    <2>3. QED BY <2>1, <2>2 DEF Next
  <1>2. QED BY <1>1, InvHolds, ExitClosesHolds, PTL DEF Spec, AnswerNears, AnswerNearer

(* Whoever waits for the server comes nearer its answer or its error       *)
(* (ipc.c:112-179).                                                        *)
THEOREM AnsweringAdvances == Spec => AnswerAdvances
  BY ClientIsNeverStuck, AnswerGetsNearer, PTL DEF AnswerAdvances, AnswerNears

-----------------------------------------------------------------------------
(***************************************************************************)
(* The notification LED                                                    *)
(***************************************************************************)
(* Each caller is in setLedPattern exactly while it says so, with the      *)
(* pattern it says.                                                        *)
CallersInStep ==
  /\ call["rec"].pc # "none" => rec \in {"solid", "off"} /\ call["rec"].type = rec
  /\ call["rec"].pc = "none" => rec \in {"none", "reading"}
  /\ call["play"].pc # "none" => play \in {"breathing", "off"} /\ call["play"].type = play
  /\ call["play"].pc = "none" => play \in {"none", "reading", "writing"}
  /\ call["main"].pc # "none" => main = "led" /\ call["main"].type = "off"
  /\ main = "led" => call["main"].pc # "none"

(* The pad that is to be remembered has an LED.                            *)
TriedHasLed ==
  \A t \in Threads : call[t].pc = "tried" /\ call[t].ok => call[t].pad \in HasLed

LedTypes == UsersTypeOK /\ TriedHasLed /\ CallersInStep

Dark == \A p \in LedPads : lit[p] = "off"
Searches(t) == call[t].pc \in {"ask", "try", "tried"}

OneCall == \A s, t \in Threads : InCall(s) /\ InCall(t) => s = t

(* No LED is lit but that of the pad that is remembered.                   *)
LitIsRemembered == \A p \in LedPads : p = padId \/ lit[p] = "off"

(* From the failure of a request until another pad is found nothing is     *)
(* lit, nor once OFF was sent.                                             *)
DarkInCall(t) ==
  /\ Searches(t) => led_pattern = "off" /\ Dark /\ (~call[t].retry => padId = NoPad)
  /\ call[t].pc = "sent" => ~call[t].retry /\ (~call[t].ok \/ call[t].type = "off" => Dark)
  /\ call[t].pc = "resent" => call[t].retry /\ Dark
  /\ call[t].pc = "returned" /\ call[t].type = "off" => Dark

(* A search has the pads with an LED before it, or has just found one.     *)
Ahead(t, p) ==
  \/ npad[p] > call[t].i
  \/ npad[p] = call[t].i /\ (call[t].pc = "ask" \/ p \in call[t].todo)
  \/ call[t].pc = "tried" /\ call[t].ok

(* What a call has reached, as long as no pad moves.                       *)
StillPads(t) ==
  /\ Searches(t) => \A p \in LedPads : Ahead(t, p)
  /\ call[t].pc = "tried" /\ call[t].ok => call[t].pad \in LedPads
  /\ call[t].pc = "sent" /\ call[t].ok => padId \in LedPads /\ lit[padId] = call[t].type
  /\ call[t].pc = "resent" /\ LedPads # {} => padId \in LedPads /\ call[t].ok
  /\ call[t].pc = "returned" /\ LedPads # {} =>
       Shows(IF call[t].retry THEN "off" ELSE call[t].type)

LedInStep ==
  ~overlapped =>
    /\ OneCall /\ LitIsRemembered
    /\ \A t \in Threads : DarkInCall(t) /\ (t \notin moved => StillPads(t))
    /\ Idle \/ main = "done" => Dark

LedInv == LedTypes /\ LedInStep

-----------------------------------------------------------------------------
(* Types                                                                   *)

Labels == {"none", "ask", "try", "tried", "sent", "resent", "returned"}
Facts(t, c) ==
  /\ call' \in [Threads -> Calls] /\ call'[t] = c
  /\ \A s \in Threads : s # t => call'[s] = call[s]

LEMMA CalledType ==
  ASSUME NEW type \in Patterns
  PROVE  Called(type) \in Calls
  BY NotifLedAssumption DEF Called, Calls, NotifLedAssumption

(* What a request does, and what goes on without one.                      *)
LEMMA SendFacts ==
  ASSUME LedTypeOK, NEW t \in Threads, NEW c \in Calls, NEW p \in Pads,
         NEW pattern \in Patterns, NEW pc \in Labels, SendPattern(t, c, p, pattern, pc)
  PROVE  /\ Facts(t, call'[t]) /\ call'[t] \in Calls
         /\ call'[t].pc = pc /\ call'[t].pad = p /\ call'[t].ok = Accepts(p)
         /\ call'[t].type = c.type /\ call'[t].i = c.i /\ call'[t].todo = c.todo
         /\ call'[t].retry = c.retry
         /\ lit' \in [Pads -> Patterns]
         /\ \A q \in Pads : lit'[q] = IF q = p /\ Accepts(p) THEN pattern ELSE lit[q]
  <1>1. Accepts(p) \in BOOLEAN
    BY DEF Accepts
  <1> DEFINE d == [c EXCEPT !.pc = pc, !.pad = p, !.ok = Accepts(p)]
  <1>2. /\ d \in Calls /\ d.pc = pc /\ d.pad = p /\ d.ok = Accepts(p)
        /\ d.type = c.type /\ d.i = c.i /\ d.todo = c.todo /\ d.retry = c.retry
    BY <1>1 DEF Calls, Labels
  <1>3. call' = [call EXCEPT ![t] = d]
    BY DEF SendPattern
  <1> HIDE DEF d
  <1>4. Facts(t, d)
    BY <1>2, <1>3 DEF Facts, LedTypeOK
  <1>5. call'[t] = d
    BY <1>4 DEF Facts
  <1>6. lit' = IF Accepts(p) THEN [lit EXCEPT ![p] = pattern] ELSE lit
    BY DEF SendPattern
  <1>7. /\ lit' \in [Pads -> Patterns]
        /\ \A q \in Pads : lit'[q] = IF q = p /\ Accepts(p) THEN pattern ELSE lit[q]
    BY <1>1, <1>6 DEF LedTypeOK
  <1>8. QED BY <1>2, <1>4, <1>5, <1>7

LEMMA GoOnFacts ==
  ASSUME LedTypeOK, NEW t \in Threads, NEW c \in Calls, GoOn(t, c)
  PROVE  Facts(t, c) /\ lit' = lit
  BY DEF GoOn, Facts, LedTypeOK

(* A step within a call leaves its pattern alone and does not end it.      *)
LEMMA StepTypes ==
  ASSUME LedTypes, NEW t \in Threads, LedStep(t)
  PROVE  /\ LedTypeOK' /\ TriedHasLed'
         /\ Facts(t, call'[t]) /\ call'[t].type = call[t].type
         /\ call[t].pc # "none" /\ call'[t].pc # "none"
  <1> USE DEF LedTypes, UsersTypeOK
  <1> DEFINE c == call[t]
  <1>1. c \in Calls /\ c.pc \in Labels /\ c.type \in Patterns /\ c.i \in 1..MAX_PADS
        /\ c.todo \subseteq Pads /\ c.pad \in Pads \cup {NoPad} /\ c.ok \in BOOLEAN
        /\ c.retry \in BOOLEAN
    BY DEF LedTypeOK, Calls, Labels
  <1>2. ASSUME NEW d \in Calls, Facts(t, d), d.pc = "tried" /\ d.ok => d.pad \in HasLed
        PROVE  TriedHasLed'
    BY <1>2 DEF Facts, TriedHasLed
  <1>3. \A d \in Calls : GoOn(t, d) => Facts(t, d) /\ call'[t] = d /\ lit' = lit
    BY GoOnFacts DEF Facts
  <1>4. "off" \in Patterns /\ HasLed \subseteq Pads /\ NoPad \notin Pads /\ MAX_PADS \in Nat \ {0}
    BY NotifLedAssumption DEF NotifLedAssumption
  <1>5. CASE GetUniquePads(t)
    <2> DEFINE d == [c EXCEPT !.pc = "try", !.todo = {p \in Pads : npad[p] = c.i}]
    <2>1. d \in Calls /\ d.pc = "try" /\ d.type = c.type
      BY <1>1 DEF Calls
    <2>2. GoOn(t, d)
      BY <1>5 DEF GetUniquePads
    <2>3. Facts(t, d) /\ call'[t] = d /\ lit' = lit
      BY <1>3, <2>1, <2>2
    <2> HIDE DEF d
    <2>4. QED BY <1>2, <1>5, <2>1, <2>3 DEF GetUniquePads, LedTypeOK, Facts
  <1>6. CASE TryPad(t)
    <2>1. PICK p \in c.todo :
            SendPattern(t, [c EXCEPT !.todo = @ \ {p}], p, led_pattern, "tried")
      BY <1>6 DEF TryPad
    <2> DEFINE d == [c EXCEPT !.todo = @ \ {p}]
    <2>2. d \in Calls /\ d.type = c.type /\ p \in Pads
      BY <1>1 DEF Calls
    <2>3. SendPattern(t, d, p, led_pattern, "tried")
      BY <2>1
    <2> HIDE DEF d
    <2>4. /\ Facts(t, call'[t]) /\ call'[t] \in Calls
          /\ call'[t].pc = "tried" /\ call'[t].pad = p /\ call'[t].ok = Accepts(p)
          /\ call'[t].type = c.type /\ lit' \in [Pads -> Patterns]
      BY <2>2, <2>3, SendFacts DEF LedTypeOK, Labels
    <2>5. Accepts(p) => p \in HasLed
      BY DEF Accepts
    <2>6. TriedHasLed'
      BY <1>2, <2>4, <2>5
    <2>7. QED BY <1>6, <2>4, <2>6 DEF TryPad, LedTypeOK, Facts
  <1>7. CASE NextNpad(t)
    <2> DEFINE d == [c EXCEPT !.pc = "ask", !.i = @ + 1]
    <2>1. c.i + 1 \in 1..MAX_PADS
      BY <1>1, <1>4, <1>7 DEF NextNpad
    <2>2. d \in Calls /\ d.pc = "ask" /\ d.type = c.type
      BY <1>1, <2>1 DEF Calls
    <2>3. GoOn(t, d)
      BY <1>7 DEF NextNpad
    <2>4. Facts(t, d) /\ call'[t] = d /\ lit' = lit
      BY <1>3, <2>2, <2>3
    <2> HIDE DEF d
    <2>5. QED BY <1>2, <1>7, <2>2, <2>4 DEF NextNpad, LedTypeOK, Facts
  <1>8. CASE TriedFails(t)
    <2> DEFINE d == [c EXCEPT !.pc = "try"]
    <2>1. d \in Calls /\ d.pc = "try" /\ d.type = c.type
      BY <1>1 DEF Calls
    <2>2. GoOn(t, d)
      BY <1>8 DEF TriedFails
    <2>3. Facts(t, d) /\ call'[t] = d /\ lit' = lit
      BY <1>3, <2>1, <2>2
    <2> HIDE DEF d
    <2>4. QED BY <1>2, <1>8, <2>1, <2>3 DEF TriedFails, LedTypeOK, Facts
  <1>9. ASSUME Return(t) PROVE /\ Facts(t, call'[t]) /\ call'[t] \in Calls /\ lit' = lit
                               /\ call'[t].pc = "returned" /\ call'[t].type = c.type
    <2> DEFINE d == [c EXCEPT !.pc = "returned"]
    <2>1. d \in Calls /\ d.pc = "returned" /\ d.type = c.type
      BY <1>1 DEF Calls
    <2>2. GoOn(t, d)
      BY <1>9 DEF Return
    <2>3. QED BY <1>3, <2>1, <2>2
  <1>10. ASSUME AfterInitPad(t), padId' \in HasLed \cup {NoPad}, c.pc # "none",
                UNCHANGED <<npad, moved, overlapped>>
         PROVE  /\ LedTypeOK' /\ TriedHasLed'
                /\ Facts(t, call'[t]) /\ call'[t].type = c.type
                /\ call[t].pc # "none" /\ call'[t].pc # "none"
    <2>1. led_pattern' \in Patterns
      BY <1>1, <1>10 DEF AfterInitPad, PatternAfter, LedTypeOK
    <2>2. CASE padId' = NoPad
      <3>1. Return(t)
        BY <1>10, <2>2 DEF AfterInitPad
      <3>2. TriedHasLed'
        BY <1>2, <1>9, <3>1
      <3>3. QED BY <1>9, <1>10, <2>1, <3>1, <3>2 DEF LedTypeOK, Facts
    <2>3. CASE padId' # NoPad
      <3> DEFINE pc == IF c.retry THEN "resent" ELSE "sent"
      <3>1. SendPattern(t, c, padId', led_pattern', pc)
        BY <1>10, <2>3 DEF AfterInitPad
      <3>2. padId' \in Pads /\ pc \in Labels
        BY <1>4, <1>10, <2>3 DEF Labels
      <3>3. pc # "none" /\ pc # "tried"
        OBVIOUS
      <3> HIDE DEF pc
      <3>4. /\ Facts(t, call'[t]) /\ call'[t] \in Calls
            /\ call'[t].pc = pc /\ call'[t].type = c.type /\ lit' \in [Pads -> Patterns]
        BY <1>1, <2>1, <3>1, <3>2, SendFacts
      <3>5. TriedHasLed'
        BY <1>2, <3>3, <3>4
      <3>6. QED BY <1>10, <2>1, <3>3, <3>4, <3>5 DEF LedTypeOK, Facts
    <2>4. QED BY <2>2, <2>3
  <1>11. CASE Found(t)
    <2>1. padId' \in HasLed \cup {NoPad}
      BY <1>11 DEF Found, Succeeded, TriedHasLed
    <2>2. QED BY <1>10, <1>11, <2>1 DEF Found
  <1>12. CASE NotFound(t)
    <2>1. padId' \in HasLed \cup {NoPad}
      BY <1>12 DEF NotFound, LedTypeOK
    <2>2. QED BY <1>10, <1>12, <2>1 DEF NotFound
  <1>13. CASE Answered(t)
    <2>1. CASE c.ok
      <3>1. Return(t) /\ led_pattern' = led_pattern /\ c.pc = "sent"
            /\ UNCHANGED <<padId, npad, moved, overlapped>>
        BY <1>13, <2>1 DEF Answered
      <3>2. TriedHasLed'
        BY <1>2, <1>9, <3>1
      <3>3. QED BY <1>9, <3>1, <3>2 DEF LedTypeOK, Facts
    <2>2. CASE ~c.ok
      <3> DEFINE d == [Called(c.type) EXCEPT !.retry = TRUE]
      <3>1. d \in Calls /\ d.pc = "ask" /\ d.type = c.type
        <4>1. Called(c.type) \in Calls /\ Called(c.type).pc = "ask"
              /\ Called(c.type).type = c.type
          BY <1>1, CalledType DEF Called
        <4>2. QED BY <4>1 DEF Calls
      <3>2. GoOn(t, d) /\ led_pattern' = "off" /\ c.pc = "sent"
            /\ UNCHANGED <<padId, npad, moved, overlapped>>
        BY <1>13, <2>2 DEF Answered
      <3>3. Facts(t, d) /\ call'[t] = d /\ lit' = lit
        BY <1>3, <3>1, <3>2
      <3> HIDE DEF d
      <3>4. TriedHasLed'
        BY <1>2, <3>1, <3>3
      <3>5. QED BY <1>4, <3>1, <3>2, <3>3, <3>4 DEF LedTypeOK, Facts
    <2>3. QED BY <1>1, <2>1, <2>2
  <1>14. CASE RetryAnswered(t)
    <2>1. TriedHasLed'
      BY <1>2, <1>9, <1>14 DEF RetryAnswered
    <2>2. padId' \in HasLed \cup {NoPad}
      BY <1>14 DEF RetryAnswered, LedTypeOK
    <2>3. QED BY <1>9, <1>14, <2>1, <2>2 DEF RetryAnswered, LedTypeOK, Facts
  <1>15. QED BY <1>5, <1>6, <1>7, <1>8, <1>11, <1>12, <1>13, <1>14 DEF LedStep

LEMMA BeginTypes ==
  ASSUME LedTypes, NEW t \in Threads, NEW type \in Patterns, SetLedPattern(t, type)
  PROVE  /\ LedTypeOK' /\ TriedHasLed'
         /\ Facts(t, call'[t]) /\ call'[t].type = type
         /\ call[t].pc = "none" /\ call'[t].pc # "none"
  <1> USE DEF LedTypes, UsersTypeOK
  <1>1. Called(type) \in Calls /\ Called(type).pc = "ask" /\ Called(type).type = type
    BY CalledType DEF Called
  <1>2. "off" \in Patterns /\ HasLed \subseteq Pads
    BY NotifLedAssumption DEF NotifLedAssumption
  <1>3. /\ ~InCall(t) /\ moved' \subseteq Threads /\ overlapped' \in BOOLEAN
        /\ UNCHANGED <<padId, npad>>
    BY DEF SetLedPattern, LedTypeOK
  <1>4. CASE NeedsSearch
    <2>1. GoOn(t, Called(type)) /\ led_pattern' = "off"
      BY <1>4 DEF SetLedPattern
    <2>2. Facts(t, Called(type)) /\ call'[t] = Called(type) /\ lit' = lit
      BY <1>1, <2>1, GoOnFacts DEF Facts
    <2>3. TriedHasLed'
      BY <1>1, <2>2 DEF Facts, TriedHasLed
    <2>4. QED BY <1>1, <1>2, <1>3, <2>1, <2>2, <2>3 DEF LedTypeOK, Facts, InCall
  <1>5. CASE ~NeedsSearch
    <2>1. SendPattern(t, Called(type), padId, type, "sent") /\ led_pattern' = type
      BY <1>5 DEF SetLedPattern
    <2>2. padId \in Pads
      BY <1>2, <1>5 DEF NeedsSearch, LedTypeOK
    <2>3. /\ Facts(t, call'[t]) /\ call'[t] \in Calls /\ call'[t].pc = "sent"
          /\ call'[t].type = type /\ lit' \in [Pads -> Patterns]
      BY <1>1, <2>1, <2>2, SendFacts DEF Labels
    <2>4. TriedHasLed'
      BY <2>3 DEF Facts, TriedHasLed
    <2>5. QED BY <1>3, <2>1, <2>3, <2>4 DEF LedTypeOK, Facts, InCall
  <1>6. QED BY <1>4, <1>5

LEMMA ResumeTypes ==
  ASSUME LedTypes, NEW t \in Threads, Resume(t)
  PROVE  /\ LedTypeOK' /\ TriedHasLed'
         /\ Facts(t, call'[t])
         /\ call[t].pc = "returned" /\ call'[t].pc = "none"
  <1> DEFINE d == [Called("off") EXCEPT !.pc = "none"]
  <1>1. d \in Calls /\ d.pc = "none"
    <2>1. Called("off") \in Calls
      BY CalledType, NotifLedAssumption DEF NotifLedAssumption
    <2>2. QED BY <2>1 DEF Calls
  <1>2. call' = [call EXCEPT ![t] = d] /\ call[t].pc = "returned"
    BY DEF Resume
  <1> HIDE DEF d
  <1>3. Facts(t, d) /\ call'[t] = d
    BY <1>1, <1>2 DEF Facts, LedTypes, UsersTypeOK, LedTypeOK
  <1>4. TriedHasLed'
    BY <1>1, <1>3 DEF Facts, TriedHasLed, LedTypes
  <1>5. QED BY <1>1, <1>2, <1>3, <1>4
            DEF Facts, Resume, LedTypes, UsersTypeOK, LedTypeOK

LEMMA MoveTypes ==
  ASSUME LedTypes, NEW p \in Pads, NEW n \in 0..MAX_PADS, MovePad(p, n)
  PROVE  LedTypeOK' /\ TriedHasLed' /\ call' = call
  <1>1. "off" \in Patterns
    BY NotifLedAssumption DEF NotifLedAssumption
  <1>2. Callers \subseteq Threads
    BY DEF Callers
  <1>3. QED BY <1>1, <1>2 DEF MovePad, LedTypes, UsersTypeOK, LedTypeOK, TriedHasLed

LEMMA TypesInit == UsersInit => LedTypes
  <1> SUFFICES ASSUME UsersInit PROVE LedTypes
    OBVIOUS
  <1> USE DEF UsersInit, LedInit
  <1>1. "off" \in Patterns
    BY NotifLedAssumption DEF NotifLedAssumption
  <1> DEFINE d == [Called("off") EXCEPT !.pc = "none"]
  <1>2. d \in Calls /\ d.pc = "none"
    <2>1. Called("off") \in Calls
      BY <1>1, CalledType
    <2>2. QED BY <2>1 DEF Calls
  <1>3. call = [t \in Threads |-> d]
    OBVIOUS
  <1> HIDE DEF d
  <1>4. \A t \in Threads : call[t] = d
    BY <1>3
  <1>5. LedTypeOK
    BY <1>1, <1>2, <1>3 DEF LedTypeOK
  <1>6. TriedHasLed
    BY <1>2, <1>4 DEF TriedHasLed
  <1>7. CallersInStep
    BY <1>2, <1>4, LedUsersAssumption DEF CallersInStep, LedUsersAssumption
  <1>8. QED BY <1>5, <1>6, <1>7, LedUsersAssumption DEF LedTypes, UsersTypeOK, LedUsersAssumption

LEMMA TypesStep ==
  ASSUME LedTypes, [UsersNext]_userVars
  PROVE  LedTypes'
  <1> USE DEF LedTypes
  <1>1. /\ Threads = {"rec", "play", "main"} /\ MaxMoves \in Nat
        /\ "solid" \in Patterns /\ "breathing" \in Patterns /\ "off" \in Patterns
    BY LedUsersAssumption, NotifLedAssumption DEF LedUsersAssumption, NotifLedAssumption
  <1>2. UsersTypeOK /\ CallersInStep
    OBVIOUS
  <1>3. \A t \in Threads, type \in Patterns : SetLedPattern(t, type) =>
          /\ LedTypeOK' /\ TriedHasLed'
          /\ call'[t].type = type /\ call[t].pc = "none" /\ call'[t].pc # "none"
          /\ \A s \in Threads : s # t => call'[s] = call[s]
    BY BeginTypes DEF Facts
  <1>4. \A t \in Threads : Resume(t) =>
          /\ LedTypeOK' /\ TriedHasLed'
          /\ call[t].pc = "returned" /\ call'[t].pc = "none"
          /\ \A s \in Threads : s # t => call'[s] = call[s]
    BY ResumeTypes DEF Facts
  <1> HIDE DEF LedTypes
  <1>5. CASE StartRecording
    BY <1>1, <1>2, <1>3, <1>5 DEF StartRecording, UsersTypeOK, CallersInStep, LedTypes
  <1>6. CASE StopRecording
    BY <1>1, <1>2, <1>3, <1>6 DEF StopRecording, UsersTypeOK, CallersInStep, LedTypes
  <1>7. CASE StartPlaying
    BY <1>1, <1>2, <1>3, <1>7 DEF StartPlaying, UsersTypeOK, CallersInStep, LedTypes
  <1>8. CASE EndReading
    BY <1>1, <1>2, <1>8 DEF EndReading, ledVars, UsersTypeOK, LedTypeOK, TriedHasLed,
                            CallersInStep, LedTypes
  <1>9. CASE EndWriting
    BY <1>1, <1>2, <1>3, <1>9 DEF EndWriting, UsersTypeOK, CallersInStep, LedTypes
  <1>10. CASE Exit
    BY <1>1, <1>2, <1>10 DEF Exit, ledVars, UsersTypeOK, LedTypeOK, TriedHasLed,
                             CallersInStep, LedTypes
  <1>11. CASE ExitLed
    BY <1>1, <1>2, <1>3, <1>11 DEF ExitLed, UsersTypeOK, CallersInStep, LedTypes
  <1>12. CASE RecorderResumes
    BY <1>1, <1>2, <1>4, <1>12 DEF RecorderResumes, UsersTypeOK, CallersInStep, LedTypes
  <1>13. CASE PlayerResumes
    BY <1>1, <1>2, <1>4, <1>13 DEF PlayerResumes, UsersTypeOK, CallersInStep, LedTypes
  <1>14. CASE MainResumes
    BY <1>1, <1>2, <1>4, <1>14 DEF MainResumes, UsersTypeOK, CallersInStep, LedTypes
  <1>15. CASE \E t \in Threads : Led(t)
    <2>1. PICK t \in Threads : LedStep(t) /\ UNCHANGED <<users, moves>>
      BY <1>15 DEF Led
    <2>2. /\ LedTypeOK' /\ TriedHasLed'
          /\ \A s \in Threads : s # t => call'[s] = call[s]
          /\ call'[t].type = call[t].type
          /\ call[t].pc # "none" /\ call'[t].pc # "none"
      BY <2>1, StepTypes DEF Facts
    <2>3. \A s \in Threads : /\ call'[s].type = call[s].type
                             /\ (call'[s].pc = "none" <=> call[s].pc = "none")
      BY <2>2
    <2>4. CallersInStep'
      BY <1>1, <1>2, <2>1, <2>3 DEF CallersInStep, users
    <2>5. QED BY <1>2, <2>1, <2>2, <2>4 DEF users, UsersTypeOK, LedTypes
  <1>16. CASE \E p \in Pads : PadMoves(p)
    <2>1. PICK p \in Pads, n \in 0..MAX_PADS : PadMoves(p) /\ MovePad(p, n)
      BY <1>16 DEF PadMoves
    <2>2. LedTypeOK' /\ TriedHasLed' /\ call' = call
      BY <2>1, MoveTypes
    <2>3. moves' \in 0..MaxMoves /\ UNCHANGED users
      BY <1>1, <1>2, <2>1 DEF PadMoves, UsersTypeOK
    <2>4. CallersInStep'
      BY <1>2, <2>2, <2>3 DEF CallersInStep, users
    <2>5. QED BY <1>2, <2>2, <2>3, <2>4 DEF users, UsersTypeOK, LedTypes
  <1>17. CASE UNCHANGED userVars
    BY <1>2, <1>17 DEF userVars, users, ledVars, UsersTypeOK, LedTypeOK, TriedHasLed,
                       CallersInStep, LedTypes
  <1>18. QED BY <1>5, <1>6, <1>7, <1>8, <1>9, <1>10, <1>11, <1>12, <1>13, <1>14, <1>15,
                <1>16, <1>17 DEF UsersNext

-----------------------------------------------------------------------------
(* What is lit                                                             *)

(* The facts about pads that the steps below rest on.                      *)
LEMMA LedPadFacts ==
  ASSUME LedTypeOK
  PROVE  /\ LedPads \subseteq HasLed /\ HasLed \subseteq Pads /\ NoPad \notin HasLed
         /\ \A p \in LedPads : npad[p] \in 1..MAX_PADS
         /\ \A p \in Pads : Accepts(p) <=> p \in LedPads
         /\ MAX_PADS \in Nat \ {0}
  BY NotifLedAssumption DEF LedTypeOK, LedPads, Attached, Accepts, NotifLedAssumption

(* A search that begins has every pad with an LED before it.               *)
LEMMA AllAhead ==
  ASSUME LedTypeOK', NEW t \in Threads, call'[t].i = 1, call'[t].pc = "ask"
  PROVE  (\A p \in LedPads : Ahead(t, p))'
  <1>1. \A p \in LedPads' : npad'[p] \in Nat /\ npad'[p] # 0
    BY NotifLedAssumption DEF LedTypeOK, LedPads, Attached, NotifLedAssumption
  <1>2. \A n \in Nat : n # 0 => n > 1 \/ n = 1
    OBVIOUS
  <1>3. QED BY <1>1, <1>2 DEF Ahead

LEMMA BeginInStep ==
  ASSUME LedInv, ~overlapped, NEW t \in Threads, NEW type \in Patterns,
         SetLedPattern(t, type)
  PROVE  /\ LitIsRemembered' /\ DarkInCall(t)' /\ StillPads(t)'
         /\ type = "off" /\ Dark => Dark'
  <1>1. LedTypes /\ LedTypeOK /\ LitIsRemembered
    BY DEF LedInv, LedTypes, UsersTypeOK, LedInStep
  <1>2. UNCHANGED <<padId, npad>> /\ LedPads' = LedPads
    BY DEF SetLedPattern, LedPads, Attached
  <1>3. LedTypeOK'
    BY <1>1, BeginTypes
  <1>4. Called(type) \in Calls /\ Called(type).pc = "ask" /\ Called(type).type = type
        /\ Called(type).i = 1 /\ ~Called(type).retry
    BY CalledType DEF Called
  <1>5. CASE NeedsSearch
    <2>1. GoOn(t, Called(type)) /\ led_pattern' = "off"
      BY <1>5 DEF SetLedPattern
    <2>2. call'[t] = Called(type) /\ lit' = lit
      BY <1>1, <1>4, <2>1, GoOnFacts DEF Facts
    <2>3. Dark'
      BY <1>1, <1>2, <1>5, <2>2, LedPadFacts DEF NeedsSearch, LitIsRemembered, Dark
    <2>4. DarkInCall(t)'
      BY <1>2, <1>4, <1>5, <2>1, <2>2, <2>3 DEF DarkInCall, NeedsSearch
    <2>5. (\A p \in LedPads : Ahead(t, p))'
      BY <1>3, <1>4, <2>2, AllAhead
    <2>6. StillPads(t)'
      BY <1>4, <2>2, <2>5 DEF StillPads
    <2>7. QED BY <2>3, <2>4, <2>6 DEF LitIsRemembered, Dark
  <1>6. CASE ~NeedsSearch
    <2>1. SendPattern(t, Called(type), padId, type, "sent")
      BY <1>6 DEF SetLedPattern
    <2>2. padId \in Pads
      BY <1>1, <1>6, LedPadFacts DEF NeedsSearch, LedTypeOK
    <2>3. /\ call'[t].pc = "sent" /\ call'[t].ok = Accepts(padId)
          /\ call'[t].type = type /\ call'[t].retry = Called(type).retry
          /\ \A q \in Pads : lit'[q] = IF q = padId /\ Accepts(padId) THEN type ELSE lit[q]
      BY <1>1, <1>4, <2>1, <2>2, SendFacts DEF Labels
    <2>4. Accepts(padId) <=> padId \in LedPads
      BY <1>1, <2>2, LedPadFacts
    <2>5. \A q \in LedPads : q \in Pads
      BY <1>1, LedPadFacts
    <2>6. LitIsRemembered'
      BY <1>1, <1>2, <2>3, <2>5 DEF LitIsRemembered
    <2>7. (~Accepts(padId) => Dark') /\ (type = "off" => Dark')
      BY <1>1, <1>2, <2>3, <2>4, <2>5 DEF LitIsRemembered, Dark
    <2>8. DarkInCall(t)'
      BY <1>4, <2>3, <2>7 DEF DarkInCall, Searches
    <2>9. StillPads(t)'
      BY <1>2, <2>3, <2>4, <2>2 DEF StillPads, Searches
    <2>10. QED BY <2>6, <2>7, <2>8, <2>9
  <1>7. QED BY <1>5, <1>6

LEMMA StepInStep ==
  ASSUME LedInv, ~overlapped, NEW t \in Threads, LedStep(t)
  PROVE  /\ LitIsRemembered' /\ DarkInCall(t)' /\ (t \notin moved => StillPads(t)')
         /\ call[t].type = "off" /\ Dark => Dark'
  <1> DEFINE c == call[t]
  <1>1. LedTypes /\ LedTypeOK /\ LitIsRemembered /\ DarkInCall(t)
        /\ (t \notin moved => StillPads(t))
    BY DEF LedInv, LedTypes, UsersTypeOK, LedInStep
  <1>2. npad' = npad /\ LedPads' = LedPads
    BY DEF LedStep, GetUniquePads, TryPad, NextNpad, TriedFails, Found, NotFound, Answered,
           RetryAnswered, LedPads, Attached
  <1>3. c \in Calls /\ c.pc \in Labels /\ c.type \in Patterns /\ c.i \in 1..MAX_PADS
        /\ c.todo \subseteq Pads /\ c.ok \in BOOLEAN /\ c.retry \in BOOLEAN
    BY <1>1 DEF LedTypeOK, Calls, Labels
  <1>4. /\ LedPads \subseteq HasLed /\ HasLed \subseteq Pads /\ NoPad \notin HasLed
        /\ \A p \in LedPads : npad[p] \in 1..MAX_PADS
        /\ \A p \in Pads : Accepts(p) <=> p \in LedPads
        /\ MAX_PADS \in Nat \ {0}
    BY <1>1, LedPadFacts
  <1>5. \A d \in Calls : GoOn(t, d) => call'[t] = d /\ lit' = lit
    BY <1>1, GoOnFacts DEF Facts
  <1>6. LedTypeOK' /\ call'[t] \in Calls
    BY <1>1, StepTypes DEF Facts
  <1>7. led_pattern \in Patterns /\ padId \in HasLed \cup {NoPad}
    BY <1>1 DEF LedTypeOK
  <1>8. Dark' => LitIsRemembered'
    BY DEF Dark, LitIsRemembered
  <1>9. lit' = lit => (Dark => Dark')
    BY <1>2 DEF Dark
  (* The search *)
  <1>10. CASE GetUniquePads(t)
    <2> DEFINE d == [c EXCEPT !.pc = "try", !.todo = {p \in Pads : npad[p] = c.i}]
    <2>1. /\ d \in Calls /\ d.pc = "try" /\ d.type = c.type /\ d.i = c.i /\ d.retry = c.retry
          /\ d.todo = {p \in Pads : npad[p] = c.i}
      BY <1>3 DEF Calls
    <2>2. GoOn(t, d) /\ c.pc = "ask" /\ UNCHANGED <<led_pattern, padId>>
      BY <1>10 DEF GetUniquePads
    <2>3. call'[t] = d /\ lit' = lit
      BY <1>5, <2>1, <2>2
    <2> HIDE DEF d
    <2>4. Searches(t) /\ led_pattern = "off" /\ Dark
      BY <1>1, <2>2 DEF DarkInCall, Searches
    <2>5. DarkInCall(t)'
      BY <1>1, <1>9, <2>1, <2>2, <2>3, <2>4 DEF DarkInCall, Searches
    <2>6. ASSUME t \notin moved PROVE StillPads(t)'
      <3>1. \A p \in LedPads : Ahead(t, p)
        BY <1>1, <2>4, <2>6 DEF StillPads
      <3>2. \A p \in LedPads : Ahead(t, p)'
        BY <1>2, <1>4, <2>1, <2>2, <2>3, <3>1 DEF Ahead
      <3>3. QED BY <1>2, <2>1, <2>3, <3>2 DEF StillPads
    <2>7. QED BY <1>8, <1>9, <2>3, <2>4, <2>5, <2>6
  <1>11. CASE TryPad(t)
    <2>1. PICK p \in c.todo :
            SendPattern(t, [c EXCEPT !.todo = @ \ {p}], p, led_pattern, "tried")
      BY <1>11 DEF TryPad
    <2> DEFINE d == [c EXCEPT !.todo = @ \ {p}]
    <2>2. /\ d \in Calls /\ d.type = c.type /\ d.i = c.i /\ d.retry = c.retry
          /\ d.todo = c.todo \ {p} /\ p \in Pads
      BY <1>3 DEF Calls
    <2>3. SendPattern(t, d, p, led_pattern, "tried")
      BY <2>1
    <2> HIDE DEF d
    <2>4. /\ call'[t].pc = "tried" /\ call'[t].pad = p /\ call'[t].ok = Accepts(p)
          /\ call'[t].i = c.i /\ call'[t].todo = c.todo \ {p} /\ call'[t].retry = c.retry
          /\ \A q \in Pads : lit'[q] = IF q = p /\ Accepts(p) THEN led_pattern ELSE lit[q]
      BY <1>1, <1>7, <2>2, <2>3, SendFacts DEF Labels
    <2>5. c.pc = "try" /\ UNCHANGED <<led_pattern, padId>>
      BY <1>11 DEF TryPad
    <2>6. Searches(t) /\ led_pattern = "off" /\ Dark
      BY <1>1, <2>5 DEF DarkInCall, Searches
    <2>7. Dark'
      BY <1>2, <1>4, <2>4, <2>6 DEF Dark
    <2>8. DarkInCall(t)'
      BY <1>1, <2>4, <2>5, <2>6, <2>7 DEF DarkInCall, Searches
    <2>9. ASSUME t \notin moved PROVE StillPads(t)'
      <3>1. \A q \in LedPads : Ahead(t, q)
        BY <1>1, <2>6, <2>9 DEF StillPads
      <3>2. \A q \in LedPads : Ahead(t, q)'
        BY <1>2, <1>4, <2>2, <2>4, <2>5, <3>1 DEF Ahead
      <3>3. call'[t].ok => call'[t].pad \in LedPads
        BY <1>4, <2>2, <2>4
      <3>4. QED BY <1>2, <2>4, <3>2, <3>3 DEF StillPads
    <2>10. QED BY <1>8, <2>7, <2>8, <2>9
  <1>12. CASE NextNpad(t)
    <2> DEFINE d == [c EXCEPT !.pc = "ask", !.i = @ + 1]
    <2>1. c.pc = "try" /\ c.todo = {} /\ c.i < MAX_PADS /\ GoOn(t, d)
          /\ UNCHANGED <<led_pattern, padId>>
      BY <1>12 DEF NextNpad
    <2>2. c.i + 1 \in 1..MAX_PADS
      BY <1>3, <1>4, <2>1
    <2>3. /\ d \in Calls /\ d.pc = "ask" /\ d.type = c.type /\ d.i = c.i + 1
          /\ d.retry = c.retry
      BY <1>3, <2>2 DEF Calls
    <2>4. call'[t] = d /\ lit' = lit
      BY <1>5, <2>1, <2>3
    <2> HIDE DEF d
    <2>5. Searches(t) /\ led_pattern = "off" /\ Dark
      BY <1>1, <2>1 DEF DarkInCall, Searches
    <2>6. DarkInCall(t)'
      BY <1>1, <1>9, <2>1, <2>3, <2>4, <2>5 DEF DarkInCall, Searches
    <2>7. ASSUME t \notin moved PROVE StillPads(t)'
      <3>1. \A p \in LedPads : Ahead(t, p)
        BY <1>1, <2>5, <2>7 DEF StillPads
      <3>2. \A p \in LedPads : npad[p] > c.i
        BY <2>1, <3>1 DEF Ahead
      <3>3. \A p \in LedPads : npad[p] > c.i + 1 \/ npad[p] = c.i + 1
        BY <1>3, <1>4, <3>2
      <3>4. \A p \in LedPads : Ahead(t, p)'
        BY <1>2, <2>3, <2>4, <3>3 DEF Ahead
      <3>5. QED BY <1>2, <2>3, <2>4, <3>4 DEF StillPads
    <2>8. QED BY <1>8, <1>9, <2>4, <2>5, <2>6, <2>7
  <1>13. CASE TriedFails(t)
    <2> DEFINE d == [c EXCEPT !.pc = "try"]
    <2>1. c.pc = "tried" /\ ~c.ok /\ GoOn(t, d) /\ UNCHANGED <<led_pattern, padId>>
      BY <1>13 DEF TriedFails
    <2>2. /\ d \in Calls /\ d.pc = "try" /\ d.type = c.type /\ d.i = c.i
          /\ d.retry = c.retry /\ d.todo = c.todo
      BY <1>3 DEF Calls
    <2>3. call'[t] = d /\ lit' = lit
      BY <1>5, <2>1, <2>2
    <2> HIDE DEF d
    <2>4. Searches(t) /\ led_pattern = "off" /\ Dark
      BY <1>1, <2>1 DEF DarkInCall, Searches
    <2>5. DarkInCall(t)'
      BY <1>1, <1>9, <2>1, <2>2, <2>3, <2>4 DEF DarkInCall, Searches
    <2>6. ASSUME t \notin moved PROVE StillPads(t)'
      <3>1. \A p \in LedPads : Ahead(t, p)
        BY <1>1, <2>4, <2>6 DEF StillPads
      <3>2. \A p \in LedPads : Ahead(t, p)'
        BY <1>2, <2>1, <2>2, <2>3, <3>1 DEF Ahead
      <3>3. QED BY <1>2, <2>2, <2>3, <3>2 DEF StillPads
    <2>7. QED BY <1>8, <1>9, <2>3, <2>4, <2>5, <2>6
  (* A request to the pad, and the return *)
  <1>14. ASSUME Return(t)
         PROVE  call'[t].pc = "returned" /\ call'[t].type = c.type
                /\ call'[t].retry = c.retry /\ lit' = lit
    <2> DEFINE d == [c EXCEPT !.pc = "returned"]
    <2>1. d \in Calls /\ d.pc = "returned" /\ d.type = c.type /\ d.retry = c.retry
      BY <1>3 DEF Calls
    <2>2. GoOn(t, d)
      BY <1>14 DEF Return
    <2>3. QED BY <1>5, <2>1, <2>2
  <1>15. ASSUME NEW pc \in Labels, padId' \in Pads, led_pattern' \in Patterns,
                SendPattern(t, c, padId', led_pattern', pc)
         PROVE  /\ call'[t].pc = pc /\ call'[t].ok = Accepts(padId')
                /\ call'[t].type = c.type /\ call'[t].retry = c.retry
                /\ \A q \in Pads :
                     lit'[q] = IF q = padId' /\ Accepts(padId') THEN led_pattern' ELSE lit[q]
    BY <1>1, <1>3, <1>15, SendFacts
  <1>16. CASE Found(t)
    <2>1. c.pc = "tried" /\ c.ok /\ padId' = c.pad /\ AfterInitPad(t)
      BY <1>16 DEF Found, Succeeded
    <2>2. Searches(t) /\ led_pattern = "off" /\ Dark
      BY <1>1, <2>1 DEF DarkInCall, Searches
    <2>3. padId' \in HasLed /\ padId' \in Pads /\ padId' # NoPad
      BY <1>1, <1>4, <2>1 DEF LedTypes, TriedHasLed
    <2>4. led_pattern' = (IF c.retry THEN "off" ELSE c.type) /\ led_pattern' \in Patterns
      BY <1>3, <1>7, <2>1, <2>2 DEF AfterInitPad, PatternAfter
    <2> DEFINE pc == IF c.retry THEN "resent" ELSE "sent"
    <2>5. SendPattern(t, c, padId', led_pattern', pc) /\ pc \in Labels
      BY <2>1, <2>3 DEF AfterInitPad, Labels
    <2>6. (pc = "resent" <=> c.retry) /\ (pc = "sent" <=> ~c.retry) /\ pc \in {"sent", "resent"}
      BY <1>3
    <2> HIDE DEF pc
    <2>7. /\ call'[t].pc = pc /\ call'[t].ok = Accepts(padId')
          /\ call'[t].type = c.type /\ call'[t].retry = c.retry
          /\ \A q \in Pads :
               lit'[q] = IF q = padId' /\ Accepts(padId') THEN led_pattern' ELSE lit[q]
      BY <1>15, <2>3, <2>4, <2>5
    <2>8. LitIsRemembered'
      BY <1>2, <1>4, <2>2, <2>7 DEF LitIsRemembered, Dark
    <2>9. ~Accepts(padId') \/ led_pattern' = "off" => Dark'
      BY <1>2, <1>4, <2>2, <2>7 DEF Dark
    <2>10. DarkInCall(t)'
      BY <2>4, <2>6, <2>7, <2>9 DEF DarkInCall, Searches
    <2>11. ASSUME t \notin moved PROVE StillPads(t)'
      <3>1. padId' \in LedPads
        BY <1>1, <2>1, <2>11 DEF StillPads
      <3>2. Accepts(padId') /\ lit'[padId'] = led_pattern'
        BY <1>4, <2>3, <2>7, <3>1
      <3>3. QED BY <1>2, <2>4, <2>6, <2>7, <3>1, <3>2 DEF StillPads, Searches
    <2>12. QED BY <2>4, <2>8, <2>9, <2>10, <2>11
  <1>17. CASE NotFound(t)
    <2>1. c.pc = "try" /\ c.todo = {} /\ c.i = MAX_PADS /\ padId' = padId /\ AfterInitPad(t)
      BY <1>17 DEF NotFound
    <2>2. Searches(t) /\ led_pattern = "off" /\ Dark /\ (~c.retry => padId = NoPad)
      BY <1>1, <2>1 DEF DarkInCall, Searches
    <2>3. t \notin moved => LedPads = {}
      <3>1. \A p \in LedPads : ~Ahead(t, p)
        BY <1>4, <2>1 DEF Ahead
      <3>2. QED BY <1>1, <2>2, <3>1 DEF StillPads
    <2>4. CASE padId = NoPad
      <3>1. Return(t)
        BY <2>1, <2>4 DEF AfterInitPad
      <3>2. Dark'
        BY <1>9, <1>14, <2>2, <3>1
      <3>3. DarkInCall(t)'
        BY <1>14, <3>1, <3>2 DEF DarkInCall, Searches
      <3>4. t \notin moved => StillPads(t)'
        BY <1>2, <1>14, <2>3, <3>1 DEF StillPads, Searches
      <3>5. QED BY <1>8, <3>2, <3>3, <3>4
    <2>5. CASE padId # NoPad
      <3>1. c.retry /\ padId' \in Pads /\ led_pattern' = "off" /\ led_pattern' \in Patterns
        BY <1>4, <1>7, <2>1, <2>2, <2>5 DEF AfterInitPad, PatternAfter
      <3>2. SendPattern(t, c, padId', led_pattern', "resent") /\ "resent" \in Labels
        BY <2>1, <2>5, <3>1 DEF AfterInitPad, Labels
      <3>3. /\ call'[t].pc = "resent" /\ call'[t].ok = Accepts(padId')
            /\ call'[t].type = c.type /\ call'[t].retry = c.retry
            /\ \A q \in Pads :
                 lit'[q] = IF q = padId' /\ Accepts(padId') THEN led_pattern' ELSE lit[q]
        BY <1>15, <3>1, <3>2
      <3>4. Dark'
        BY <1>2, <1>4, <2>2, <3>1, <3>3 DEF Dark
      <3>5. DarkInCall(t)'
        BY <3>1, <3>3, <3>4 DEF DarkInCall, Searches
      <3>6. t \notin moved => StillPads(t)'
        BY <1>2, <2>3, <3>3 DEF StillPads, Searches
      <3>7. QED BY <1>8, <3>4, <3>5, <3>6
    <2>6. QED BY <2>4, <2>5
  (* The answers *)
  <1>18. CASE Answered(t)
    <2>1. c.pc = "sent" /\ padId' = padId
      BY <1>18 DEF Answered
    <2>2. ~c.retry /\ (~c.ok \/ c.type = "off" => Dark)
      BY <1>1, <2>1 DEF DarkInCall
    <2>3. CASE c.ok
      <3>1. Return(t)
        BY <1>18, <2>3 DEF Answered
      <3>2. LitIsRemembered'
        BY <1>1, <1>2, <1>14, <2>1, <3>1 DEF LitIsRemembered
      <3>3. DarkInCall(t)'
        BY <1>9, <1>14, <2>2, <3>1 DEF DarkInCall, Searches
      <3>4. ASSUME t \notin moved PROVE StillPads(t)'
        <4>1. padId' \in LedPads' /\ lit'[padId'] = c.type
          BY <1>1, <1>2, <1>14, <2>1, <2>3, <3>1, <3>4 DEF StillPads
        <4>2. Shows(c.type)'
          BY <1>14, <3>1, <3>2, <4>1 DEF Shows, LitIsRemembered
        <4>3. QED BY <1>14, <2>2, <3>1, <4>2 DEF StillPads, Searches
      <3>5. QED BY <1>9, <1>14, <3>1, <3>2, <3>3, <3>4
    <2>4. CASE ~c.ok
      <3> DEFINE d == [Called(c.type) EXCEPT !.retry = TRUE]
      <3>1. d \in Calls /\ d.pc = "ask" /\ d.i = 1 /\ d.retry
        <4>1. Called(c.type) \in Calls /\ Called(c.type).pc = "ask" /\ Called(c.type).i = 1
          BY <1>3, CalledType DEF Called
        <4>2. QED BY <4>1 DEF Calls
      <3>2. GoOn(t, d) /\ led_pattern' = "off"
        BY <1>18, <2>4 DEF Answered
      <3>3. call'[t] = d /\ lit' = lit
        BY <1>5, <3>1, <3>2
      <3> HIDE DEF d
      <3>4. Dark'
        BY <1>9, <2>2, <2>4, <3>3
      <3>5. DarkInCall(t)'
        BY <3>1, <3>2, <3>3, <3>4 DEF DarkInCall, Searches
      <3>6. (\A p \in LedPads : Ahead(t, p))'
        BY <1>6, <3>1, <3>3, AllAhead
      <3>7. StillPads(t)'
        BY <3>1, <3>3, <3>6 DEF StillPads
      <3>8. QED BY <1>8, <3>4, <3>5, <3>7
    <2>5. QED BY <1>3, <2>3, <2>4
  <1>19. CASE RetryAnswered(t)
    <2>1. c.pc = "resent" /\ Return(t) /\ padId' = IF c.ok THEN padId ELSE NoPad
      BY <1>19 DEF RetryAnswered
    <2>2. c.retry /\ Dark
      BY <1>1, <2>1 DEF DarkInCall
    <2>3. Dark'
      BY <1>9, <1>14, <2>1, <2>2
    <2>4. DarkInCall(t)'
      BY <1>14, <2>1, <2>3 DEF DarkInCall, Searches
    <2>5. ASSUME t \notin moved PROVE StillPads(t)'
      <3>1. LedPads # {} => padId' \in LedPads
        BY <1>1, <2>1, <2>5 DEF StillPads
      <3>2. LedPads' # {} => Shows("off")'
        BY <1>2, <2>3, <3>1 DEF Shows, Dark
      <3>3. QED BY <1>14, <2>1, <2>2, <3>2 DEF StillPads, Searches
    <2>6. QED BY <1>8, <2>3, <2>4, <2>5
  <1>20. QED BY <1>10, <1>11, <1>12, <1>13, <1>16, <1>17, <1>18, <1>19 DEF LedStep

(* What holds of a thread that is in no call.                              *)
LEMMA QuietInStep ==
  ASSUME NEW t \in Threads, call[t].pc = "none"
  PROVE  DarkInCall(t) /\ StillPads(t)
  BY DEF DarkInCall, StillPads, Searches

(* Pads that move only get darker, and spoil what is known of the calls.   *)
LEMMA MoveInStep ==
  ASSUME LedInv, ~overlapped, NEW p \in Pads, NEW n \in 0..MAX_PADS, MovePad(p, n)
  PROVE  /\ LitIsRemembered' /\ (Dark => Dark')
         /\ \A t \in Threads : DarkInCall(t)' /\ (t \notin moved' => StillPads(t)')
  <1>1. LedTypes /\ LedTypeOK /\ LitIsRemembered /\ \A t \in Threads : DarkInCall(t)
    BY DEF LedInv, LedTypes, UsersTypeOK, LedInStep
  <1>2. \A q \in LedPads' : lit'[q] = "off" \/ (q \in LedPads /\ lit'[q] = lit[q])
    BY <1>1 DEF MovePad, LedPads, Attached, LedTypeOK
  <1>3. UNCHANGED <<call, padId, led_pattern>> /\ moved' = moved \cup Callers
    BY DEF MovePad
  <1>4. LitIsRemembered' /\ (Dark => Dark')
    BY <1>1, <1>2, <1>3 DEF LitIsRemembered, Dark
  <1>5. ASSUME NEW t \in Threads PROVE DarkInCall(t)' /\ (t \notin moved' => StillPads(t)')
    <2>1. DarkInCall(t)'
      BY <1>1, <1>3, <1>4 DEF DarkInCall, Searches
    <2>2. t \notin moved' => call'[t].pc = "none"
      BY <1>3 DEF Callers, InCall
    <2>3. QED BY <2>1, <2>2 DEF StillPads, Searches
  <1>6. QED BY <1>4, <1>5

LEMMA LedInvInit == UsersInit => LedInv
  <1> SUFFICES ASSUME UsersInit PROVE LedInv
    OBVIOUS
  <1>1. LedTypes
    BY TypesInit
  <1>2. \A t \in Threads : call[t].pc = "none"
    <2> DEFINE d == [Called("off") EXCEPT !.pc = "none"]
    <2>1. d.pc = "none"
      BY DEF Called
    <2>2. call = [t \in Threads |-> d]
      BY DEF UsersInit, LedInit
    <2> HIDE DEF d
    <2>3. QED BY <2>1, <2>2
  <1>3. Dark /\ LitIsRemembered
    BY DEF UsersInit, LedInit, Dark, LitIsRemembered, LedPads, Attached
  <1>4. LedInStep
    BY <1>2, <1>3, QuietInStep DEF LedInStep, OneCall, InCall
  <1>5. QED BY <1>1, <1>4 DEF LedInv

LEMMA LedInvStep == LedInv /\ [UsersNext]_userVars => LedInv'
  <1> SUFFICES ASSUME LedInv, [UsersNext]_userVars PROVE LedInv'
    OBVIOUS
  <1>1. LedTypes /\ LedTypes' /\ LedInStep /\ LedTypeOK
    BY TypesStep DEF LedInv, LedTypes, UsersTypeOK
  <1>2. /\ Threads = {"rec", "play", "main"}
        /\ "solid" \in Patterns /\ "breathing" \in Patterns /\ "off" \in Patterns
    BY LedUsersAssumption, NotifLedAssumption DEF LedUsersAssumption, NotifLedAssumption
  <1>3. UsersTypeOK /\ CallersInStep
    BY <1>1 DEF LedTypes
  <1> SUFFICES ASSUME ~overlapped'
               PROVE  /\ OneCall' /\ LitIsRemembered'
                      /\ \A t \in Threads : DarkInCall(t)' /\ (t \notin moved' => StillPads(t)')
                      /\ Idle' \/ main' = "done" => Dark'
    BY <1>1 DEF LedInv, LedInStep
  <1>4. ASSUME NEW t \in Threads, NEW type \in Patterns, SetLedPattern(t, type)
        PROVE  /\ OneCall' /\ LitIsRemembered'
               /\ \A s \in Threads : DarkInCall(s)' /\ (s \notin moved' => StillPads(s)')
               /\ Idle => Dark
               /\ type = "off" /\ Dark => Dark'
    <2>1. Callers = {} /\ ~overlapped
      BY <1>4 DEF SetLedPattern
    <2>2. \A s \in Threads : call[s].pc = "none"
      BY <2>1 DEF Callers, InCall
    <2>3. \A s \in Threads : s # t => call'[s].pc = "none"
      BY <1>1, <1>4, <2>2, BeginTypes DEF Facts
    <2>4. OneCall'
      BY <2>3 DEF OneCall, InCall
    <2>5. /\ LitIsRemembered' /\ DarkInCall(t)' /\ StillPads(t)'
          /\ type = "off" /\ Dark => Dark'
      BY <1>4, <2>1, BeginInStep
    <2>6. \A s \in Threads : s # t => DarkInCall(s)' /\ StillPads(s)'
      BY <2>3 DEF DarkInCall, StillPads, Searches
    <2>7. Idle => Dark
      BY <1>1, <2>1 DEF LedInStep
    <2>8. QED BY <2>4, <2>5, <2>6, <2>7
  <1>5. ASSUME NEW t \in Threads, Resume(t)
        PROVE  /\ OneCall' /\ LitIsRemembered'
               /\ \A s \in Threads : DarkInCall(s)' /\ (s \notin moved' => StillPads(s)')
               /\ call[t].type = "off" => Dark'
    <2>1. ~overlapped /\ UNCHANGED <<led_pattern, padId, npad, lit, moved>>
      BY <1>5 DEF Resume
    <2>2. /\ call[t].pc = "returned" /\ call'[t].pc = "none"
          /\ \A s \in Threads : s # t => call'[s] = call[s]
      BY <1>1, <1>5, ResumeTypes DEF Facts
    <2>3. \A s \in Threads : call'[s].pc = "none"
      BY <1>1, <2>1, <2>2 DEF LedInStep, OneCall, InCall
    <2>4. LedPads' = LedPads
      BY <2>1 DEF LedPads, Attached
    <2>5. LitIsRemembered' /\ (Dark => Dark')
      BY <1>1, <2>1, <2>4 DEF LedInStep, LitIsRemembered, Dark
    <2>6. call[t].type = "off" => Dark
      BY <1>1, <2>1, <2>2 DEF LedInStep, DarkInCall
    <2>7. OneCall'
      BY <2>3 DEF OneCall, InCall
    <2>8. \A s \in Threads : DarkInCall(s)' /\ StillPads(s)'
      BY <2>3 DEF DarkInCall, StillPads, Searches
    <2>9. QED BY <2>5, <2>6, <2>7, <2>8
  <1>6. ASSUME UNCHANGED ledVars
        PROVE  /\ OneCall' /\ LitIsRemembered'
               /\ \A s \in Threads : DarkInCall(s)' /\ (s \notin moved' => StillPads(s)')
               /\ Dark' = Dark /\ ~overlapped
    <2>1. LedPads' = LedPads /\ ~overlapped
          /\ UNCHANGED <<led_pattern, padId, call, npad, lit, moved>>
      BY <1>6 DEF ledVars, LedPads, Attached
    <2>2. OneCall' /\ LitIsRemembered' /\ Dark' = Dark
      BY <1>1, <2>1 DEF LedInStep, OneCall, InCall, LitIsRemembered, Dark
    <2>3. ASSUME NEW s \in Threads PROVE DarkInCall(s)' /\ (s \notin moved' => StillPads(s)')
      <3>1. DarkInCall(s) /\ (s \notin moved => StillPads(s))
        BY <1>1, <2>1 DEF LedInStep
      <3>2. QED BY <2>1, <2>2, <3>1 DEF DarkInCall, StillPads, Searches, Ahead, Shows
    <2>4. QED BY <2>1, <2>2, <2>3
  <1>7. Idle /\ ~overlapped => Dark
    BY <1>1 DEF LedInStep
  <1> HIDE DEF LedInv
  <1>8. CASE StartRecording
    <2>1. SetLedPattern("rec", "solid") /\ rec' = "solid" /\ main' = main /\ main # "done"
      BY <1>8 DEF StartRecording, Listens
    <2>2. QED BY <1>2, <1>4, <2>1 DEF Idle
  <1>9. CASE StopRecording
    <2>1. SetLedPattern("rec", "off") /\ rec' = "off" /\ main' = main /\ main # "done"
      BY <1>9 DEF StopRecording, Listens
    <2>2. QED BY <1>2, <1>4, <2>1 DEF Idle
  <1>10. CASE StartPlaying
    <2>1. SetLedPattern("play", "breathing") /\ play' = "breathing" /\ main' = main
          /\ main # "done"
      BY <1>10 DEF StartPlaying, Listens
    <2>2. QED BY <1>2, <1>4, <2>1 DEF Idle
  <1>11. CASE EndWriting /\ main # "done"
    <2>1. SetLedPattern("play", "off") /\ play' = "off" /\ main' = main
      BY <1>11 DEF EndWriting
    <2>2. QED BY <1>2, <1>4, <1>11, <2>1 DEF Idle
  <1>12. CASE ExitLed
    <2>1. SetLedPattern("main", "off") /\ main' = "led" /\ Idle' = Idle
      BY <1>12 DEF ExitLed, Idle
    <2>2. QED BY <1>2, <1>4, <2>1
  <1>13. CASE EndReading /\ main # "done"
    <2>1. UNCHANGED ledVars /\ play' = "writing" /\ main' = main
      BY <1>13 DEF EndReading
    <2>2. QED BY <1>6, <1>13, <2>1 DEF Idle
  <1>14. CASE Exit
    <2>1. UNCHANGED ledVars /\ main' = "exit" /\ Idle' = Idle
      BY <1>14 DEF Exit, Idle
    <2>2. QED BY <1>6, <1>7, <2>1
  <1>15. CASE RecorderResumes /\ main # "done"
    <2>1. Resume("rec") /\ rec' = (IF rec = "solid" THEN "reading" ELSE "none") /\ main' = main
      BY <1>15 DEF RecorderResumes
    <2>2. call["rec"].pc # "none"
      BY <2>1 DEF Resume
    <2>3. rec # "solid" => call["rec"].type = "off"
      BY <1>3, <2>2 DEF CallersInStep
    <2>4. QED BY <1>2, <1>5, <1>15, <2>1, <2>3 DEF Idle
  <1>16. CASE PlayerResumes /\ main # "done"
    <2>1. Resume("play") /\ play' = (IF play = "breathing" THEN "reading" ELSE "none")
          /\ main' = main
      BY <1>16 DEF PlayerResumes
    <2>2. call["play"].pc # "none"
      BY <2>1 DEF Resume
    <2>3. play # "breathing" => call["play"].type = "off"
      BY <1>3, <2>2 DEF CallersInStep
    <2>4. QED BY <1>2, <1>5, <1>16, <2>1, <2>3 DEF Idle
  <1>17. CASE MainResumes
    <2>1. Resume("main") /\ main' = "done"
      BY <1>17 DEF MainResumes
    <2>2. call["main"].pc # "none"
      BY <2>1 DEF Resume
    <2>3. call["main"].type = "off"
      BY <1>3, <2>2 DEF CallersInStep
    <2>4. QED BY <1>2, <1>5, <2>1, <2>3
  <1>18. CASE main # "done" /\ \E t \in Threads : Led(t)
    <2>1. PICK t \in Threads : LedStep(t) /\ UNCHANGED <<users, moves>>
      BY <1>18 DEF Led
    <2>2. UNCHANGED <<moved, overlapped>>
      BY <2>1 DEF LedStep, GetUniquePads, TryPad, NextNpad, TriedFails, Found, NotFound,
                  Answered, RetryAnswered
    <2>3. /\ call[t].pc # "none" /\ call'[t].pc # "none"
          /\ \A s \in Threads : s # t => call'[s] = call[s]
      BY <1>1, <2>1, StepTypes DEF Facts
    <2>4. \A s \in Threads : s # t => call'[s].pc = "none"
      BY <1>1, <2>2, <2>3 DEF LedInStep, OneCall, InCall
    <2>5. /\ LitIsRemembered' /\ DarkInCall(t)' /\ (t \notin moved => StillPads(t)')
          /\ call[t].type = "off" /\ Dark => Dark'
      BY <1>1, <2>1, <2>2, StepInStep DEF LedInv
    <2>6. OneCall'
      BY <2>4 DEF OneCall, InCall
    <2>7. \A s \in Threads : s # t => DarkInCall(s)' /\ StillPads(s)'
      BY <2>4 DEF DarkInCall, StillPads, Searches
    <2>8. Idle' \/ main' = "done" => Idle /\ t = "main"
      BY <1>2, <1>3, <1>18, <2>1, <2>3 DEF users, Idle, CallersInStep
    <2>9. t = "main" => call[t].type = "off"
      BY <1>3, <2>3 DEF CallersInStep
    <2>10. QED BY <1>7, <2>2, <2>5, <2>6, <2>7, <2>8, <2>9
  <1>19. CASE main # "done" /\ \E p \in Pads : PadMoves(p)
    <2>1. PICK p \in Pads, n \in 0..MAX_PADS : PadMoves(p) /\ MovePad(p, n)
      BY <1>19 DEF PadMoves
    <2>2. ~overlapped /\ call' = call /\ UNCHANGED users
      BY <2>1 DEF MovePad, PadMoves
    <2>3. OneCall'
      BY <1>1, <2>2 DEF LedInStep, OneCall, InCall
    <2>4. /\ LitIsRemembered' /\ (Dark => Dark')
          /\ \A t \in Threads : DarkInCall(t)' /\ (t \notin moved' => StillPads(t)')
      BY <1>1, <2>1, <2>2, MoveInStep DEF LedInv
    <2>5. QED BY <1>7, <1>19, <2>2, <2>3, <2>4 DEF users, Idle
  <1>20. CASE UNCHANGED userVars
    <2>1. UNCHANGED ledVars /\ UNCHANGED <<rec, play, main>>
      BY <1>20 DEF userVars, users
    <2>2. Idle \/ main = "done" => Dark
      BY <1>1, <1>6, <2>1 DEF LedInStep
    <2>3. QED BY <1>6, <2>1, <2>2 DEF Idle
  <1>21. QED BY <1>8, <1>9, <1>10, <1>11, <1>12, <1>13, <1>14, <1>15, <1>16, <1>17,
                <1>18, <1>19, <1>20 DEF UsersNext

(* The inductive invariant of the LED: the types, who is in setLedPattern, *)
(* and, as long as no two calls have overlapped, what each of them has     *)
(* reached and what the pads show (notifled.c).                            *)
THEOREM LedInvHolds == UsersSpec => []LedInv
  <1>1. QED BY LedInvInit, LedInvStep, PTL DEF UsersSpec

(* The LED's statics and requests keep their types; in particular the pad  *)
(* that is remembered has an LED (notifled.c).                             *)
THEOREM LedTypeCorrect == UsersSpec => []UsersTypeOK
  <1>1. LedInv => UsersTypeOK
    BY DEF LedInv, LedTypes
  <1>2. QED BY <1>1, LedInvHolds, PTL

(* As long as no two calls of setLedPattern have ever overlapped: a call   *)
(* during which no pad moved finds a pad with an LED, if there is one, and *)
(* shows on it what was asked for, and on no other; a call that had to     *)
(* retry has left it off (notifled.c:70-95).                               *)
THEOREM LedIsShown == UsersSpec => []LedShown
  <1>1. LedInv => LedShown
    BY DEF LedInv, LedInStep, LedShown, Judged, StillPads
  <1>2. QED BY <1>1, LedInvHolds, PTL

(* As long as no two calls of setLedPattern have ever overlapped: when     *)
(* nothing is recorded or played, and after the exit, no pad has its LED   *)
(* lit, however pads came and went (notifled.c, recorder.c, player.c,      *)
(* common.c:77).  After an overlap a pad may stay lit.                     *)
THEOREM DarkWhenNothingRuns == UsersSpec => []DarkWhenIdle
  <1>1. LedInv => DarkWhenIdle
    BY DEF LedInv, LedInStep, DarkWhenIdle, Dark
  <1>2. QED BY <1>1, LedInvHolds, PTL
==============================================================================
