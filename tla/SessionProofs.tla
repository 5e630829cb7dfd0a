----------------------------- MODULE SessionProofs -----------------------------
(***************************************************************************)
(* The safety invariants of Session, for any number of commands and        *)
(* requests, any time to repeat and any delay of a call.                   *)
(***************************************************************************)
EXTENDS Session, TLAPS

(* What TypeOK and TripsAccounted rest on: a turn that requests a round trip *)
(* has one left within the bound, and one that lists it has requested it.    *)
TurnInv ==
    /\ pc[Main] = "request" => requests < MaxRequests
    /\ pc[Main] = "list" => requests > 0

SessionInv ==
    /\ TypeOK
    /\ TurnInv
    /\ TripsAccounted
    /\ RememberedIsSent

(* Taking the next message leaves a sequence of messages, and the message    *)
(* was one (the queue of a TCP socket).                                      *)
LEMMA HeadAndTail ==
    ASSUME NEW S, NEW q \in Seq(S), q # <<>>
    PROVE  Head(q) \in S /\ Tail(q) \in Seq(S)
OBVIOUS

(* The steps of sendCommand() keep the types, on either thread. *)
LEMMA SendCommandType ==
    ASSUME TypeOK, NEW t \in Threads, SendCommandStep(t)
    PROVE  TypeOK'
<1>1. CASE ReadClock(t)
  BY <1>1, SessionAssumption DEF ReadClock, GoTo, TypeOK, PCs, tripVars, peerVars,
      identityVars
<1>2. CASE ReadCommand(t)
  BY <1>2, SessionAssumption DEF ReadCommand, GoTo, TypeOK, PCs, Commands, tripVars, peerVars,
      identityVars
<1>3. CASE Test(t)
  BY <1>3 DEF Test, GoTo, TypeOK, PCs, commandVars, tripVars, peerVars,
      identityVars
<1>4. CASE Stamp(t)
  <2>1. lag[t] \in 0..Long
    BY SessionAssumption DEF TypeOK, Long
  <2>2. QED
    BY <1>4, <2>1 DEF Stamp, GoTo, TypeOK, PCs, tripVars, peerVars,
      identityVars
<1>5. CASE Remember(t)
  BY <1>5 DEF Remember, GoTo, TypeOK, PCs, tripVars, peerVars,
      identityVars
<1>6. CASE SendCommand(t)
  <2>1. Command(command[t]) \in ToClient
    BY DEF ToClient, TypeOK
  <2>2. toClient' \in Seq(ToClient)
    BY <1>6, <2>1 DEF SendCommand, TypeOK
  <2>3. QED
    BY <1>6, <2>2 DEF SendCommand, GoTo, TypeOK, PCs, commandVars, tripVars, peerVars,
      identityVars
<1>7. QED
  BY <1>1, <1>2, <1>3, <1>4, <1>5, <1>6 DEF SendCommandStep

(* Every step keeps the types. *)
LEMMA TypeStep ==
    ASSUME SessionInv, [Next]_vars
    PROVE  TypeOK'
<1> USE DEF SessionInv
<1>1. CASE Tick
  <2>1. since' \in 0..Long
    BY <1>1, SessionAssumption DEF Tick, Later, TypeOK, Long
  <2>2. lag' \in [Threads -> 0..MaxLag]
    BY <1>1, SessionAssumption DEF Tick, TypeOK
  <2>3. QED
    BY <1>1, <2>1, <2>2 DEF Tick, TypeOK, tripVars, peerVars,
      identityVars
<1>2. CASE NewCommand
  BY <1>2, SessionAssumption DEF NewCommand, TypeOK, Commands, commandVars, tripVars, peerVars,
      identityVars
<1>3. CASE Greet
  <2>1. toServer' \in Seq(ToServer)
    BY <1>3 DEF Greet, TypeOK, ToServer
  <2>2. QED
    BY <1>3, <2>1 DEF Greet, TypeOK, commandVars, tripVars, peerVars,
      identityVars
<1>4. CASE ClientReceives
  <2>1. Head(toClient) \in ToClient /\ toClient' \in Seq(ToClient)
    BY <1>4, HeadAndTail DEF ClientReceives, TypeOK
  <2>2. CASE Head(toClient).type = "command"
    <3>1. Head(toClient).n \in Commands
      BY <2>1, <2>2 DEF ToClient, Command, Request
    <3>2. QED
      BY <1>4, <2>1, <2>2, <3>1
      DEF ClientReceives, TypeOK, commandVars, tripVars, peerVars,
      identityVars
  <2>3. CASE Head(toClient).type # "command"
    <3>1. Response(Head(toClient).n) \in ToServer
      BY <2>1, <2>3 DEF ToClient, ToServer, Command, Request
    <3>2. toServer' = Append(toServer, Response(Head(toClient).n))
      BY <1>4, <2>3 DEF ClientReceives
    <3>3. toServer' \in Seq(ToServer)
      BY <3>1, <3>2 DEF TypeOK
    <3>4. QED
      BY <1>4, <2>1, <2>3, <3>3
      DEF ClientReceives, TypeOK, commandVars, tripVars, peerVars,
      identityVars
  <2>4. QED
    BY <2>2, <2>3
<1>5. CASE StartTurn
  BY <1>5 DEF StartTurn, GoTo, TypeOK, PCs, Threads, commandVars, tripVars, peerVars,
      identityVars
<1>6. CASE SendRequest
  <2>1. requests' \in 1..MaxRequests
    BY <1>6, SessionAssumption DEF SendRequest, TypeOK, TurnInv
  <2>2. toClient' \in Seq(ToClient)
    <3>1. Request(requests') \in ToClient
      BY <2>1 DEF ToClient
    <3>2. toClient' = Append(toClient, Request(requests'))
      BY <1>6 DEF SendRequest
    <3>3. QED
      BY <3>1, <3>2 DEF TypeOK
  <2>3. outstanding' \subseteq 1..requests' /\ recorded' \subseteq 1..requests'
    BY <1>6, SessionAssumption DEF SendRequest, TypeOK
  <2>4. requests' \in 0..MaxRequests
    BY <2>1, SessionAssumption
  <2>5. pc' \in [Threads -> PCs]
    BY <1>6 DEF SendRequest, GoTo, TypeOK, PCs
  <2>6. QED
    BY <1>6, <2>2, <2>3, <2>4, <2>5 DEF SendRequest, TypeOK, commandVars, peerVars,
      identityVars
<1>7. CASE ListRequest
  <2>1. requests \in 1..requests
    BY <1>7, SessionAssumption DEF ListRequest, TypeOK, TurnInv
  <2>2. QED
    BY <1>7, <2>1 DEF ListRequest, GoTo, TypeOK, PCs, commandVars, peerVars,
      identityVars
<1>8. CASE \E t \in Threads : SendCommandStep(t)
  BY <1>8, SendCommandType
<1>9. CASE SetName \/ AcceptName \/ RejectName
  <2>1. toServer' \in Seq(ToServer)
    BY <1>9, HeadAndTail DEF SetName, AcceptName, RejectName, Takes, TypeOK
  <2>2. pc' \in [Threads -> PCs]
    BY <1>9 DEF SetName, AcceptName, RejectName, GoTo, TypeOK, PCs
  <2>3. named' \in BOOLEAN /\ identified' \in BOOLEAN /\ listed' \in BOOLEAN
    BY <1>9, Zenon DEF SetName, AcceptName, RejectName, TypeOK
  <2>4. QED
    BY <1>9, <2>1, <2>2, <2>3
    DEF SetName, AcceptName, RejectName, TypeOK, commandVars, tripVars, peerVars
<1>10. CASE RecordTrip
  <2>1. toServer' \in Seq(ToServer)
    BY <1>10, HeadAndTail DEF RecordTrip, Takes, TypeOK
  <2>2. outstanding' \subseteq 1..requests /\ recorded' \subseteq 1..requests
    BY <1>10 DEF RecordTrip, TypeOK
  <2>3. QED
    BY <1>10, <2>1, <2>2 DEF RecordTrip, TypeOK, commandVars, peerVars,
      identityVars
<1>11. CASE UNCHANGED vars
  BY <1>11 DEF vars, TypeOK, commandVars, tripVars, peerVars,
      identityVars
<1>12. QED
  BY <1>1, <1>2, <1>3, <1>4, <1>5, <1>6, <1>7, <1>8, <1>9, <1>10, <1>11
  DEF Next, MainStep, ReceiverStep, Threads

(* sendRTTRequest() is taken up once in a turn: within the bound, and with a *)
(* request sent before one is listed.                                        *)
LEMMA TurnStep ==
    ASSUME SessionInv, [Next]_vars
    PROVE  TurnInv'
<1> USE SessionAssumption DEF SessionInv, TurnInv, TypeOK
<1>1. CASE StartTurn
  BY <1>1 DEF StartTurn, GoTo, Threads, tripVars
<1>2. CASE SendRequest
  BY <1>2 DEF SendRequest, GoTo, Threads
<1>3. CASE ListRequest
  BY <1>3 DEF ListRequest, GoTo, Threads
<1>4. ASSUME NEW t \in Threads, SendCommandStep(t)
      PROVE  TurnInv'
  <2>1. pc'[Main] \notin {"request", "list"} \/ pc'[Main] = pc[Main]
    BY <1>4
    DEF SendCommandStep, ReadClock, ReadCommand, Test, Stamp, Remember, SendCommand,
        GoTo, Threads, tripVars
  <2>2. requests' = requests
    BY <1>4
    DEF SendCommandStep, ReadClock, ReadCommand, Test, Stamp, Remember, SendCommand,
        tripVars
  <2>3. QED
    BY <2>1, <2>2
<1>5. CASE Tick \/ NewCommand \/ Greet \/ ClientReceives \/ UNCHANGED vars
  BY <1>5 DEF Tick, NewCommand, Greet, ClientReceives, vars, tripVars
<1>6. CASE SetName \/ AcceptName \/ RejectName
  BY <1>6 DEF SetName, AcceptName, RejectName, Takes, GoTo, Threads, tripVars
<1>7. CASE RecordTrip
  BY <1>7 DEF RecordTrip
<1>8. QED
  BY <1>1, <1>2, <1>3, <1>4, <1>5, <1>6, <1>7
  DEF Next, MainStep, ReceiverStep, Threads

(* A round trip is in one place whatever the two threads do: the list and    *)
(* the database change hands of it, and an answer that fits nothing is       *)
(* dropped (processMessage(), message_type_rtt_response).                    *)
LEMMA TripsStep ==
    ASSUME SessionInv, [Next]_vars
    PROVE  TripsAccounted'
<1> USE SessionAssumption DEF SessionInv, TurnInv, TypeOK, TripsAccounted
<1>1. CASE StartTurn
  BY <1>1 DEF StartTurn, GoTo, Threads, tripVars
<1>2. CASE SendRequest
  <2>1. pc[Main] = "request" /\ pc'[Main] = "list"
    BY <1>2 DEF SendRequest, GoTo, Threads
  <2>2. requests' = requests + 1 /\ UNCHANGED <<outstanding, recorded>>
    BY <1>2 DEF SendRequest
  <2>3. 1..requests' = (1..requests) \cup {requests'} /\ requests' \notin 1..requests
    BY <2>2
  <2>4. QED
    BY <2>1, <2>2, <2>3
<1>3. CASE ListRequest
  BY <1>3 DEF ListRequest, GoTo, Threads
<1>4. ASSUME NEW t \in Threads, SendCommandStep(t)
      PROVE  TripsAccounted'
  <2>1. (pc'[Main] = "list") <=> (pc[Main] = "list")
    BY <1>4
    DEF SendCommandStep, ReadClock, ReadCommand, Test, Stamp, Remember, SendCommand,
        GoTo, Threads
  <2>2. UNCHANGED tripVars
    BY <1>4
    DEF SendCommandStep, ReadClock, ReadCommand, Test, Stamp, Remember, SendCommand
  <2>3. QED
    BY <2>1, <2>2 DEF tripVars
<1>5. CASE Tick \/ NewCommand \/ Greet \/ ClientReceives \/ UNCHANGED vars
  BY <1>5 DEF Tick, NewCommand, Greet, ClientReceives, vars, tripVars
<1>6. CASE SetName \/ AcceptName \/ RejectName
  BY <1>6 DEF SetName, AcceptName, RejectName, Takes, GoTo, Threads, tripVars
<1>7. CASE RecordTrip
  BY <1>7 DEF RecordTrip
<1>8. QED
  BY <1>1, <1>2, <1>3, <1>4, <1>5, <1>6, <1>7
  DEF Next, MainStep, ReceiverStep, Threads

(* Where a command is that last_command_dbid says was sent. *)
OnItsWay(c) ==
    \/ \E i \in DOMAIN toClient : toClient[i] = Command(c)
    \/ \E t \in Threads : pc[t] = "send" /\ command[t] = c

(* A message in the socket stays there when another follows it. *)
LEMMA AppendKeeps ==
    ASSUME NEW S, NEW q \in Seq(S), NEW m \in S, NEW e,
           \E i \in DOMAIN q : q[i] = e
    PROVE  \E i \in DOMAIN Append(q, m) : Append(q, m)[i] = e
OBVIOUS

(* Taking the first message leaves the others in the socket. *)
LEMMA TailKeeps ==
    ASSUME NEW S, NEW q \in Seq(S), q # <<>>, NEW e, e # Head(q),
           \E i \in DOMAIN q : q[i] = e
    PROVE  \E i \in DOMAIN Tail(q) : Tail(q)[i] = e
<1>1. PICK i \in 1..Len(q) : q[i] = e
  OBVIOUS
<1>2. i # 1
  BY <1>1
<1>3. i - 1 \in 1..Len(Tail(q)) /\ Tail(q)[i - 1] = e
  BY <1>1, <1>2
<1>4. i - 1 \in DOMAIN Tail(q)
  BY <1>3
<1>5. QED
  BY <1>3, <1>4

(* The command that last_command_dbid names is remembered by a thread that   *)
(* goes on to send it: no interleaving of the stores of the two threads      *)
(* loses it (sendCommand(), server.cpp:235-251).                             *)
LEMMA RememberedStep ==
    ASSUME SessionInv, [Next]_vars
    PROVE  RememberedIsSent'
<1> DEFINE d == last_command_dbid
<1> USE DEF SessionInv
<1>1. RememberedIsSent <=> d \in {0} \cup heldEver \/ OnItsWay(d)
  BY DEF RememberedIsSent, OnItsWay
<1>2. RememberedIsSent' <=> d' \in {0} \cup heldEver' \/ OnItsWay(d)'
  BY DEF RememberedIsSent, OnItsWay
<1>3. ASSUME UNCHANGED <<last_command_dbid, heldEver, toClient>>,
             \A t \in Threads : pc[t] = "send" => pc'[t] = "send" /\ command'[t] = command[t]
      PROVE  RememberedIsSent'
  BY <1>1, <1>2, <1>3 DEF OnItsWay
<1>4. CASE Tick \/ NewCommand \/ Greet \/ UNCHANGED vars
  BY <1>3, <1>4 DEF Tick, NewCommand, Greet, vars, commandVars, peerVars
<1>5. CASE StartTurn \/ ListRequest
  BY <1>3, <1>5 DEF StartTurn, ListRequest, GoTo, TypeOK, commandVars, peerVars
<1>6. CASE SetName \/ AcceptName \/ RejectName \/ RecordTrip
  BY <1>3, <1>6
  DEF SetName, AcceptName, RejectName, RecordTrip, Takes, GoTo, TypeOK, commandVars, peerVars
<1>7. ASSUME NEW t \in Threads, ReadClock(t) \/ ReadCommand(t) \/ Test(t) \/ Stamp(t)
      PROVE  RememberedIsSent'
  BY <1>3, <1>7
  DEF ReadClock, ReadCommand, Test, Stamp, GoTo, TypeOK, commandVars, peerVars
<1>8. ASSUME NEW t \in Threads, Remember(t)
      PROVE  RememberedIsSent'
  <2>1. pc'[t] = "send" /\ command'[t] = d'
    BY <1>8 DEF Remember, GoTo, TypeOK
  <2>2. QED
    BY <1>2, <2>1 DEF OnItsWay
<1>9. ASSUME NEW t \in Threads, SendCommand(t)
      PROVE  RememberedIsSent'
  <2>1. /\ UNCHANGED <<d, heldEver, command>>
        /\ toClient' = Append(toClient, Command(command[t]))
        /\ \A u \in Threads : u # t => pc'[u] = pc[u]
    BY <1>9 DEF SendCommand, GoTo, TypeOK, commandVars, peerVars
  <2>2. Command(command[t]) \in ToClient /\ toClient \in Seq(ToClient)
    BY DEF ToClient, TypeOK
  <2>3. CASE \E i \in DOMAIN toClient : toClient[i] = Command(d)
    <3>1. \E i \in DOMAIN toClient' : toClient'[i] = Command(d)
      BY <2>1, <2>2, <2>3, AppendKeeps
    <3>2. QED
      BY <1>2, <2>1, <3>1 DEF OnItsWay
  <2>4. CASE command[t] = d
    <3>1. Len(toClient') \in DOMAIN toClient' /\ toClient'[Len(toClient')] = Command(d)
      BY <2>1, <2>2, <2>4
    <3>2. QED
      BY <1>2, <2>1, <3>1 DEF OnItsWay
  <2>5. CASE \E u \in Threads : u # t /\ pc[u] = "send" /\ command[u] = d
    BY <1>2, <2>1, <2>5 DEF OnItsWay
  <2>6. CASE d \in {0} \cup heldEver
    BY <1>2, <2>1, <2>6
  <2>7. QED
    BY <1>1, <2>3, <2>4, <2>5, <2>6 DEF OnItsWay
<1>10. CASE SendRequest
  <2>1. /\ UNCHANGED <<d, heldEver, command>>
        /\ toClient' = Append(toClient, Request(requests'))
        /\ \A u \in Threads : pc[u] = "send" => pc'[u] = pc[u]
    BY <1>10 DEF SendRequest, GoTo, TypeOK, commandVars, peerVars
  <2>2. Request(requests') \in ToClient /\ toClient \in Seq(ToClient)
    <3>1. requests' \in 1..MaxRequests
      BY <1>10, SessionAssumption DEF SendRequest, TypeOK, TurnInv
    <3>2. QED
      BY <3>1 DEF ToClient, TypeOK
  <2>3. CASE \E i \in DOMAIN toClient : toClient[i] = Command(d)
    <3>1. \E i \in DOMAIN toClient' : toClient'[i] = Command(d)
      BY <2>1, <2>2, <2>3, AppendKeeps
    <3>2. QED
      BY <1>2, <2>1, <3>1 DEF OnItsWay
  <2>4. QED
    BY <1>1, <1>2, <2>1, <2>3 DEF OnItsWay
<1>11. CASE ClientReceives
  <2>1. UNCHANGED <<d, pc, command>> /\ toClient # <<>> /\ toClient' = Tail(toClient)
    BY <1>11 DEF ClientReceives, commandVars
  <2>2. heldEver \subseteq heldEver'
    BY <1>11 DEF ClientReceives
  <2>3. CASE Head(toClient) = Command(d)
    <3>1. d \in heldEver'
      BY <1>11, <2>3 DEF ClientReceives, Command
    <3>2. QED
      BY <1>2, <2>1, <3>1
  <2>4. CASE Head(toClient) # Command(d) /\ \E i \in DOMAIN toClient : toClient[i] = Command(d)
    <3>1. \E i \in DOMAIN toClient' : toClient'[i] = Command(d)
      BY <2>1, <2>4, TailKeeps DEF TypeOK
    <3>2. QED
      BY <1>2, <2>1, <3>1 DEF OnItsWay
  <2>5. QED
    BY <1>1, <1>2, <2>1, <2>2, <2>3, <2>4 DEF OnItsWay
<1>12. QED
  BY <1>4, <1>5, <1>6, <1>7, <1>8, <1>9, <1>10, <1>11
  DEF Next, MainStep, ReceiverStep, SendCommandStep, Threads

(* SessionInv holds in every state of every behaviour of the session. *)
THEOREM SessionInvariance == Spec => []SessionInv
<1>1. ASSUME Init
      PROVE  SessionInv
  <2>1. TypeOK
    <3>1. /\ since \in 0..Long
          /\ pc \in [Threads -> PCs]
          /\ lag \in [Threads -> 0..MaxLag]
          /\ command \in [Threads -> Commands]
      BY <1>1, SessionAssumption DEF Init, Long, PCs, Commands
    <3>2. 0 \in Commands /\ requests \in 0..MaxRequests
      BY <1>1, SessionAssumption DEF Init, Commands
    <3>3. toClient \in Seq(ToClient) /\ toServer \in Seq(ToServer)
      BY <1>1 DEF Init
    <3>4. QED
      BY <1>1, <3>1, <3>2, <3>3 DEF Init, TypeOK
  <2>2. pc[Main] = "idle" /\ requests = 0 /\ outstanding = {} /\ recorded = {}
    BY <1>1 DEF Init, Threads
  <2>3. TurnInv
    BY <2>2 DEF TurnInv
  <2>4. TripsAccounted
    <3>1. 1..requests = {}
      BY <2>2
    <3>2. QED
      BY <2>2, <3>1 DEF TripsAccounted
  <2>5. RememberedIsSent
    BY <1>1 DEF Init, RememberedIsSent
  <2>6. QED
    BY <2>1, <2>3, <2>4, <2>5 DEF SessionInv
<1>2. SessionInv /\ [Next]_vars => SessionInv'
  BY TypeStep, TurnStep, TripsStep, RememberedStep DEF SessionInv
<1>3. QED
  BY <1>1, <1>2, PTL DEF Spec

(* The session's variables keep their types. *)
THEOREM SessionTypeCorrect == Spec => []TypeOK
<1>1. SessionInv => TypeOK
  BY DEF SessionInv
<1>2. QED
  BY <1>1, SessionInvariance, PTL

(* No round trip is lost track of or timed twice, for any number of them. *)
THEOREM TripsAccountedHolds == Spec => []TripsAccounted
<1>1. SessionInv => TripsAccounted
  BY DEF SessionInv
<1>2. QED
  BY <1>1, SessionInvariance, PTL

(* No command that last_command_dbid remembers goes unsent, for any number   *)
(* of commands and any delays of the two threads.                            *)
THEOREM RememberedIsSentHolds == Spec => []RememberedIsSent
<1>1. SessionInv => RememberedIsSent
  BY DEF SessionInv
<1>2. QED
  BY <1>1, SessionInvariance, PTL

===============================================================================
