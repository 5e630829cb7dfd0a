----------------------------- MODULE PoolProofs -----------------------------
(***************************************************************************)
(* Proofs about ClientPool, for every set of servers and addresses: the    *)
(* types, that a server is in one place, that a listed server has a        *)
(* connection, and that a connection that was let go is quiet.             *)
(*                                                                         *)
(* None of these is inductive.  That a server is in one place depends on   *)
(* where the application stands in attemptReconnect() or connectTo(), on   *)
(* what it has reconnected so far, and on which calls of processMessage()  *)
(* are under way; the parts of Inv below say what is known of each.        *)
(***************************************************************************)
EXTENDS ClientPool, ConnectionProofs

(* The application has the server of connectTo(), or the one it moves. *)
AppHolds(s) ==
    /\ cur = s
    /\ \/ apc = "push"
       \/ s \notin visited
          /\ apc \in {"try", "connect", "install", "drain", "handle", "add"}

Hand(s) == IF AppHolds(s) \/ stage[s] = "push" THEN 1 ELSE 0

Placed ==
    \A s \in Conns :
        /\ servers[s] + reconnect_servers[s] + Hand(s)
             = IF addr[s] = Nowhere THEN 0 ELSE 1
        /\ AppHolds(s) => stage[s] # "push"

(* Inside reconnect(). *)
Reconnecting == apc \in {"clear", "try", "connect", "install", "drain", "handle"}

(* Where the application is, and what it holds there. *)
AppKnows ==
    /\ Reconnecting \/ apc \in {"push", "add", "join"} => cur \in Conns
    /\ Reconnecting /\ cur \in visited =>
          On(reconnect_servers, cur) /\ cur \notin reconnected
    /\ Reconnecting /\ cur \notin visited => reconnected = {}
    /\ apc \in {"idle", "add", "walk", "join", "gone"} => reconnected = {}
    /\ apc = "clear" => cur \in visited
    /\ apc = "add" => cur \notin visited
    /\ apc \in {"try", "connect"} => ~conn[cur]
    /\ apc \in {"install", "drain", "handle", "push"} => conn[cur]

(* What attemptReconnect() has reconnected waits to be moved. *)
ReconnectedWait ==
    /\ reconnected \subseteq visited
    /\ \A s \in reconnected : On(reconnect_servers, s) /\ conn[s]

(* A call of processMessage() is under way where stage says so. *)
StagesKnown ==
    /\ \A t \in Threads :
          /\ stage[t] # "start" => InCall(t)
          /\ stage[t] \in {"look", "add"} => Message(t) \in Addresses
    /\ stage[App] # "push"

ConnectionsKnown ==
    /\ \A s \in Conns : addr[s] = Nowhere => ~conn[s]
    /\ ListedHasConnection
    /\ ClearedIsQuiet

Inv ==
    /\ TypeOK
    /\ Placed
    /\ AppKnows
    /\ ReconnectedWait
    /\ StagesKnown
    /\ ConnectionsKnown

(***************************************************************************)
(* The steps, one name each.                                               *)
(***************************************************************************)
PeerStep(s) ==
    \/ \E m \in Addresses \cup {Null} : Send(s, m)
    \/ Leave(s) \/ Elapse(s)

(* Next, taken apart into the steps of its threads.                         *)
LEMMA NextCases ==
    ASSUME Next
    PROVE  \/ \E s \in Conns : PeerStep(s) \/ Receive(s)
           \/ \E s \in Conns, a \in Addresses : ConnectTo(s, a)
           \/ \E t \in Threads : HandlerStep(t)
           \/ AttemptStep
           \/ StartDisconnect
           \/ DisconnectStep
BY DEF Next, PeerStep

-----------------------------------------------------------------------------
(* Types. *)

(* The constructor of fss_client makes well-typed lists. *)
LEMMA InitType == Init => TypeOK
<1> SUFFICES ASSUME Init PROVE TypeOK
  OBVIOUS
<1>1. ConnTypeOK
  BY ConnInitType DEF Init
<1>2. addr \in [Conns -> Addresses \cup {Nowhere}]
  BY PoolAssumption DEF Init
<1>3. reconnect_servers \in [Conns -> Nat] /\ servers \in [Conns -> Nat]
  BY DEF Init
<1>4. QED
  BY <1>1, <1>2, <1>3 DEF Init, TypeOK, AppPCs, Received

(* What the peer and the clock do, and the receive loop. *)
LEMMA ServerTypes ==
    ASSUME TypeOK, NEW s \in Conns, PeerStep(s) \/ Receive(s)
    PROVE  TypeOK'
<1>1. ASSUME NEW m \in Addresses \cup {Null}, Send(s, m)
      PROVE  TypeOK'
  BY <1>1, PeerType DEF Send, TypeOK, poolVars, serverVars, appVars, Addresses
<1>2. CASE Leave(s)
  BY <1>2, PeerType DEF Leave, TypeOK, poolVars, serverVars, appVars
<1>3. CASE Elapse(s)
  BY <1>3 DEF Elapse, TypeOK, ConnTypeOK, connVars, poolVars, appVars
<1>4. CASE Receive(s)
  BY <1>4, ReceiveType DEF Receive, TypeOK, poolVars, serverVars, appVars
<1>5. QED
  BY <1>1, <1>2, <1>3, <1>4 DEF PeerStep

(* Every step of processMessage(), on whatever thread. *)
LEMMA HandlerTypes ==
    ASSUME TypeOK, AppKnows, StagesKnown, NEW t \in Threads, HandlerStep(t)
    PROVE  TypeOK'
<1>1. ASSUME Return(t)
      PROVE  /\ ConnTypeOK'
             /\ stage' \in [Threads -> {"start", "look", "add", "push"}]
             /\ apc' \in AppPCs /\ visited' \subseteq Conns
             /\ cur' \in Conns \cup {NoServer} /\ amsg' \in Received
             /\ reconnected' \subseteq Conns
  <2>1. CASE t = App
    BY <1>1, <2>1 DEF Return, TypeOK, ConnTypeOK, connVars, AppPCs, Received
  <2>2. CASE t # App
    <3>1. t \in Conns /\ HandlerReturns(t) /\ UNCHANGED appVars
      BY <1>1, <2>2 DEF Return, Threads
    <3>2. ConnTypeOK'
      BY <3>1, ReceiveType DEF TypeOK
    <3>3. QED
      BY <1>1, <3>1, <3>2 DEF Return, TypeOK, appVars
  <2>3. QED
    BY <2>1, <2>2
<1>2. ASSUME NEW where \in {"look", "add", "push"}, GoTo(t, where)
      PROVE  /\ ConnTypeOK'
             /\ stage' \in [Threads -> {"start", "look", "add", "push"}]
             /\ UNCHANGED appVars
  BY <1>2 DEF GoTo, TypeOK, ConnTypeOK, connVars
<1>3. InCall(t) => Server(t) \in Conns
  BY DEF InCall, Server, AppKnows, Reconnecting, Threads
<1>4. CASE Ignore(t)
  BY <1>1, <1>4 DEF Ignore, TypeOK, poolVars, serverVars
<1>5. CASE LookInServers(t)
  <2>1. Return(t) \/ GoTo(t, "look")
    BY <1>5 DEF LookInServers
  <2>2. QED
    BY <1>1, <1>2, <1>5, <2>1 DEF LookInServers, TypeOK, poolVars, serverVars, appVars
<1>6. CASE LookInReconnect(t)
  <2>1. Return(t) \/ GoTo(t, "add")
    BY <1>6 DEF LookInReconnect
  <2>2. QED
    BY <1>1, <1>2, <1>6, <2>1 DEF LookInReconnect, TypeOK, poolVars, serverVars, appVars
<1>7. CASE AddUnknown(t)
  <2>1. Message(t) \in Addresses
    BY <1>7 DEF AddUnknown, At, StagesKnown
  <2>2. PICK s \in Unused :
          /\ addr' = [addr EXCEPT ![s] = Message(t)]
          /\ reconnect_servers' = PushBack(reconnect_servers, s)
    BY <1>7 DEF AddUnknown
  <2>3. addr' \in [Conns -> Addresses \cup {Nowhere}]
        /\ reconnect_servers' \in [Conns -> Nat]
    BY <2>1, <2>2 DEF TypeOK, PushBack, Unused
  <2>4. QED
    BY <1>1, <1>7, <2>3 DEF AddUnknown, TypeOK, serverVars
<1>8. CASE RequireReconnect(t)
  <2>1. Return(t) \/ GoTo(t, "push")
    BY <1>8 DEF RequireReconnect
  <2>2. servers' \in [Conns -> Nat]
    BY <1>8 DEF RequireReconnect, RemoveAll, TypeOK
  <2>3. QED
    BY <1>1, <1>2, <1>8, <2>1, <2>2 DEF RequireReconnect, TypeOK, serverVars, appVars
<1>9. CASE PushReconnect(t)
  <2>1. reconnect_servers' \in [Conns -> Nat]
    BY <1>3, <1>9 DEF PushReconnect, PushBack, At, TypeOK
  <2>2. QED
    BY <1>1, <1>9, <2>1 DEF PushReconnect, TypeOK, serverVars
<1>10. QED
  BY <1>4, <1>5, <1>6, <1>7, <1>8, <1>9 DEF HandlerStep

(* Every step of the application. *)
LEMMA AppTypes ==
    ASSUME TypeOK, AppKnows,
           \/ \E s \in Conns, a \in Addresses : ConnectTo(s, a)
           \/ AttemptStep \/ StartDisconnect \/ DisconnectStep
    PROVE  TypeOK'
<1> USE DEF TypeOK, AppPCs
<1>1. ASSUME NEW s \in Conns, NEW a \in Addresses, ConnectTo(s, a)
      PROVE  TypeOK'
  BY <1>1 DEF ConnectTo, ConnTypeOK, connVars, serverVars
<1>2. CASE StartAttempt
  BY <1>2 DEF StartAttempt, ConnTypeOK, connVars, poolVars, serverVars
<1>3. ASSUME NextServer
      PROVE  TypeOK'
  <2>1. PICK s \in Conns \ visited :
          /\ visited' = visited \cup {s}
          /\ cur' = s
          /\ \/ apc' = "clear" /\ ShutSocket(s)
             \/ apc' = "try" /\ UNCHANGED connVars
    BY <1>3 DEF NextServer
  <2>2. ShutSocket(s) => ConnTypeOK'
    BY <2>1, OwnerType
  <2>3. UNCHANGED connVars => ConnTypeOK'
    BY DEF ConnTypeOK, connVars
  <2>4. QED
    BY <1>3, <2>1, <2>2, <2>3 DEF NextServer, poolVars, serverVars
<1>4. CASE JoinCleared
  <2>1. ConnTypeOK'
    BY <1>4, OwnerType DEF JoinCleared, AppKnows, Reconnecting
  <2>2. QED
    BY <1>4, <2>1 DEF JoinCleared, poolVars
<1>5. CASE Wait \/ ConnectFails
  BY <1>5 DEF Wait, ConnectFails, NotReconnected, ConnTypeOK, connVars, poolVars,
              serverVars
<1>6. CASE Try
  BY <1>6 DEF Try, ConnTypeOK, connVars, poolVars
<1>7. CASE ConnectSucceeds
  <2>1. cur \in Conns
    BY <1>7 DEF ConnectSucceeds, AppKnows, Reconnecting
  <2>2. wire' \in [Conns -> Seq(Msgs \cup {Null})]
        /\ messages' \in [Conns -> Seq(Received)]
    BY <1>7, <2>1 DEF ConnectSucceeds, ConnTypeOK
  <2>3. ConnTypeOK'
    BY <1>7, <2>1, <2>2 DEF ConnectSucceeds, ConnTypeOK, RecvPCs
  <2>4. QED
    BY <1>7, <2>1, <2>3 DEF ConnectSucceeds, poolVars
<1>8. CASE Install
  <2>1. ConnTypeOK'
    BY <1>8, OwnerType DEF Install, AppKnows, Reconnecting
  <2>2. QED
    BY <1>8, <2>1 DEF Install, poolVars, serverVars
<1>9. CASE DrainTake
  <2>1. cur \in Conns
    BY <1>9 DEF DrainTake, AppKnows, Reconnecting
  <2>2. ConnTypeOK'
    BY <1>9, <2>1, OwnerType DEF DrainTake
  <2>3. Head(messages[cur]) \in Received
    BY <1>9, <2>1 DEF DrainTake, TakeQueued, ConnTypeOK
  <2>4. QED
    BY <1>9, <2>2, <2>3 DEF DrainTake, poolVars, serverVars
<1>10. CASE DrainDone
  <2>1. cur \in Conns
    BY <1>10 DEF DrainDone, AppKnows, Reconnecting
  <2>2. QED
    BY <1>10, <2>1 DEF DrainDone, ConnTypeOK, connVars, poolVars
<1>11. CASE EndOfList \/ AttemptDone \/ StartDisconnect \/ Disconnected
  BY <1>11 DEF EndOfList, AttemptDone, StartDisconnect, Disconnected, ConnTypeOK,
               connVars, poolVars, serverVars
<1>12. CASE MoveReconnected
  BY <1>12 DEF MoveReconnected, RemoveAll, ConnTypeOK, connVars, serverVars
<1>13. CASE PushConnected
  <2>1. cur \in Conns
    BY <1>13 DEF PushConnected, AppKnows
  <2>2. QED
    BY <1>13, <2>1 DEF PushConnected, PushBack, ConnTypeOK, connVars, serverVars
<1>14. CASE AddServer
  <2>1. cur \in Conns
    BY <1>14 DEF AddServer, AppKnows
  <2>2. servers' \in [Conns -> Nat] /\ reconnect_servers' \in [Conns -> Nat]
    BY <1>14, <2>1 DEF AddServer, PushBack
  <2>3. QED
    BY <1>14, <2>2 DEF AddServer, ConnTypeOK, connVars, serverVars
<1>15. CASE ShutServer
  <2>1. PICK s \in Conns : cur' = s /\ ShutSocket(s)
    BY <1>15 DEF ShutServer
  <2>2. ConnTypeOK'
    BY <2>1, OwnerType
  <2>3. QED
    BY <1>15, <2>1, <2>2 DEF ShutServer, poolVars, serverVars
<1>16. CASE JoinShut
  <2>1. ConnTypeOK'
    BY <1>16, OwnerType DEF JoinShut, AppKnows
  <2>2. QED
    BY <1>16, <2>1 DEF JoinShut, poolVars
<1>17. QED
  BY <1>1, <1>2, <1>3, <1>4, <1>5, <1>6, <1>7, <1>8, <1>9, <1>10, <1>11, <1>12,
     <1>13, <1>14, <1>15, <1>16 DEF AttemptStep, DisconnectStep

-----------------------------------------------------------------------------
(* Steps of the handler leave the application where it was, but for the end   *)
(* of its own call in setHandler(), and its thread's stage.                  *)
LEMMA HandlerFrame ==
    ASSUME TypeOK, NEW t \in Threads, HandlerStep(t)
    PROVE  /\ UNCHANGED <<conn, due, cur, visited, reconnected>>
           /\ InCall(t)
           /\ \/ apc' = apc /\ amsg' = amsg
              \/ t = App /\ apc = "handle" /\ apc' = "drain" /\ stage[t]' = "start"
           /\ \E where \in {"start", "look", "add", "push"} :
                 stage' = [stage EXCEPT ![t] = where]
<1>1. ASSUME InCall(t), Return(t)
      PROVE  /\ UNCHANGED <<cur, visited, reconnected>>
             /\ \/ apc' = apc /\ amsg' = amsg
                \/ t = App /\ apc = "handle" /\ apc' = "drain" /\ stage[t]' = "start"
             /\ stage' = [stage EXCEPT ![t] = "start"]
  BY <1>1 DEF Return, InCall, appVars, TypeOK
<1>2. ASSUME NEW where, GoTo(t, where)
      PROVE  /\ UNCHANGED <<cur, visited, reconnected, apc, amsg>>
             /\ stage' = [stage EXCEPT ![t] = where]
  BY <1>2 DEF GoTo, appVars
<1>3. CASE Ignore(t)
  BY <1>1, <1>3 DEF Ignore, At, serverVars
<1>4. CASE LookInServers(t)
  BY <1>1, <1>2, <1>4 DEF LookInServers, At, serverVars
<1>5. CASE LookInReconnect(t)
  BY <1>1, <1>2, <1>5 DEF LookInReconnect, At, serverVars
<1>6. CASE AddUnknown(t)
  BY <1>1, <1>6 DEF AddUnknown, At, serverVars
<1>7. CASE RequireReconnect(t)
  BY <1>1, <1>2, <1>7 DEF RequireReconnect, At, serverVars
<1>8. CASE PushReconnect(t)
  BY <1>1, <1>8 DEF PushReconnect, At, serverVars
<1>9. QED
  BY <1>3, <1>4, <1>5, <1>6, <1>7, <1>8 DEF HandlerStep

(* ... and a server it has is still its own. *)
LEMMA HandlerHolds ==
    ASSUME TypeOK, NEW t \in Threads, HandlerStep(t), NEW s \in Conns
    PROVE  AppHolds(s)' <=> AppHolds(s)
BY HandlerFrame DEF AppHolds

-----------------------------------------------------------------------------
(* A server is in one place. *)

(* The configured servers wait, the other objects do not exist. *)
LEMMA InitPlaced == Init => Placed
<1> SUFFICES ASSUME Init, NEW s \in Conns
             PROVE  /\ servers[s] + reconnect_servers[s] + Hand(s)
                         = IF addr[s] = Nowhere THEN 0 ELSE 1
                    /\ AppHolds(s) => stage[s] # "push"
  BY DEF Placed
<1>1. servers[s] = 0 /\ reconnect_servers[s] = IF addr[s] = Nowhere THEN 0 ELSE 1
  BY DEF Init, Unused
<1>2. ~AppHolds(s) /\ stage[s] = "start"
  BY DEF Init, AppHolds, Threads
<1>3. QED
  BY <1>1, <1>2 DEF Hand

(* What a server is in, it is in alone. *)
LEMMA OnlyPlace ==
    ASSUME TypeOK, Placed, NEW s \in Conns
    PROVE  /\ On(servers, s) => /\ servers[s] = 1 /\ reconnect_servers[s] = 0
                               /\ ~AppHolds(s) /\ stage[s] # "push"
           /\ On(reconnect_servers, s) => /\ reconnect_servers[s] = 1
                                         /\ servers[s] = 0
                                         /\ ~AppHolds(s) /\ stage[s] # "push"
           /\ AppHolds(s) => /\ servers[s] = 0 /\ reconnect_servers[s] = 0
                             /\ stage[s] # "push" /\ addr[s] # Nowhere
           /\ stage[s] = "push" => /\ servers[s] = 0 /\ reconnect_servers[s] = 0
                                  /\ addr[s] # Nowhere
           /\ addr[s] = Nowhere =>
                 /\ servers[s] = 0 /\ reconnect_servers[s] = 0
                 /\ ~AppHolds(s) /\ stage[s] # "push"
           /\ On(servers, s) \/ On(reconnect_servers, s) => addr[s] # Nowhere
<1>1. servers[s] \in Nat /\ reconnect_servers[s] \in Nat
  BY DEF TypeOK
<1>2. /\ AppHolds(s) \/ stage[s] = "push" => Hand(s) = 1
      /\ ~(AppHolds(s) \/ stage[s] = "push") => Hand(s) = 0
  BY DEF Hand
<1>3. /\ addr[s] = Nowhere => servers[s] + reconnect_servers[s] + Hand(s) = 0
      /\ addr[s] # Nowhere => servers[s] + reconnect_servers[s] + Hand(s) = 1
  BY DEF Placed
<1>4. Hand(s) = 0 \/ Hand(s) = 1
  BY <1>2
<1>5. /\ servers[s] > 0 => servers[s] = 1 /\ reconnect_servers[s] = 0 /\ Hand(s) = 0
      /\ reconnect_servers[s] > 0 =>
            reconnect_servers[s] = 1 /\ servers[s] = 0 /\ Hand(s) = 0
      /\ Hand(s) = 1 => servers[s] = 0 /\ reconnect_servers[s] = 0
      /\ addr[s] = Nowhere => servers[s] = 0 /\ reconnect_servers[s] = 0 /\ Hand(s) = 0
  BY <1>1, <1>3, <1>4
<1>6. AppHolds(s) => stage[s] # "push"
  BY DEF Placed
<1>7. QED
  BY <1>2, <1>5, <1>6 DEF On

(* A call of processMessage() moves a server from list to hand or back. *)
LEMMA HandlerPlaced ==
    ASSUME TypeOK, Placed, AppKnows, StagesKnown, NEW t \in Threads, HandlerStep(t)
    PROVE  Placed'
<1>1. \A s \in Conns : AppHolds(s)' <=> AppHolds(s)
  BY HandlerHolds
<1>2. ASSUME UNCHANGED <<addr, servers, reconnect_servers>>, stage[t] # "push",
             \/ stage' = [stage EXCEPT ![t] = "start"]
             \/ stage' = [stage EXCEPT ![t] = "look"]
             \/ stage' = [stage EXCEPT ![t] = "add"]
      PROVE  Placed'
  <2>1. \A s \in Conns : (stage[s] = "push")' <=> stage[s] = "push"
    BY <1>2 DEF TypeOK, Threads
  <2>2. QED
    BY <1>1, <1>2, <2>1 DEF Placed, Hand
<1>3. CASE Ignore(t)
  BY <1>2, <1>3 DEF Ignore, At, Return, poolVars
<1>4. CASE LookInServers(t)
  BY <1>2, <1>4 DEF LookInServers, At, Return, GoTo, poolVars
<1>5. CASE LookInReconnect(t)
  BY <1>2, <1>5 DEF LookInReconnect, At, Return, GoTo, poolVars
<1>6. CASE AddUnknown(t)
  <2>1. PICK o \in Unused : /\ addr' = [addr EXCEPT ![o] = Message(t)]
                            /\ reconnect_servers' = PushBack(reconnect_servers, o)
    BY <1>6 DEF AddUnknown
  <2>2. Message(t) # Nowhere
    BY <1>6, PoolAssumption DEF AddUnknown, At, StagesKnown
  <2>3. \A s \in Conns : (stage[s] = "push")' <=> stage[s] = "push"
    BY <1>6 DEF AddUnknown, At, Return, TypeOK, Threads
  <2>4. servers' = servers
    BY <1>6 DEF AddUnknown
  <2>5. ASSUME NEW s \in Conns
        PROVE  /\ servers'[s] + reconnect_servers'[s] + Hand(s)'
                     = IF addr'[s] = Nowhere THEN 0 ELSE 1
               /\ AppHolds(s)' => stage'[s] # "push"
    <3>1. Hand(s)' = Hand(s) /\ Hand(s) \in {0, 1}
      BY <1>1, <2>3 DEF Hand
    <3>2. CASE s = o
      <4>1. addr[s] = Nowhere /\ addr'[s] # Nowhere
        BY <2>1, <2>2, <3>2 DEF Unused, TypeOK
      <4>2. reconnect_servers'[s] = reconnect_servers[s] + 1
        BY <2>1, <3>2 DEF PushBack, TypeOK
      <4>3. QED
        BY <1>1, <2>3, <2>4, <3>1, <4>1, <4>2 DEF Placed, TypeOK
    <3>3. CASE s # o
      BY <1>1, <2>1, <2>3, <2>4, <3>1, <3>3 DEF Placed, PushBack, TypeOK, Unused
    <3>4. QED
      BY <3>2, <3>3
  <2>6. QED
    BY <2>5 DEF Placed
<1>7. CASE RequireReconnect(t)
  <2>1. UNCHANGED <<addr, reconnect_servers>>
    BY <1>7 DEF RequireReconnect
  <2>2. CASE On(servers, Server(t))
    <3>1. servers' = RemoveAll(servers, Server(t))
          /\ stage' = [stage EXCEPT ![t] = "push"]
      BY <1>7, <2>2 DEF RequireReconnect, GoTo
    <3>2. t \in Conns /\ Server(t) = t
      <4>1. SUFFICES ASSUME t = App PROVE FALSE
        BY DEF Server, Threads
      <4>2. cur \in Conns /\ On(servers, cur) /\ apc = "handle"
        BY <1>7, <2>2, <4>1 DEF RequireReconnect, At, InCall, Server, AppKnows,
           Reconnecting
      <4>3. On(reconnect_servers, cur) \/ AppHolds(cur)
        BY <4>2 DEF AppKnows, Reconnecting, AppHolds
      <4>4. QED
        BY <4>2, <4>3, OnlyPlace
    <3>3. servers[t] = 1 /\ reconnect_servers[t] = 0 /\ ~AppHolds(t)
          /\ addr[t] # Nowhere
      BY <2>2, <3>2, OnlyPlace
    <3>4. ASSUME NEW s \in Conns, s # t
          PROVE  servers'[s] = servers[s] /\ stage'[s] = stage[s]
      BY <3>1, <3>2, <3>4 DEF RemoveAll, TypeOK, Threads
    <3>5. servers'[t] = 0 /\ stage'[t] = "push"
      BY <3>1, <3>2 DEF RemoveAll, TypeOK, Threads
    <3>6. ~AppHolds(t)'
      BY <1>1, <3>2, <3>3
    <3>7. ASSUME NEW s \in Conns
          PROVE  /\ servers'[s] + reconnect_servers'[s] + Hand(s)'
                       = IF addr'[s] = Nowhere THEN 0 ELSE 1
                 /\ AppHolds(s)' => stage'[s] # "push"
      <4>1. CASE s = t
        BY <2>1, <3>3, <3>5, <3>6, <4>1 DEF Hand
      <4>2. CASE s # t
        BY <1>1, <2>1, <3>4, <4>2 DEF Placed, Hand
      <4>3. QED
        BY <4>1, <4>2
    <3>8. QED
      BY <3>7 DEF Placed
  <2>3. CASE ~On(servers, Server(t))
    BY <1>2, <1>7, <2>1, <2>3 DEF RequireReconnect, At, Return
  <2>4. QED
    BY <2>2, <2>3
<1>8. CASE PushReconnect(t)
  <2>1. t \in Conns /\ stage[t] = "push" /\ Server(t) = t
    BY <1>8 DEF PushReconnect, At, StagesKnown, Server, Threads
  <2>2. /\ UNCHANGED <<addr, servers>>
        /\ reconnect_servers' = PushBack(reconnect_servers, t)
        /\ stage' = [stage EXCEPT ![t] = "start"]
    BY <1>8, <2>1 DEF PushReconnect, Return
  <2>3. ASSUME NEW s \in Conns, s # t
        PROVE  reconnect_servers'[s] = reconnect_servers[s] /\ stage'[s] = stage[s]
    BY <2>1, <2>2, <2>3 DEF PushBack, TypeOK, Threads
  <2>4. reconnect_servers'[t] = reconnect_servers[t] + 1 /\ stage'[t] = "start"
    BY <2>1, <2>2 DEF PushBack, TypeOK, Threads
  <2>5. QED
    BY <1>1, <2>1, <2>2, <2>3, <2>4 DEF Placed, Hand, TypeOK
<1>9. QED
  BY <1>3, <1>4, <1>5, <1>6, <1>7, <1>8 DEF HandlerStep

(* The application moves a server from list to hand or back. *)
LEMMA AppPlaced ==
    ASSUME TypeOK, Placed, AppKnows, ReconnectedWait,
           \/ \E s \in Conns, a \in Addresses : ConnectTo(s, a)
           \/ AttemptStep \/ StartDisconnect \/ DisconnectStep
    PROVE  Placed'
<1>1. ASSUME UNCHANGED <<poolVars, stage>>, \A s \in Conns : AppHolds(s)' <=> AppHolds(s)
      PROVE  Placed'
  BY <1>1 DEF Placed, Hand, poolVars
<1>2. ASSUME NEW o \in Conns, stage' = stage,
             \A s \in Conns \ {o} : /\ AppHolds(s)' <=> AppHolds(s)
                                    /\ addr'[s] = addr[s]
                                    /\ servers'[s] = servers[s]
                                    /\ reconnect_servers'[s] = reconnect_servers[s],
             /\ servers'[o] + reconnect_servers'[o] + Hand(o)'
                   = IF addr'[o] = Nowhere THEN 0 ELSE 1
             /\ AppHolds(o)' => stage[o] # "push"
      PROVE  Placed'
  <2>1. ASSUME NEW s \in Conns, s # o
        PROVE  /\ servers'[s] + reconnect_servers'[s] + Hand(s)'
                     = IF addr'[s] = Nowhere THEN 0 ELSE 1
               /\ AppHolds(s)' => stage'[s] # "push"
    BY <1>2, <2>1 DEF Placed, Hand
  <2>2. QED
    BY <1>2, <2>1 DEF Placed
<1>3. ASSUME NEW o \in Conns, NEW a \in Addresses, ConnectTo(o, a)
      PROVE  Placed'
  <2>1. /\ servers[o] = 0 /\ reconnect_servers[o] = 0
        /\ stage[o] # "push"
    BY <1>3, OnlyPlace DEF ConnectTo, Unused
  <2>2. AppHolds(o)' /\ \A s \in Conns \ {o} : AppHolds(s)' <=> AppHolds(s)
    BY <1>3 DEF ConnectTo, AppHolds
  <2>3. addr'[o] # Nowhere /\ \A s \in Conns \ {o} : addr'[s] = addr[s]
    BY <1>3, PoolAssumption DEF ConnectTo, TypeOK
  <2>4. UNCHANGED <<servers, reconnect_servers, stage>>
    BY <1>3 DEF ConnectTo
  <2>5. Hand(o)' = 1
    BY <2>2 DEF Hand
  <2>6. QED
    BY <1>2, <2>1, <2>2, <2>3, <2>4, <2>5
<1>4. CASE StartAttempt
  BY <1>1, <1>4 DEF StartAttempt, AppHolds
<1>5. CASE NextServer
  BY <1>1, <1>5 DEF NextServer, AppHolds
<1>6. CASE JoinCleared
  BY <1>1, <1>6 DEF JoinCleared, AppHolds, AppKnows
<1>7. CASE Wait \/ ConnectFails
  BY <1>1, <1>7 DEF Wait, ConnectFails, NotReconnected, AppHolds, Attempting
<1>8. CASE Try \/ ConnectSucceeds \/ Install \/ DrainTake
  BY <1>1, <1>8 DEF Try, ConnectSucceeds, Install, DrainTake, AppHolds
<1>9. CASE DrainDone
  BY <1>1, <1>9 DEF DrainDone, AppHolds, Attempting
<1>10. CASE EndOfList \/ AttemptDone \/ StartDisconnect \/ Disconnected
  BY <1>1, <1>10 DEF EndOfList, AttemptDone, StartDisconnect, Disconnected, AppHolds
<1>11. CASE MoveReconnected
  <2>1. PICK o \in reconnected :
          /\ cur' = o
          /\ reconnect_servers' = RemoveAll(reconnect_servers, o)
    BY <1>11 DEF MoveReconnected
  <2>2. o \in Conns /\ On(reconnect_servers, o)
    BY <2>1 DEF TypeOK, ReconnectedWait
  <2>3. servers[o] = 0 /\ stage[o] # "push" /\ addr[o] # Nowhere
    BY <2>2, OnlyPlace
  <2>4. AppHolds(o)' /\ \A s \in Conns \ {o} : AppHolds(s)' <=> AppHolds(s)
    BY <1>11, <2>1 DEF MoveReconnected, AppHolds
  <2>5. reconnect_servers'[o] = 0
        /\ \A s \in Conns \ {o} : reconnect_servers'[s] = reconnect_servers[s]
    BY <2>1, <2>2 DEF RemoveAll, TypeOK
  <2>6. UNCHANGED <<addr, servers, stage>>
    BY <1>11 DEF MoveReconnected
  <2>7. Hand(o)' = 1
    BY <2>4 DEF Hand
  <2>8. QED
    BY <1>2, <2>2, <2>3, <2>4, <2>5, <2>6, <2>7
<1>12. CASE PushConnected \/ AddServer
  <2>1. PICK o \in Conns : o = cur /\ AppHolds(o)
    BY <1>12 DEF PushConnected, AddServer, AppKnows, AppHolds
  <2>2. servers[o] = 0 /\ reconnect_servers[o] = 0 /\ stage[o] # "push"
        /\ addr[o] # Nowhere
    BY <2>1, OnlyPlace
  <2>3. UNCHANGED <<addr, stage>>
    BY <1>12 DEF PushConnected, AddServer
  <2>4. \A s \in Conns : ~AppHolds(s)'
    BY <1>12, PoolAssumption DEF PushConnected, AddServer, AppHolds
  <2>5. \A s \in Conns \ {o} : ~AppHolds(s)
    BY <2>1 DEF AppHolds
  <2>6. \/ servers' = PushBack(servers, o) /\ reconnect_servers' = reconnect_servers
        \/ reconnect_servers' = PushBack(reconnect_servers, o) /\ servers' = servers
    BY <1>12, <2>1 DEF PushConnected, AddServer
  <2>7. /\ servers'[o] + reconnect_servers'[o] = 1
        /\ servers'[o] \in Nat /\ reconnect_servers'[o] \in Nat
        /\ \A s \in Conns \ {o} : /\ servers'[s] = servers[s]
                                  /\ reconnect_servers'[s] = reconnect_servers[s]
    BY <2>1, <2>2, <2>6 DEF PushBack, TypeOK
  <2>8. Hand(o)' = 0
    BY <2>2, <2>3, <2>4 DEF Hand
  <2>9. QED
    BY <1>2, <2>2, <2>3, <2>4, <2>5, <2>7, <2>8
<1>13. CASE ShutServer
  BY <1>1, <1>13 DEF ShutServer, AppHolds
<1>14. CASE JoinShut
  BY <1>1, <1>14 DEF JoinShut, AppHolds
<1>15. QED
  BY <1>3, <1>4, <1>5, <1>6, <1>7, <1>8, <1>9, <1>10, <1>11, <1>12, <1>13, <1>14
     DEF AttemptStep, DisconnectStep

-----------------------------------------------------------------------------
(* Where the application is, and what waits to be moved. *)

(* What is on a list stays there while processMessage() runs, but for the     *)
(* list of the connected servers.                                            *)
LEMMA HandlerKeepsWaiting ==
    ASSUME TypeOK, NEW t \in Threads, HandlerStep(t), AppKnows, NEW s \in Conns,
           On(reconnect_servers, s)
    PROVE  On(reconnect_servers, s)'
<1>1. InCall(t) => Server(t) \in Conns
  BY DEF InCall, Server, AppKnows, Reconnecting, Threads
<1>2. CASE AddUnknown(t)
  <2>1. PICK o \in Conns : reconnect_servers' = PushBack(reconnect_servers, o)
    BY <1>2 DEF AddUnknown, Unused
  <2>2. QED
    BY <2>1 DEF PushBack, On, TypeOK
<1>3. CASE PushReconnect(t)
  BY <1>1, <1>3 DEF PushReconnect, At, PushBack, On, TypeOK
<1>4. CASE Ignore(t) \/ LookInServers(t) \/ LookInReconnect(t) \/ RequireReconnect(t)
  BY <1>4 DEF Ignore, LookInServers, LookInReconnect, RequireReconnect, poolVars, On
<1>5. QED
  BY <1>2, <1>3, <1>4 DEF HandlerStep

(* ... so processMessage() takes nothing from under the application. *)
LEMMA HandlerKnows ==
    ASSUME TypeOK, AppKnows, ReconnectedWait, NEW t \in Threads, HandlerStep(t)
    PROVE  AppKnows' /\ ReconnectedWait'
<1>1. \A s \in Conns : On(reconnect_servers, s) => On(reconnect_servers, s)'
  BY HandlerKeepsWaiting
<1>2. /\ UNCHANGED <<conn, cur, visited, reconnected>>
      /\ apc' = apc \/ (apc = "handle" /\ apc' = "drain")
  BY HandlerFrame
<1>3. ReconnectedWait'
  BY <1>1, <1>2 DEF ReconnectedWait, TypeOK
<1>4. Reconnecting /\ cur \in visited => On(reconnect_servers, cur)'
  BY <1>1, <1>2 DEF AppKnows, On
<1>5. AppKnows'
  BY <1>2, <1>4 DEF AppKnows, Reconnecting, On
<1>6. QED
  BY <1>3, <1>5

(* Nor does a receive loop between two calls. *)
LEMMA ServerKnows ==
    ASSUME AppKnows, ReconnectedWait, NEW s \in Conns, PeerStep(s) \/ Receive(s)
    PROVE  AppKnows' /\ ReconnectedWait'
<1>1. UNCHANGED <<poolVars, conn, appVars>>
  BY DEF PeerStep, Send, Leave, Elapse, Receive, serverVars
<1>2. QED
  BY <1>1 DEF AppKnows, ReconnectedWait, Reconnecting, On, poolVars, appVars

(* attemptReconnect(), reconnect(), connectTo() and disconnect() themselves. *)
LEMMA AppKnowsStep ==
    ASSUME TypeOK, Placed, AppKnows, ReconnectedWait, ConnectionsKnown,
           \/ \E s \in Conns, a \in Addresses : ConnectTo(s, a)
           \/ AttemptStep \/ StartDisconnect \/ DisconnectStep
    PROVE  AppKnows' /\ ReconnectedWait'
<1> USE DEF AppKnows, ReconnectedWait, Reconnecting, On
<1>1. ASSUME NEW s \in Conns, NEW a \in Addresses, ConnectTo(s, a)
      PROVE  AppKnows' /\ ReconnectedWait'
  <2>1. ~conn[s]
    BY <1>1 DEF ConnectTo, Unused, ConnectionsKnown
  <2>2. QED
    BY <1>1, <2>1 DEF ConnectTo, serverVars
<1>2. CASE StartAttempt
  BY <1>2 DEF StartAttempt, poolVars, serverVars
<1>3. CASE NextServer
  <2>1. PICK s \in Conns \ visited :
          /\ reconnect_servers[s] > 0
          /\ visited' = visited \cup {s}
          /\ cur' = s
          /\ \/ conn[s] /\ apc' = "clear"
             \/ ~conn[s] /\ apc' = "try"
    BY <1>3 DEF NextServer
  <2>2. UNCHANGED <<reconnect_servers, conn, reconnected>>
    BY <1>3 DEF NextServer, poolVars, serverVars
  <2>3. QED
    BY <2>1, <2>2
<1>4. CASE JoinCleared
  BY <1>4 DEF JoinCleared, poolVars, TypeOK
<1>5. CASE Wait \/ ConnectFails
  BY <1>5 DEF Wait, ConnectFails, NotReconnected, Attempting, poolVars, serverVars
<1>6. CASE Try
  BY <1>6 DEF Try, poolVars
<1>7. CASE ConnectSucceeds
  BY <1>7 DEF ConnectSucceeds, poolVars, TypeOK
<1>8. CASE Install \/ DrainTake
  BY <1>8 DEF Install, DrainTake, poolVars, serverVars
<1>9. CASE DrainDone
  BY <1>9 DEF DrainDone, Attempting, poolVars
<1>10. CASE EndOfList \/ AttemptDone \/ StartDisconnect \/ Disconnected
  BY <1>10 DEF EndOfList, AttemptDone, StartDisconnect, Disconnected, poolVars,
               serverVars
<1>11. CASE MoveReconnected
  <2>1. PICK o \in reconnected :
          /\ cur' = o
          /\ reconnected' = reconnected \ {o}
          /\ reconnect_servers' = [reconnect_servers EXCEPT ![o] = 0]
    BY <1>11 DEF MoveReconnected, RemoveAll
  <2>2. UNCHANGED <<conn, visited>> /\ apc' = "push"
    BY <1>11 DEF MoveReconnected, serverVars
  <2>3. \A s \in reconnected \ {o} : reconnect_servers'[s] > 0
    BY <2>1 DEF TypeOK
  <2>4. QED
    BY <2>1, <2>2, <2>3 DEF TypeOK
<1>12. CASE PushConnected \/ AddServer
  <2>1. /\ apc = "push" \/ reconnected = {}
        /\ UNCHANGED <<visited, conn, reconnected>>
        /\ apc' = "idle" \/ (apc' = "move" /\ UNCHANGED reconnect_servers)
        /\ apc' = "idle" => reconnected = {}
    BY <1>12 DEF PushConnected, AddServer, serverVars
  <2>2. QED
    BY <2>1
<1>13. CASE ShutServer
  BY <1>13 DEF ShutServer, poolVars, serverVars
<1>14. CASE JoinShut
  BY <1>14 DEF JoinShut, poolVars, TypeOK
<1>15. QED
  BY <1>1, <1>2, <1>3, <1>4, <1>5, <1>6, <1>7, <1>8, <1>9, <1>10, <1>11, <1>12,
     <1>13, <1>14 DEF AttemptStep, DisconnectStep

-----------------------------------------------------------------------------
(* Which calls of processMessage() are under way. *)

(* The receive loop starts a call, and leaves one that is under way alone. *)
LEMMA ServerStages ==
    ASSUME TypeOK, StagesKnown, NEW s \in Conns, PeerStep(s) \/ Receive(s)
    PROVE  StagesKnown'
<1>1. UNCHANGED <<stage, apc, amsg>>
  BY DEF PeerStep, Send, Leave, Elapse, Receive, appVars
<1>2. ASSUME NEW t \in Conns, rpc[t] = "call"
      PROVE  rpc'[t] = "call" /\ rmsg'[t] = rmsg[t]
  BY <1>2 DEF PeerStep, Send, Leave, Elapse, Receive, PeerSend, PeerClose, connVars,
     ReceiveStep, ReceiveMessage, ReceiveClosed, TestHandler, PushMessage, NextRound,
     TypeOK, ConnTypeOK
<1>3. QED
  BY <1>1, <1>2 DEF StagesKnown, InCall, Message, Threads

(* A step of one call is no step of another. *)
LEMMA HandlerStages ==
    ASSUME TypeOK, Placed, AppKnows, StagesKnown, NEW t \in Threads, HandlerStep(t)
    PROVE  StagesKnown'
<1>1. ASSUME NEW u \in Threads, u # t
      PROVE  stage'[u] = stage[u] /\ InCall(u)' = InCall(u) /\ Message(u)' = Message(u)
  <2>1. stage'[u] = stage[u]
    BY <1>1, HandlerFrame DEF TypeOK
  <2>2. CASE t = App
    <3>1. UNCHANGED connVars
      BY <2>2 DEF HandlerStep, Ignore, LookInServers, LookInReconnect, AddUnknown,
         RequireReconnect, PushReconnect, Return, GoTo
    <3>2. QED
      BY <1>1, <2>1, <2>2, <3>1 DEF InCall, Message, connVars
  <2>3. CASE t # App
    <3>1. \/ HandlerReturns(t) /\ UNCHANGED appVars
          \/ UNCHANGED <<connVars, appVars>>
      BY <2>3 DEF HandlerStep, Ignore, LookInServers, LookInReconnect, AddUnknown,
         RequireReconnect, PushReconnect, Return, GoTo
    <3>2. u # App => rpc'[u] = rpc[u] /\ rmsg'[u] = rmsg[u]
      BY <1>1, <3>1 DEF HandlerReturns, NextRound, connVars, TypeOK, ConnTypeOK, Threads
    <3>3. UNCHANGED <<apc, amsg>>
      BY <3>1 DEF appVars
    <3>4. QED
      BY <2>1, <3>2, <3>3 DEF InCall, Message
  <2>4. QED
    BY <2>2, <2>3
<1>2. ASSUME NEW where \in {"look", "add", "push"}, GoTo(t, where),
             where \in {"look", "add"} => Message(t) \in Addresses,
             where = "push" => t # App
      PROVE  StagesKnown'
  <2>1. stage'[t] = where /\ InCall(t)' /\ Message(t)' = Message(t)
    BY <1>2, HandlerFrame DEF GoTo, InCall, Message, connVars, appVars, TypeOK
  <2>2. QED
    BY <1>1, <1>2, <2>1 DEF StagesKnown, Threads
<1>3. ASSUME Return(t)
      PROVE  StagesKnown'
  <2>1. stage'[t] = "start"
    BY <1>3 DEF Return, TypeOK
  <2>2. QED
    BY <1>1, <2>1 DEF StagesKnown, Threads
<1>4. CASE Ignore(t) \/ AddUnknown(t) \/ PushReconnect(t)
  BY <1>3, <1>4 DEF Ignore, AddUnknown, PushReconnect
<1>5. CASE LookInServers(t)
  BY <1>2, <1>3, <1>5 DEF LookInServers
<1>6. CASE LookInReconnect(t)
  BY <1>2, <1>3, <1>6 DEF LookInReconnect, At, StagesKnown
<1>7. CASE RequireReconnect(t)
  <2>1. CASE On(servers, Server(t))
    <3>1. t # App
      <4>1. SUFFICES ASSUME t = App PROVE FALSE
        OBVIOUS
      <4>2. cur \in Conns /\ On(servers, cur) /\ apc = "handle"
        BY <1>7, <2>1, <4>1 DEF RequireReconnect, At, InCall, Server, AppKnows,
           Reconnecting
      <4>3. On(reconnect_servers, cur) \/ AppHolds(cur)
        BY <4>2 DEF AppKnows, Reconnecting, AppHolds
      <4>4. QED
        BY <4>2, <4>3, OnlyPlace
    <3>2. QED
      BY <1>2, <1>7, <2>1, <3>1 DEF RequireReconnect
  <2>2. CASE ~On(servers, Server(t))
    BY <1>3, <1>7, <2>2 DEF RequireReconnect
  <2>3. QED
    BY <2>1, <2>2
<1>8. QED
  BY <1>4, <1>5, <1>6, <1>7 DEF HandlerStep

(* The application takes a message when it is not in a call, and joins a      *)
(* receive thread that is out of its last.                                   *)
LEMMA AppStages ==
    ASSUME TypeOK, AppKnows, StagesKnown, ConnectionsKnown,
           \/ \E s \in Conns, a \in Addresses : ConnectTo(s, a)
           \/ AttemptStep \/ StartDisconnect \/ DisconnectStep
    PROVE  StagesKnown'
<1>1. stage' = stage
  BY DEF ConnectTo, AttemptStep, StartDisconnect, DisconnectStep, StartAttempt,
     NextServer, JoinCleared, Wait, Try, ConnectFails, ConnectSucceeds, Install,
     DrainTake, DrainDone, EndOfList, MoveReconnected, PushConnected, AttemptDone,
     AddServer, ShutServer, JoinShut, Disconnected
<1>2. apc # "handle"
  BY DEF ConnectTo, AttemptStep, StartDisconnect, DisconnectStep, StartAttempt,
     NextServer, JoinCleared, Wait, Try, ConnectFails, ConnectSucceeds, Install,
     DrainTake, DrainDone, EndOfList, MoveReconnected, PushConnected, AttemptDone,
     AddServer, ShutServer, JoinShut, Disconnected
<1>3. stage[App] = "start"
  BY <1>2 DEF StagesKnown, InCall, Threads
<1>4. ASSUME NEW t \in Conns, rpc[t] = "call"
      PROVE  rpc'[t] = "call" /\ rmsg'[t] = rmsg[t]
  <2>1. CASE ConnectSucceeds
    <3>1. cur \in Conns /\ ~conn[cur]
      BY <2>1 DEF ConnectSucceeds, AppKnows, Reconnecting
    <3>2. rpc[cur] = "none"
      BY <3>1 DEF ConnectionsKnown, ClearedIsQuiet
    <3>3. QED
      BY <1>4, <2>1, <3>1, <3>2 DEF ConnectSucceeds, TypeOK, ConnTypeOK
  <2>2. CASE JoinCleared \/ JoinShut
    BY <1>4, <2>2 DEF JoinCleared, JoinShut, JoinReceiver, TypeOK, ConnTypeOK
  <2>3. ASSUME ~ConnectSucceeds, ~JoinCleared, ~JoinShut
        PROVE  UNCHANGED <<rpc, rmsg>>
    BY <2>3 DEF ConnectTo, AttemptStep, StartDisconnect, DisconnectStep, StartAttempt,
       NextServer, Wait, Try, ConnectFails, Install, InstallHandler, TakeQueued,
       ShutSocket, DrainTake, DrainDone, EndOfList, MoveReconnected, PushConnected,
       AttemptDone, AddServer, ShutServer, Disconnected, connVars
  <2>4. QED
    BY <1>4, <2>1, <2>2, <2>3
<1>5. QED
  BY <1>1, <1>3, <1>4, PoolAssumption DEF StagesKnown, InCall, Message, Threads

-----------------------------------------------------------------------------
(* Connections: those on the list, and those that were let go. *)

(* A receive loop that is not there stays away. *)
LEMMA ServerConnections ==
    ASSUME TypeOK, ConnectionsKnown, NEW s \in Conns, PeerStep(s) \/ Receive(s)
    PROVE  ConnectionsKnown'
<1>1. UNCHANGED <<addr, servers, conn, stage, apc>>
  BY DEF PeerStep, Send, Leave, Elapse, Receive, poolVars, serverVars, appVars
<1>2. ASSUME NEW o \in Conns, rpc[o] = "none"
      PROVE  rpc'[o] = "none"
  BY <1>2 DEF PeerStep, Send, Leave, Elapse, Receive, PeerSend, PeerClose, connVars,
     ReceiveStep, ReceiveMessage, ReceiveClosed, TestHandler, PushMessage, NextRound,
     TypeOK, ConnTypeOK
<1>3. QED
  BY <1>1, <1>2 DEF ConnectionsKnown, ListedHasConnection, ClearedIsQuiet, Quitting, On

(* processMessage() lists nothing as connected and lets nothing go. *)
LEMMA HandlerConnections ==
    ASSUME TypeOK, Placed, AppKnows, StagesKnown, ConnectionsKnown,
           NEW t \in Threads, HandlerStep(t)
    PROVE  ConnectionsKnown'
<1>1. conn' = conn /\ (Quitting <=> Quitting')
  BY HandlerFrame DEF Quitting
<1>2. ASSUME NEW s \in Conns, addr'[s] = Nowhere
      PROVE  addr[s] = Nowhere
  <2>1. \/ addr' = addr
        \/ \E o \in Conns : addr[o] = Nowhere /\ addr' = [addr EXCEPT ![o] = Message(t)]
    BY DEF HandlerStep, Ignore, LookInServers, LookInReconnect, AddUnknown,
       RequireReconnect, PushReconnect, poolVars, Unused
  <2>2. QED
    BY <1>2, <2>1 DEF TypeOK
<1>3. ASSUME NEW s \in Conns, On(servers, s)'
      PROVE  On(servers, s)
  <2>1. servers' = servers \/ \E o : servers' = RemoveAll(servers, o)
    BY DEF HandlerStep, Ignore, LookInServers, LookInReconnect, AddUnknown,
       RequireReconnect, PushReconnect, poolVars
  <2>2. QED
    BY <1>3, <2>1 DEF On, RemoveAll, TypeOK
<1>4. ASSUME NEW s \in Conns, ~conn[s]
      PROVE  rpc'[s] = "none" /\ stage'[s] = "start"
  <2>1. rpc[s] = "none" /\ stage[s] = "start"
    BY <1>4 DEF ConnectionsKnown, ClearedIsQuiet
  <2>2. t # s
    BY <2>1, HandlerFrame, PoolAssumption DEF InCall, App
  <2>3. stage'[s] = stage[s]
    BY <2>2, HandlerFrame DEF TypeOK, Threads
  <2>4. rpc'[s] = rpc[s]
    BY <2>2 DEF HandlerStep, Ignore, LookInServers, LookInReconnect, AddUnknown,
       RequireReconnect, PushReconnect, Return, GoTo, HandlerReturns, NextRound,
       connVars, TypeOK, ConnTypeOK
  <2>5. QED
    BY <2>1, <2>3, <2>4
<1>5. QED
  BY <1>1, <1>2, <1>3, <1>4 DEF ConnectionsKnown, ListedHasConnection, ClearedIsQuiet

(* reconnect(), addServer() and disconnect() make and let go connections. *)
LEMMA AppConnections ==
    ASSUME TypeOK, Placed, AppKnows, StagesKnown, ReconnectedWait, ConnectionsKnown,
           \/ \E s \in Conns, a \in Addresses : ConnectTo(s, a)
           \/ AttemptStep \/ StartDisconnect \/ DisconnectStep
    PROVE  ConnectionsKnown'
<1> USE DEF ConnectionsKnown, ListedHasConnection, ClearedIsQuiet, Quitting, On
<1>1. ASSUME NEW s \in Conns, NEW a \in Addresses, ConnectTo(s, a)
      PROVE  ConnectionsKnown'
  <2>1. UNCHANGED <<connVars, servers, conn, stage>> /\ apc = "idle"
        /\ \A o \in Conns : addr'[o] = Nowhere => addr[o] = Nowhere
    BY <1>1, PoolAssumption DEF ConnectTo, serverVars, TypeOK, Unused
  <2>2. QED
    BY <2>1 DEF connVars
<1>2. ASSUME UNCHANGED <<rpc, addr, servers, conn, stage>>, Quitting => Quitting'
      PROVE  ConnectionsKnown'
  BY <1>2
<1>3. CASE \/ StartAttempt \/ Wait \/ Try \/ ConnectFails \/ DrainDone \/ EndOfList
           \/ AttemptDone \/ StartDisconnect \/ Disconnected \/ MoveReconnected
  BY <1>2, <1>3 DEF StartAttempt, Wait, Try, ConnectFails, NotReconnected, DrainDone,
     EndOfList, AttemptDone, StartDisconnect, Disconnected, MoveReconnected, connVars,
     poolVars, serverVars
<1>4. CASE NextServer \/ Install \/ DrainTake \/ ShutServer
  BY <1>2, <1>4 DEF NextServer, Install, DrainTake, ShutServer, ShutSocket,
     InstallHandler, TakeQueued, connVars, poolVars, serverVars
<1>5. ASSUME JoinCleared \/ JoinShut
      PROVE  ConnectionsKnown'
  <2>1. /\ cur \in Conns
        /\ rpc[cur] \in {"none", "exit"}
        /\ rpc' = [rpc EXCEPT ![cur] = "none"]
        /\ conn' = [conn EXCEPT ![cur] = FALSE]
        /\ UNCHANGED <<addr, servers, stage>>
    BY <1>5 DEF JoinCleared, JoinShut, JoinReceiver, AppKnows, Reconnecting, poolVars
  <2>2. stage[cur] = "start"
    BY <2>1, PoolAssumption DEF StagesKnown, InCall, Threads, App
  <2>3. ~Quitting' => servers[cur] = 0
    <3>1. SUFFICES ASSUME JoinCleared PROVE servers[cur] = 0
      BY <1>5 DEF JoinShut
    <3>2. reconnect_servers[cur] > 0
      BY <3>1 DEF JoinCleared, AppKnows, Reconnecting
    <3>3. QED
      BY <2>1, <3>2, OnlyPlace
  <2>4. Quitting => Quitting'
    BY <1>5 DEF JoinCleared, JoinShut
  <2>5. QED
    BY <2>1, <2>2, <2>3, <2>4 DEF TypeOK, ConnTypeOK
<1>6. ASSUME ConnectSucceeds
      PROVE  ConnectionsKnown'
  <2>1. cur \in Conns /\ ~Quitting
    BY <1>6 DEF ConnectSucceeds, AppKnows, Reconnecting
  <2>2. addr[cur] # Nowhere
    <3>1. AppHolds(cur) \/ reconnect_servers[cur] > 0
      BY <1>6 DEF ConnectSucceeds, AppKnows, Reconnecting, AppHolds
    <3>2. QED
      BY <2>1, <3>1, OnlyPlace
  <2>3. QED
    BY <1>6, <2>1, <2>2 DEF ConnectSucceeds, poolVars, TypeOK, ConnTypeOK
<1>7. ASSUME PushConnected \/ AddServer
      PROVE  ConnectionsKnown'
  <2>1. /\ cur \in Conns /\ ~Quitting
        /\ UNCHANGED <<rpc, addr, conn, stage>>
        /\ servers' = servers \/ (servers' = PushBack(servers, cur) /\ conn[cur])
    BY <1>7 DEF PushConnected, AddServer, AppKnows, connVars, serverVars
  <2>2. QED
    BY <2>1 DEF PushBack, TypeOK
<1>8. QED
  BY <1>1, <1>3, <1>4, <1>5, <1>6, <1>7 DEF AttemptStep, DisconnectStep

-----------------------------------------------------------------------------
(* The invariant, and what follows from it. *)

(* The constructor of fss_client establishes the invariant, ... *)
LEMMA InvInit == Init => Inv
<1> SUFFICES ASSUME Init PROVE Inv
  OBVIOUS
<1>1. TypeOK /\ Placed
  BY InitType, InitPlaced
<1>2. AppKnows /\ ReconnectedWait
  BY DEF Init, AppKnows, ReconnectedWait, Reconnecting
<1>3. StagesKnown
  BY DEF Init, StagesKnown, Threads
<1>4. ConnectionsKnown
  BY DEF Init, ConnInit, ConnectionsKnown, ListedHasConnection, ClearedIsQuiet,
     Threads, On
<1>5. QED
  BY <1>1, <1>2, <1>3, <1>4 DEF Inv

(* ... and every step of every thread keeps it. *)
LEMMA InvStep == Inv /\ [Next]_vars => Inv'
<1> SUFFICES ASSUME Inv, [Next]_vars PROVE Inv'
  OBVIOUS
<1> USE DEF Inv
<1>1. CASE \E s \in Conns : PeerStep(s) \/ Receive(s)
  <2>1. PICK s \in Conns : PeerStep(s) \/ Receive(s)
    BY <1>1
  <2>2. Placed'
    BY <2>1 DEF PeerStep, Send, Leave, Elapse, Receive, poolVars, appVars, Placed,
       Hand, AppHolds
  <2>3. QED
    BY <2>1, <2>2, ServerTypes, ServerKnows, ServerStages, ServerConnections
<1>2. CASE \E t \in Threads : HandlerStep(t)
  BY <1>2, HandlerTypes, HandlerPlaced, HandlerKnows, HandlerStages, HandlerConnections
<1>3. CASE \/ \E s \in Conns, a \in Addresses : ConnectTo(s, a)
           \/ AttemptStep \/ StartDisconnect \/ DisconnectStep
  BY <1>3, AppTypes, AppPlaced, AppKnowsStep, AppStages, AppConnections
<1>4. CASE UNCHANGED vars
  BY <1>4 DEF vars, connVars, poolVars, serverVars, appVars, TypeOK, ConnTypeOK,
     Placed, Hand, AppHolds, AppKnows, Reconnecting, ReconnectedWait, StagesKnown,
     InCall, Message, ConnectionsKnown, ListedHasConnection, ClearedIsQuiet, Quitting,
     On
<1>5. QED
  BY <1>1, <1>2, <1>3, <1>4, NextCases

(* Every step of the pool keeps the invariant. *)
THEOREM PoolInvariance == Spec => []Inv
BY InvInit, InvStep, PTL DEF Spec

(* The lists, the loops and the calls of processMessage() are well typed. *)
THEOREM PoolTypeCorrect == Spec => []TypeOK
<1>1. Inv => TypeOK
  BY DEF Inv
<1>2. QED
  BY <1>1, PoolInvariance, PTL

(* No server is lost or listed twice between serverRequiresReconnect(),       *)
(* attemptReconnect() and connectTo().                                       *)
THEOREM InOnePlaceHolds == Spec => []InOnePlace
<1>1. ASSUME Inv, NEW s \in Conns
      PROVE  InHand(s) <=> AppHolds(s) \/ stage[s] = "push"
  BY <1>1, PoolAssumption DEF Inv, InHand, AppHolds, Attempting, StagesKnown, Server,
     Threads
<1>2. Inv => InOnePlace
  BY <1>1 DEF Inv, InOnePlace, Placed, Hand, Unused
<1>3. QED
  BY <1>2, PoolInvariance, PTL

(* What sendMsgAll() takes for granted. *)
THEOREM ListedHasConnectionHolds == Spec => []ListedHasConnection
<1>1. Inv => ListedHasConnection
  BY DEF Inv, ConnectionsKnown
<1>2. QED
  BY <1>1, PoolInvariance, PTL

(* A connection that reconnect() or disconnect() let go calls no more. *)
THEOREM ClearedIsQuietHolds == Spec => []ClearedIsQuiet
<1>1. Inv => ClearedIsQuiet
  BY DEF Inv, ConnectionsKnown
<1>2. QED
  BY <1>1, PoolInvariance, PTL

=============================================================================
