----------------------------- MODULE ServerProofs -----------------------------
(***************************************************************************)
(* The server's registry, for any number of clients: proofs that Inv of    *)
(* module Server is an invariant, and with it the safety properties.       *)
(***************************************************************************)
EXTENDS Server, ConnectionProofs, FiniteSetTheorems

USE DEF MainAt, ListenerAt

(* The elements of a queue, as Queued has them. *)
Elements(q) == {q[i] : i \in DOMAIN q}

Distinct(q) == \A i, j \in DOMAIN q : q[i] = q[j] => i = j

(* push(): one more element, and still distinct if it was not there. *)
LEMMA Push ==
    ASSUME NEW q \in Seq(Conns), NEW c \in Conns, c \notin Elements(q), Distinct(q)
    PROVE  /\ Append(q, c) \in Seq(Conns)
           /\ Elements(Append(q, c)) = Elements(q) \cup {c}
           /\ Distinct(Append(q, c))
           /\ Len(Append(q, c)) = Len(q) + 1
<1>1. Len(q) \in Nat /\ DOMAIN q = 1..Len(q)
  OBVIOUS
<1>2. /\ Append(q, c) \in Seq(Conns)
      /\ DOMAIN Append(q, c) = 1..(Len(q) + 1)
      /\ \A i \in 1..Len(q) : Append(q, c)[i] = q[i]
      /\ Append(q, c)[Len(q) + 1] = c
      /\ Len(Append(q, c)) = Len(q) + 1
  OBVIOUS
<1>3. Elements(Append(q, c)) \subseteq Elements(q) \cup {c}
  BY <1>1, <1>2 DEF Elements
<1>4. Elements(q) \cup {c} \subseteq Elements(Append(q, c))
  BY <1>1, <1>2 DEF Elements
<1>5. \A i \in 1..Len(q) : q[i] # c
  BY <1>1 DEF Elements
<1>6. Distinct(Append(q, c))
  BY <1>1, <1>2, <1>5 DEF Distinct
<1>7. QED
  BY <1>2, <1>3, <1>4, <1>6

(* front() and pop(): the front is an element, and leaves with the pop. *)
LEMMA Pop ==
    ASSUME NEW q \in Seq(Conns), q # <<>>, Distinct(q)
    PROVE  /\ Head(q) \in Conns
           /\ Head(q) \in Elements(q)
           /\ Tail(q) \in Seq(Conns)
           /\ Elements(Tail(q)) = Elements(q) \ {Head(q)}
           /\ Distinct(Tail(q))
           /\ Len(q) = Len(Tail(q)) + 1
<1>1. Len(q) \in Nat /\ Len(q) # 0 /\ Head(q) = q[1] /\ DOMAIN q = 1..Len(q)
  OBVIOUS
<1>2. /\ Tail(q) \in Seq(Conns)
      /\ Len(Tail(q)) = Len(q) - 1
      /\ \A i \in 1..(Len(q) - 1) : Tail(q)[i] = q[i + 1]
      /\ DOMAIN Tail(q) = 1..(Len(q) - 1)
  BY <1>1
<1>3. Elements(Tail(q)) \subseteq Elements(q) \ {Head(q)}
  BY <1>1, <1>2 DEF Elements, Distinct
<1>4. ASSUME NEW x \in Elements(q) \ {Head(q)}
      PROVE  x \in Elements(Tail(q))
  <2>1. PICK i \in 1..Len(q) : x = q[i]
    BY <1>1 DEF Elements
  <2>2. i - 1 \in 1..(Len(q) - 1) /\ Tail(q)[i - 1] = x
    BY <1>1, <1>2, <1>4, <2>1
  <2>3. QED
    BY <1>2, <2>2 DEF Elements
<1>5. Distinct(Tail(q))
  BY <1>1, <1>2 DEF Distinct
<1>6. Head(q) \in Elements(q) /\ Head(q) \in Conns
  BY <1>1 DEF Elements
<1>7. Elements(Tail(q)) = Elements(q) \ {Head(q)}
  BY <1>3, <1>4
<1>8. QED
  BY <1>1, <1>2, <1>5, <1>6, <1>7

(* Adding to and removing from the list of clients. *)
LEMMA ListCount ==
    ASSUME IsFiniteSet(clients), NEW c \in Conns
    PROVE  /\ Cardinality(clients) \in Nat
           /\ IsFiniteSet(clients \cup {c})
           /\ IsFiniteSet(clients \ {c})
           /\ c \notin clients =>
                Cardinality(clients \cup {c}) = Cardinality(clients) + 1
           /\ c \in clients =>
                Cardinality(clients \ {c}) = Cardinality(clients) - 1
BY FS_AddElement, FS_RemoveElement, FS_CardinalityType

(* The constructors and main() before the loop establish the invariant. *)
LEMMA InitInv == Init => Inv
<1>1. SUFFICES ASSUME Init PROVE Inv
  OBVIOUS
<1>2. TypeOK
  <2>1. ConnTypeOK
    BY <1>1, ConnInitType DEF Init
  <2>2. /\ stage \in [Handlers -> {"start", "hold", "reply", "lock", "walk"}]
        /\ cursor \in [Walkers -> Conns \cup {Nobody}]
        /\ seen \in [Walkers -> SUBSET Conns]
    BY <1>1 DEF Init
  <2>3. /\ obj \in [Conns -> {"none", "alive", "dying", "freed"}]
        /\ identified \in [Conns -> BOOLEAN]
    BY <1>1 DEF Init
  <2>4. clients \subseteq Conns /\ disconnected \in Seq(Conns) /\ total_clients \in Nat
    BY <1>1 DEF Init
  <2>5. lock \in BOOLEAN /\ shutting_down \in BOOLEAN /\ listenOpen \in BOOLEAN
        /\ running \in BOOLEAN /\ aborted \in BOOLEAN
    BY <1>1 DEF Init
  <2>6. lpc \in ListenerPCs /\ mpc \in MainPCs /\ lmsg \in Received
        /\ lconn \in Conns \cup {Nobody} /\ mcur \in Conns \cup {Nobody}
    BY <1>1 DEF Init, ListenerPCs, MainPCs, Received
  <2>7. QED
    BY <2>1, <2>2, <2>3, <2>4, <2>5, <2>6 DEF TypeOK
<1>3. IsFiniteSet(clients) /\ Accounting
  <2>1. clients = {} /\ disconnected = <<>> /\ total_clients = 0
    BY <1>1 DEF Init
  <2>2. IsFiniteSet(clients) /\ Cardinality(clients) = 0
    BY <2>1, FS_EmptySet
  <2>3. Len(disconnected) = 0 /\ DOMAIN disconnected = {}
    BY <2>1
  <2>4. QED
    BY <2>1, <2>2, <2>3 DEF Accounting, Queued
<1>4. Ownership /\ FreedIsQuiet /\ MainWalkAlive /\ MainInv
  BY <1>1, ServerAssumption DEF Init, Ownership, FreedIsQuiet, MainWalkAlive,
     MainInv, Queued, Walkers
<1>5. ListenerInv /\ ThreadInv
  BY <1>1 DEF Init, ListenerInv, ThreadInv, Handlers, ConnInit
<1>6. QED
  BY <1>2, <1>3, <1>4, <1>5 DEF Inv

-----------------------------------------------------------------------------
(***************************************************************************)
(* Steps that change nothing the registry depends on: a message is sent,   *)
(* read, queued, taken or handled, a walk moves.  They have this in common.*)
(***************************************************************************)
QuietTypes ==
    /\ ConnTypeOK'
    /\ lock' \in BOOLEAN /\ listenOpen' \in BOOLEAN
    /\ running' \in BOOLEAN /\ aborted' \in BOOLEAN
    /\ identified' \in [Conns -> BOOLEAN]
    /\ stage' \in [Handlers -> {"start", "hold", "reply", "lock", "walk"}]
    /\ cursor' \in [Walkers -> Conns \cup {Nobody}]
    /\ seen' \in [Walkers -> SUBSET Conns]
    /\ lmsg' \in Received

QuietFrame ==
    /\ UNCHANGED <<clients, disconnected, total_clients, shutting_down>>
    /\ UNCHANGED <<obj, fd, lconn, mpc, mcur>>
    /\ lpc' = lpc \/ {lpc, lpc'} = {"drain", "handle"}

QuietThreads ==
    /\ \A c \in Conns : rpc[c] = "none" => rpc'[c] = "none"
    /\ \A c \in Conns : rpc'[c] # "call" => stage'[c] = "start"
    /\ \A c \in Conns : obj[c] = "freed" => rpc'[c] = rpc[c] /\ stage'[c] = stage[c]
    /\ lpc' # "handle" => stage'[Listener] = "start"
    /\ \/ cursor'[Main] = cursor[Main]
       \/ mpc = "walk" /\ cursor'[Main] \in clients

LEMMA Quiet == Inv /\ QuietTypes /\ QuietFrame /\ QuietThreads => Inv'
<1>1. SUFFICES ASSUME Inv, QuietTypes, QuietFrame, QuietThreads PROVE Inv'
  OBVIOUS
<1>2. TypeOK'
  <2>1. lpc' \in ListenerPCs
    BY <1>1 DEF Inv, TypeOK, QuietFrame, ListenerPCs
  <2>2. QED
    BY <1>1, <2>1 DEF Inv, TypeOK, QuietTypes, QuietFrame
<1>3. IsFiniteSet(clients)' /\ Accounting'
  BY <1>1 DEF Inv, Accounting, Queued, QuietFrame
<1>4. Ownership'
  BY <1>1 DEF Inv, Ownership, Queued, QuietFrame
<1>5. FreedIsQuiet'
  BY <1>1 DEF Inv, FreedIsQuiet, QuietFrame, QuietThreads
<1>6. MainWalkAlive'
  BY <1>1 DEF Inv, MainWalkAlive, Ownership, TypeOK, QuietFrame, QuietThreads
<1>7. ListenerInv'
  BY <1>1 DEF Inv, ListenerInv, Queued, QuietFrame, QuietThreads
<1>8. MainInv'
  BY <1>1 DEF Inv, MainInv, QuietFrame, QuietThreads
<1>9. ThreadInv'
  BY <1>1 DEF Inv, ThreadInv, QuietFrame, QuietThreads
<1>10. QED
  BY <1>2, <1>3, <1>4, <1>5, <1>6, <1>7, <1>8, <1>9 DEF Inv

(* What a peer does is quiet. *)
LEMMA PeerInv ==
    ASSUME Inv, NEW c \in Conns, (\E m \in Msgs : Send(c, m)) \/ Leave(c)
    PROVE  Inv'
<1>1. (\E m \in Msgs : PeerSend(c, m)) \/ PeerClose(c)
  BY DEF Send, Leave
<1>2. UNCHANGED <<registryVars, objectVars, walkVars, listenerVars, mainVars>>
  BY DEF Send, Leave
<1>3. UNCHANGED <<fd, rpc>>
  BY <1>1 DEF PeerSend, PeerClose
<1>4. QuietTypes
  BY <1>1, <1>2, PeerType
  DEF QuietTypes, Inv, TypeOK, registryVars, objectVars, walkVars, listenerVars, mainVars
<1>5. QuietFrame /\ QuietThreads
  BY <1>2, <1>3
  DEF QuietFrame, QuietThreads, Inv, ThreadInv, ListenerInv, registryVars, objectVars,
      walkVars, listenerVars, mainVars
<1>6. QED
  BY <1>4, <1>5, Quiet

(* The receive thread between two calls of the handler is quiet. *)
LEMMA ReceiveInv ==
    ASSUME Inv, NEW c \in Conns, Receive(c)
    PROVE  Inv'
<1>1. ReceiveStep(c)
  BY DEF Receive
<1>2. UNCHANGED <<registryVars, objectVars, walkVars, listenerVars, mainVars>>
  BY DEF Receive
<1>3. fd' = fd /\ \A d \in Conns : (rpc[d] = "none" => rpc'[d] = "none")
                                 /\ (rpc'[d] # "call" => rpc[d] # "call")
                                 /\ (obj[d] = "freed" => rpc'[d] = rpc[d])
  BY <1>1
  DEF ReceiveStep, ReceiveMessage, ReceiveClosed, TestHandler, PushMessage, NextRound,
      Inv, TypeOK, ConnTypeOK, FreedIsQuiet
<1>4. QuietTypes
  BY <1>1, <1>2, ReceiveType
  DEF QuietTypes, Inv, TypeOK, registryVars, objectVars, walkVars, listenerVars, mainVars
<1>5. QuietFrame /\ QuietThreads
  BY <1>2, <1>3
  DEF QuietFrame, QuietThreads, Inv, ThreadInv, ListenerInv, registryVars, objectVars,
      walkVars, listenerVars, mainVars
<1>6. QED
  BY <1>4, <1>5, Quiet

(* A call of processMessage() returns to the loop that made it: the receive  *)
(* thread's, or the drain of setHandler() on the listener.                   *)
LEMMA ReturnStep ==
    ASSUME Inv, NEW t \in Handlers, InCall(t), Return(t)
    PROVE  /\ ConnTypeOK'
           /\ lmsg' \in Received /\ listenOpen' \in BOOLEAN
           /\ UNCHANGED <<fd, lconn>>
           /\ lpc' = lpc \/ {lpc, lpc'} = {"drain", "handle"}
           /\ lpc' # "handle" => lpc # "handle" \/ t = Listener
           /\ \A c \in Conns : rpc[c] = "none" => rpc'[c] = "none"
           /\ \A c \in Conns : rpc'[c] # "call" => rpc[c] # "call" \/ t = c
           /\ \A c \in Conns : rpc'[c] = rpc[c] \/ t = c
<1>1. CASE t = Listener
  <2>1. /\ lpc = "handle" /\ lpc' = "drain" /\ lmsg' = Null
        /\ UNCHANGED <<connVars, lconn, listenOpen>>
    BY <1>1 DEF InCall, Return
  <2>2. ConnTypeOK'
    BY <2>1 DEF Inv, TypeOK, ConnTypeOK, connVars
  <2>3. QED
    BY <1>1, <2>1, <2>2 DEF Inv, TypeOK, connVars, Received
<1>2. CASE t # Listener
  <2>1. t \in Conns /\ HandlerReturns(t) /\ UNCHANGED listenerVars /\ rpc[t] = "call"
    BY <1>2 DEF Handlers, Return, InCall
  <2>2. ConnTypeOK'
    BY <2>1, ReceiveType DEF Inv, TypeOK
  <2>3. QED
    BY <2>1, <2>2
    DEF HandlerReturns, NextRound, Inv, TypeOK, ConnTypeOK, listenerVars
<1>3. QED
  BY <1>1, <1>2

(* The client whose processMessage() this is has not been freed. *)
CallerAlive(t) == stage[t] # "hold" \/ obj[Client(t)] # "freed"

LEMMA CallerNotFreed ==
    ASSUME Inv, NEW t \in Handlers, InCall(t), CallerAlive(t)
    PROVE  t # Listener => obj[t] # "freed"
BY DEF Inv, FreedIsQuiet, CallerAlive, InCall, Client, Handlers

(* A call that returns with the registry untouched is quiet; stage and the   *)
(* walk of the thread may be reset on the way.                               *)
LEMMA ReturnInv ==
    ASSUME Inv, NEW t \in Handlers, InCall(t), Return(t), CallerAlive(t),
           UNCHANGED <<registryVars, obj, mainVars>>,
           identified' \in [Conns -> BOOLEAN],
           stage' = [stage EXCEPT ![t] = "start"],
           \/ UNCHANGED <<cursor, seen>>
           \/ /\ cursor' = [cursor EXCEPT ![t] = Nobody]
              /\ seen' = [seen EXCEPT ![t] = {}]
    PROVE  Inv'
<1>1. t # Main
  BY ServerAssumption DEF Handlers
<1>2. QuietTypes
  BY ReturnStep DEF QuietTypes, Inv, TypeOK, registryVars, mainVars
<1>3. QuietFrame
  BY ReturnStep DEF QuietFrame, registryVars, mainVars
<1>4. cursor'[Main] = cursor[Main]
  BY <1>1 DEF Inv, TypeOK, Walkers
<1>5. QuietThreads
  <2>1. \A c \in Conns : rpc[c] = "none" => rpc'[c] = "none"
    BY ReturnStep
  <2>2. \A c \in Conns : rpc'[c] # "call" => stage'[c] = "start"
    BY ReturnStep DEF Inv, TypeOK, ThreadInv, Handlers
  <2>3. lpc' # "handle" => stage'[Listener] = "start"
    BY ReturnStep DEF Inv, TypeOK, ListenerInv, Handlers
  <2>4. \A c \in Conns : obj[c] = "freed" => rpc'[c] = rpc[c] /\ stage'[c] = stage[c]
    BY ReturnStep, CallerNotFreed, ServerAssumption DEF Inv, TypeOK, Handlers
  <2>5. QED
    BY <1>4, <2>1, <2>2, <2>3, <2>4 DEF QuietThreads
<1>6. QED
  BY <1>2, <1>3, <1>5, Quiet

(* A walk that moves on is quiet, the main thread's too. *)
LEMMA WalkNextInv ==
    ASSUME Inv, NEW t \in Walkers, WalkNext(t)
    PROVE  Inv'
<1>1. PICK c \in clients \ seen[t] :
        /\ cursor' = [cursor EXCEPT ![t] = c]
        /\ seen' = [seen EXCEPT ![t] = @ \cup {c}]
  BY DEF WalkNext
<1>2. /\ UNCHANGED <<connVars, listenerVars, registryVars, objectVars, stage, mainVars>>
      /\ t = Main => mpc = "walk"
  BY DEF WalkNext, StayInCall, Walking
<1>3. c \in Conns
  BY <1>1 DEF Inv, TypeOK
<1>4. ConnTypeOK'
  BY <1>2 DEF Inv, TypeOK, ConnTypeOK, connVars
<1>5. QuietTypes
  BY <1>1, <1>2, <1>3, <1>4
  DEF QuietTypes, Inv, TypeOK, registryVars, objectVars, listenerVars, mainVars
<1>6. QuietFrame
  BY <1>2 DEF QuietFrame, connVars, registryVars, objectVars, listenerVars, mainVars
<1>7. \/ cursor'[Main] = cursor[Main]
      \/ mpc = "walk" /\ cursor'[Main] \in clients
  BY <1>1, <1>2 DEF Inv, TypeOK, Walkers
<1>8. QuietThreads
  BY <1>2, <1>7
  DEF QuietThreads, Inv, ThreadInv, ListenerInv, connVars, listenerVars
<1>9. QED
  BY <1>5, <1>6, <1>8, Quiet

(* processMessage() is quiet but for clientDisconnected() with the lock. *)
LEMMA HandlerInv ==
    ASSUME Inv, NEW t \in Handlers, HandlerStep(t)
    PROVE  Inv'
<1>1. t \in Walkers
  BY DEF Walkers
<1>2. ASSUME InCall(t), Return(t), CallerAlive(t),
             UNCHANGED <<registryVars, obj, cursor, seen, mainVars>>,
             identified' \in [Conns -> BOOLEAN],
             stage' = [stage EXCEPT ![t] = "start"] \/ (stage[t] = "start" /\ stage' = stage)
      PROVE  Inv'
  <2>1. stage' = [stage EXCEPT ![t] = "start"]
    BY <1>2 DEF Inv, TypeOK
  <2>2. QED
    BY <1>2, <2>1, ReturnInv
<1>3. ASSUME InCall(t), StayInCall, CallerAlive(t), NEW s \in {"hold", "reply", "lock", "walk"},
             stage' = [stage EXCEPT ![t] = s], identified' \in [Conns -> BOOLEAN],
             UNCHANGED <<registryVars, obj, cursor, seen, mainVars>>
      PROVE  Inv'
  <2>1. ConnTypeOK'
    BY <1>3 DEF StayInCall, Inv, TypeOK, ConnTypeOK, connVars
  <2>2. QuietTypes
    BY <1>3, <2>1
    DEF StayInCall, QuietTypes, Inv, TypeOK, registryVars, listenerVars, mainVars
  <2>3. QuietFrame
    BY <1>3 DEF StayInCall, QuietFrame, connVars, registryVars, listenerVars, mainVars
  <2>4. QuietThreads
    BY <1>3, ServerAssumption, CallerNotFreed
    DEF StayInCall, InCall, QuietThreads, Inv, TypeOK, ThreadInv, ListenerInv,
        Handlers, connVars, listenerVars
  <2>5. QED
    BY <2>2, <2>3, <2>4, Quiet
<1>4. ASSUME StayInCall, aborted' = TRUE, UNCHANGED <<running, mpc, mcur>>,
             UNCHANGED <<registryVars, objectVars, walkVars>>
      PROVE  Inv'
  <2>1. ConnTypeOK'
    BY <1>4 DEF StayInCall, Inv, TypeOK, ConnTypeOK, connVars
  <2>2. QuietTypes
    BY <1>4, <2>1
    DEF StayInCall, QuietTypes, Inv, TypeOK, registryVars, objectVars, walkVars,
        listenerVars
  <2>3. QuietFrame
    BY <1>4 DEF StayInCall, QuietFrame, connVars, registryVars, objectVars, listenerVars
  <2>4. QuietThreads
    BY <1>4 DEF StayInCall, QuietThreads, Inv, ThreadInv, ListenerInv, connVars,
       walkVars, listenerVars
  <2>5. QED
    BY <2>2, <2>3, <2>4, Quiet
<1>5. identified \in [Conns -> BOOLEAN]
  BY DEF Inv, TypeOK
<1>6. CASE Ignore(t)
  BY <1>2, <1>5, <1>6
  DEF Ignore, Starting, CallerAlive, registryVars, objectVars, walkVars
<1>7. CASE IdentifyNonAircraft(t)
  <2>1. identified' \in [Conns -> BOOLEAN]
    BY <1>5, <1>7 DEF IdentifyNonAircraft
  <2>2. QED
    BY <1>2, <1>7, <2>1 DEF IdentifyNonAircraft, Starting, CallerAlive, walkVars
<1>8. CASE StartReply(t) \/ StartRelay(t)
  BY <1>3, <1>5, <1>8 DEF StartReply, StartRelay, Starting, CallerAlive, objectVars
<1>9. CASE ReplyReturns(t)
  BY <1>2, <1>5, <1>9 DEF ReplyReturns, CallerAlive, objectVars
<1>10. CASE HoldConnection(t)
  <2>1. identified' \in [Conns -> BOOLEAN]
    BY <1>5, <1>10 DEF HoldConnection
  <2>2. QED
    BY <1>3, <1>10, <2>1 DEF HoldConnection, Starting, CallerAlive
<1>11. CASE UseCleared(t) \/ LastReference(t)
  BY <1>4, <1>11 DEF UseCleared, LastReference
<1>12. CASE ReleaseConnection(t)
  BY <1>2, <1>5, <1>12 DEF ReleaseConnection, Holding, CallerAlive, objectVars
<1>13. CallsDisconnected(t) => InCall(t) /\ CallerAlive(t)
  BY DEF CallsDisconnected, Starting, Holding, CallerAlive
<1>14. CASE DisconnectDuringShutdown(t)
  BY <1>2, <1>5, <1>13, <1>14 DEF DisconnectDuringShutdown, objectVars
<1>15. CASE WaitForLock(t)
  BY <1>3, <1>5, <1>13, <1>15 DEF WaitForLock, objectVars
<1>16. CASE WalkNext(t)
  BY <1>1, <1>16, WalkNextInv
<1>17. CASE RelayEnd(t)
  <2>1. stage[t] = "walk" /\ InCall(t)
    BY <1>17, ServerAssumption DEF RelayEnd, Walking, Handlers
  <2>2. QED
    BY <1>5, <1>17, <2>1, ReturnInv DEF RelayEnd, CallerAlive, objectVars
<1>18. QED
  BY <1>6, <1>7, <1>8, <1>9, <1>10, <1>11, <1>12, <1>14, <1>15, <1>16, <1>17
  DEF HandlerStep

-----------------------------------------------------------------------------
(* The listener. *)

(* Taking a message off the queue in setHandler() is quiet. *)
LEMMA DrainTakeInv ==
    ASSUME Inv, NEW c \in Conns, DrainTake(c)
    PROVE  Inv'
<1>1. /\ TakeQueued(c) /\ lpc = "drain" /\ lpc' = "handle"
      /\ lmsg' = Head(messages[c]) /\ messages[c] # <<>>
      /\ UNCHANGED <<registryVars, objectVars, walkVars, lconn, listenOpen, mainVars>>
  BY DEF DrainTake, TakeQueued
<1>2. UNCHANGED <<fd, rpc>>
  BY <1>1 DEF TakeQueued
<1>3. ConnTypeOK'
  BY <1>1, OwnerType DEF Inv, TypeOK
<1>4. lmsg' \in Received
  BY <1>1 DEF Inv, TypeOK, ConnTypeOK
<1>5. QuietTypes
  BY <1>1, <1>3, <1>4
  DEF QuietTypes, Inv, TypeOK, registryVars, objectVars, walkVars, mainVars
<1>6. QuietFrame
  BY <1>1, <1>2 DEF QuietFrame, registryVars, objectVars, mainVars
<1>7. QuietThreads
  BY <1>1, <1>2 DEF QuietThreads, Inv, ThreadInv, walkVars
<1>8. QED
  BY <1>5, <1>6, <1>7, Quiet

(* accept() picks a connection that has no socket, hence no client object. *)
LEMMA AcceptInv ==
    ASSUME Inv, NEW c \in Conns, Accept(c)
    PROVE  Inv'
<1>1. /\ lpc = "accept" /\ lpc' = "handshake" /\ fd[c] = "unset" /\ lconn' = c
      /\ UNCHANGED <<connVars, registryVars, objectVars, walkVars, lmsg, listenOpen,
                     mainVars>>
  BY DEF Accept
<1>2. TypeOK'
  BY <1>1 DEF Inv, TypeOK, ConnTypeOK, ListenerPCs, connVars, registryVars, objectVars,
     walkVars, mainVars
<1>3. IsFiniteSet(clients)' /\ Accounting' /\ FreedIsQuiet' /\ MainWalkAlive'
  BY <1>1 DEF Inv, Accounting, Queued, FreedIsQuiet, MainWalkAlive, connVars,
     registryVars, objectVars, walkVars
<1>4. Ownership'
  BY <1>1 DEF Inv, Ownership, Queued, registryVars, objectVars
<1>5. ListenerInv'
  BY <1>1, ServerAssumption DEF Inv, ListenerInv, connVars, walkVars
<1>6. MainInv' /\ ThreadInv'
  BY <1>1 DEF Inv, MainInv, ThreadInv, connVars, registryVars, objectVars, walkVars,
     mainVars
<1>7. QED
  BY <1>2, <1>3, <1>4, <1>5, <1>6 DEF Inv

(* The handshake opens the socket, whatever its outcome. *)
LEMMA HandshakeInv ==
    ASSUME Inv, NEW c \in Conns, Handshake(c)
    PROVE  Inv'
<1>1. PICK ok \in BOOLEAN : OpenSocket(c, ok)
  BY ServerAssumption DEF Handshake
<1>2. /\ lpc = "handshake" /\ lpc' = "attach" /\ lconn = c
      /\ UNCHANGED <<registryVars, objectVars, walkVars, lconn, lmsg, listenOpen,
                     mainVars>>
  BY DEF Handshake
<1>3. ConnTypeOK'
  BY <1>1, OwnerType DEF Inv, TypeOK
<1>4. TypeOK'
  BY <1>2, <1>3 DEF Inv, TypeOK, ListenerPCs, registryVars, objectVars, walkVars, mainVars
<1>5. /\ fd[c] = "unset" /\ fd' = [fd EXCEPT ![c] = "open"]
      /\ \A d \in Conns \ {c} : rpc'[d] = rpc[d]
      /\ rpc'[c] # "call" /\ handler' = handler
  BY <1>1 DEF OpenSocket, Inv, TypeOK, ConnTypeOK
<1>6. obj[c] = "none" /\ c \notin clients
  BY <1>5 DEF Inv, ThreadInv, Ownership
<1>7. IsFiniteSet(clients)' /\ Accounting' /\ MainWalkAlive'
  BY <1>2 DEF Inv, Accounting, Queued, MainWalkAlive, registryVars, objectVars, walkVars
<1>8. Ownership'
  BY <1>2 DEF Inv, Ownership, Queued, registryVars, objectVars
<1>9. FreedIsQuiet'
  BY <1>2, <1>5, <1>6 DEF Inv, FreedIsQuiet, objectVars, walkVars
<1>10. ListenerInv'
  BY <1>2, <1>5, <1>6 DEF Inv, TypeOK, ConnTypeOK, ListenerInv, objectVars, walkVars
<1>11. MainInv'
  BY <1>2 DEF Inv, MainInv, registryVars, objectVars, walkVars, mainVars
<1>12. ThreadInv'
  BY <1>2, <1>5, <1>6 DEF Inv, TypeOK, ConnTypeOK, ThreadInv, registryVars, objectVars,
     walkVars, mainVars
<1>13. QED
  BY <1>4, <1>7, <1>8, <1>9, <1>10, <1>11, <1>12 DEF Inv

(* The constructor of fss_client brings the object into being, owned by the  *)
(* listener until it is registered.                                          *)
LEMMA AttachInv ==
    ASSUME Inv, NEW c \in Conns, Attach(c)
    PROVE  Inv'
<1>1. /\ InstallHandler(c) /\ lpc = "attach" /\ lpc' = "drain" /\ lconn = c
      /\ obj' = [obj EXCEPT ![c] = "alive"]
      /\ UNCHANGED <<registryVars, identified, walkVars, lconn, lmsg, listenOpen, mainVars>>
  BY DEF Attach
<1>2. UNCHANGED <<fd, rpc>>
  BY <1>1 DEF InstallHandler
<1>3. ConnTypeOK'
  BY <1>1, OwnerType DEF Inv, TypeOK
<1>4. TypeOK'
  BY <1>1, <1>3 DEF Inv, TypeOK, ListenerPCs, registryVars, walkVars, mainVars
<1>5. obj[c] = "none" /\ fd[c] = "open" /\ c \notin clients \cup Queued
  BY <1>1 DEF Inv, ListenerInv, Ownership
<1>6. IsFiniteSet(clients)' /\ Accounting'
  BY <1>1 DEF Inv, Accounting, Queued, registryVars
<1>7. Ownership'
  BY <1>1, <1>5 DEF Inv, TypeOK, Ownership, Queued, registryVars
<1>8. FreedIsQuiet' /\ MainWalkAlive'
  BY <1>1, <1>2 DEF Inv, TypeOK, FreedIsQuiet, MainWalkAlive, walkVars
<1>9. ListenerInv'
  BY <1>1, <1>2, <1>5 DEF Inv, ListenerInv, Queued, registryVars, walkVars
<1>10. MainInv'
  <2>1. \A d \in Conns : obj'[d] = "dying" <=> obj[d] = "dying"
    BY <1>1, <1>5 DEF Inv, TypeOK
  <2>2. lpc # "stopped"
    BY <1>1
  <2>3. QED
    BY <1>1, <2>1, <2>2 DEF Inv, MainInv, registryVars, walkVars, mainVars
<1>11. ThreadInv'
  BY <1>1, <1>2, <1>5 DEF Inv, TypeOK, ThreadInv, registryVars, walkVars, mainVars
<1>12. QED
  BY <1>4, <1>6, <1>7, <1>8, <1>9, <1>10, <1>11 DEF Inv

(* setHandler() returns, or the listener leaves its loop: only lpc moves. *)
LEMMA ListenerMoveInv ==
    ASSUME Inv, ListenerStops \/ \E c \in Conns : DrainDone(c)
    PROVE  Inv'
<1>1. /\ \/ lpc = "accept" /\ lpc' = "stopped"
         \/ lpc = "drain" /\ lpc' = "register"
      /\ UNCHANGED <<connVars, registryVars, objectVars, walkVars, lconn, lmsg,
                     listenOpen, mainVars>>
  BY DEF ListenerStops, DrainDone
<1>2. TypeOK'
  BY <1>1 DEF Inv, TypeOK, ConnTypeOK, ListenerPCs, connVars, registryVars, objectVars,
     walkVars, mainVars
<1>3. IsFiniteSet(clients)' /\ Accounting' /\ FreedIsQuiet' /\ MainWalkAlive'
  BY <1>1 DEF Inv, Accounting, Queued, FreedIsQuiet, MainWalkAlive, connVars,
     registryVars, objectVars, walkVars
<1>4. Ownership'
  BY <1>1 DEF Inv, Ownership, Queued, registryVars, objectVars
<1>5. ListenerInv'
  BY <1>1 DEF Inv, ListenerInv, Queued, connVars, registryVars, objectVars, walkVars
<1>6. MainInv' /\ ThreadInv'
  BY <1>1 DEF Inv, MainInv, ThreadInv, connVars, registryVars, objectVars, walkVars,
     mainVars
<1>7. QED
  BY <1>2, <1>3, <1>4, <1>5, <1>6 DEF Inv

(* clientConnected(): one more in the list, one more counted. *)
LEMMA ClientConnectedInv ==
    ASSUME Inv, NEW c \in Conns, ClientConnected(c)
    PROVE  Inv'
<1>1. /\ lpc = "register" /\ lpc' = "accept" /\ lconn = c /\ lconn' = Nobody
      /\ total_clients' = total_clients + 1 /\ clients' = clients \cup {c}
      /\ UNCHANGED <<connVars, lock, disconnected, shutting_down, objectVars, walkVars,
                     lmsg, listenOpen, mainVars>>
  BY DEF ClientConnected
<1>2. c \notin clients \cup Queued /\ fd[c] = "open" /\ obj[c] = "alive"
  BY <1>1 DEF Inv, ListenerInv, Ownership
<1>3. ~shutting_down
  BY <1>1 DEF Inv, MainInv
<1>4. TypeOK'
  BY <1>1 DEF Inv, TypeOK, ConnTypeOK, ListenerPCs, connVars, objectVars, walkVars,
     mainVars
<1>5. IsFiniteSet(clients)' /\ Accounting'
  <2>1. IsFiniteSet(clients') /\ Cardinality(clients') = Cardinality(clients) + 1
    BY <1>1, <1>2, ListCount DEF Inv
  <2>2. Len(disconnected) \in Nat /\ Cardinality(clients) \in Nat
    BY FS_CardinalityType DEF Inv, TypeOK
  <2>3. QED
    BY <1>1, <1>2, <1>3, <2>1, <2>2 DEF Inv, TypeOK, Accounting, Queued
<1>6. Ownership'
  BY <1>1, <1>2, ServerAssumption DEF Inv, Ownership, Queued, objectVars
<1>7. FreedIsQuiet' /\ MainWalkAlive'
  BY <1>1 DEF Inv, FreedIsQuiet, MainWalkAlive, connVars, objectVars, walkVars
<1>8. ListenerInv'
  BY <1>1, ServerAssumption DEF Inv, ListenerInv, walkVars
<1>9. MainInv'
  BY <1>1 DEF Inv, MainInv, objectVars, walkVars, mainVars
<1>10. ThreadInv'
  <2>1. mpc \notin {"destroy", "done"}
    BY <1>3 DEF Inv, MainInv
  <2>2. QED
    BY <1>1, <1>2, <1>3, <2>1
    DEF Inv, ThreadInv, connVars, objectVars, walkVars, mainVars
<1>11. QED
  BY <1>4, <1>5, <1>6, <1>7, <1>8, <1>9, <1>10 DEF Inv

-----------------------------------------------------------------------------
(* clientDisconnected() with the lock, on any thread: from the list to the    *)
(* queue, or nothing if the client is not in the list.                       *)
LEMMA ClientDisconnectedInv ==
    ASSUME Inv, NEW t \in Handlers, ClientDisconnected(t)
    PROVE  Inv'
<1> DEFINE c == Client(t)
<1>1. /\ InCall(t) /\ Return(t) /\ stage[t] = "lock"
      /\ stage' = [stage EXCEPT ![t] = "start"]
      /\ UNCHANGED <<lock, total_clients, shutting_down, objectVars, cursor, seen,
                     mainVars>>
  BY DEF ClientDisconnected
<1>2. c \in Conns
  BY <1>1 DEF InCall, Client, Handlers, Inv, TypeOK, ListenerInv
<1>3. CASE c \notin clients
  <2>1. UNCHANGED <<clients, disconnected>>
    BY <1>3 DEF ClientDisconnected
  <2>2. UNCHANGED <<registryVars, obj, mainVars, cursor, seen>>
        /\ identified' \in [Conns -> BOOLEAN] /\ CallerAlive(t)
    BY <1>1, <2>1 DEF registryVars, objectVars, Inv, TypeOK, CallerAlive
  <2>3. QED
    BY <1>1, <2>2, ReturnInv
<1>4. CASE c \in clients
  <2>1. /\ disconnected' = Append(disconnected, c)
        /\ clients' = clients \ {c}
    BY <1>4 DEF ClientDisconnected
  <2>2. c \notin Elements(disconnected) /\ Distinct(disconnected)
    BY <1>4 DEF Inv, Accounting, Queued, Elements, Distinct
  <2>3. /\ disconnected' \in Seq(Conns)
        /\ Queued' = Queued \cup {c}
        /\ Distinct(disconnected')
        /\ Len(disconnected') = Len(disconnected) + 1
    <3>1. disconnected \in Seq(Conns)
      BY DEF Inv, TypeOK
    <3>2. QED
      BY <1>2, <2>1, <2>2, <3>1, Push DEF Queued, Elements
  <2>4. TypeOK'
    <3>1. lpc' \in ListenerPCs
      BY <1>1, ReturnStep DEF Inv, TypeOK, ListenerPCs
    <3>2. QED
      BY <1>1, <2>1, <2>3, <3>1, ReturnStep DEF Inv, TypeOK, objectVars, mainVars
  <2>5. IsFiniteSet(clients)' /\ Accounting'
    <3>1. IsFiniteSet(clients') /\ Cardinality(clients') = Cardinality(clients) - 1
      BY <1>2, <1>4, <2>1, ListCount DEF Inv
    <3>2. Len(disconnected) \in Nat /\ Cardinality(clients) \in Nat
      BY FS_CardinalityType DEF Inv, TypeOK
    <3>3. ~shutting_down' =>
            total_clients' = Cardinality(clients') + Len(disconnected')
      BY <1>1, <2>3, <3>1, <3>2 DEF Inv, TypeOK, Accounting
    <3>4. clients' \cap Queued' = {}
      BY <1>4, <2>1, <2>3 DEF Inv, Accounting
    <3>5. QED
      BY <2>3, <3>1, <3>3, <3>4 DEF Accounting, Distinct
  <2>6. clients' \cup Queued' = clients \cup Queued
    BY <1>4, <2>1, <2>3
  <2>7. Ownership'
    BY <1>1, <2>6, ReturnStep DEF Inv, Ownership, objectVars
  <2>8. stage'[t] = "start" /\ \A u \in Handlers \ {t} : stage'[u] = stage[u]
    BY <1>1 DEF Inv, TypeOK
  <2>9. FreedIsQuiet' /\ MainWalkAlive'
    <3>1. t # Listener => obj[t] # "freed"
      BY <1>1, CallerNotFreed DEF CallerAlive
    <3>2. QED
      BY <1>1, <2>8, <3>1, ReturnStep DEF Inv, FreedIsQuiet, MainWalkAlive, objectVars, Handlers
  <2>10. ListenerInv'
    BY <1>1, <2>6, <2>8, ReturnStep DEF Inv, ListenerInv, objectVars, Handlers
  <2>11. MainInv'
    BY <1>1, ReturnStep DEF Inv, MainInv, objectVars, mainVars
  <2>12. ThreadInv'
    BY <1>1, <2>1, <2>8, ReturnStep
    DEF Inv, ThreadInv, objectVars, mainVars, Handlers
  <2>13. QED
    BY <2>4, <2>5, <2>7, <2>9, <2>10, <2>11, <2>12 DEF Inv
<1>5. QED
  BY <1>3, <1>4

-----------------------------------------------------------------------------
(* The main thread. *)

(* Where the main thread goes without touching a client: into and out of     *)
(* cleanup and walk, and down the steps of the shutdown.                     *)
MainMoves ==
    \/ mpc = "sleep" /\ mpc' = "cleanup"
    \/ mpc = "cleanup" /\ mpc' = "walk"
    \/ mpc = "walk" /\ mpc' \in {"sleep", "stoplisten"} /\ cursor'[Main] = Nobody
    \/ mpc = "stoplisten" /\ mpc' = "joinlisten"
    \/ mpc = "joinlisten" /\ mpc' = "shutdown" /\ lpc = "stopped"
    \/ mpc = "shutlock" /\ mpc' = "shutwalk"
    \/ mpc = "shutwalk" /\ mpc' = "destroy" /\ \A c \in clients : fd[c] # "open"
    \/ mpc' = mpc

LEMMA MainMoveInv ==
    ASSUME Inv, MainMoves, mpc' \in MainPCs,
           lock' \in BOOLEAN, listenOpen' \in BOOLEAN, running' \in BOOLEAN,
           aborted' \in BOOLEAN,
           UNCHANGED <<connVars, clients, disconnected, total_clients, shutting_down>>,
           UNCHANGED <<objectVars, stage, lpc, lconn, lmsg, mcur>>,
           \/ UNCHANGED <<cursor, seen>>
           \/ /\ cursor' = [cursor EXCEPT ![Main] = Nobody]
              /\ seen' = [seen EXCEPT ![Main] = {}]
    PROVE  Inv'
<1>1. TypeOK'
  BY DEF Inv, TypeOK, ConnTypeOK, connVars, objectVars
<1>2. cursor'[Main] \in {cursor[Main], Nobody}
  BY DEF Inv, TypeOK, Walkers
<1>3. IsFiniteSet(clients)' /\ Accounting' /\ FreedIsQuiet' /\ MainWalkAlive'
  BY <1>2 DEF Inv, Accounting, Queued, FreedIsQuiet, MainWalkAlive, connVars, objectVars
<1>4. Ownership'
  BY DEF Inv, Ownership, Queued, objectVars
<1>5. ListenerInv'
  BY DEF Inv, ListenerInv, Queued, connVars, objectVars
<1>6. MainInv'
  BY <1>2 DEF Inv, MainInv, MainMoves, objectVars
<1>7. ThreadInv'
  <2>1. ASSUME NEW c \in clients, mpc' \in {"destroy", "done"}, mpc \notin {"destroy", "done"}
        PROVE  fd[c] = "shut"
    BY <2>1 DEF Inv, TypeOK, ConnTypeOK, ThreadInv, Ownership, MainMoves
  <2>2. QED
    BY <2>1 DEF Inv, TypeOK, ThreadInv, MainMoves, connVars, objectVars
<1>8. QED
  BY <1>1, <1>3, <1>4, <1>5, <1>6, <1>7 DEF Inv

(* The steps that are such moves. *)
LEMMA MainMoveSteps ==
    ASSUME Inv,
           \/ StartCleanup \/ EndCleanup \/ MainWalkEnd \/ Interrupt
           \/ StopListening \/ JoinListener \/ LockForShutdown \/ AllShut
    PROVE  Inv'
<1>1. CASE StartCleanup \/ EndCleanup
  BY <1>1, MainMoveInv
  DEF StartCleanup, EndCleanup, MainMoves, MainPCs, walkVars, listenerVars, Inv, TypeOK
<1>2. CASE MainWalkEnd
  <2>1. /\ mpc = "walk" /\ mpc' \in {"sleep", "stoplisten"}
        /\ cursor' = [cursor EXCEPT ![Main] = Nobody]
        /\ seen' = [seen EXCEPT ![Main] = {}]
        /\ UNCHANGED <<connVars, listenerVars, registryVars, objectVars, stage, mcur, running, aborted>>
    BY <1>2 DEF MainWalkEnd, Walking, StayInCall
  <2>2. cursor'[Main] = Nobody
    BY <2>1 DEF Inv, TypeOK, Walkers
  <2>3. QED
    BY <2>1, <2>2, MainMoveInv DEF MainMoves, MainPCs, listenerVars, registryVars, Inv, TypeOK
<1>3. CASE Interrupt
  BY <1>3, MainMoveInv
  DEF Interrupt, MainMoves, walkVars, listenerVars, registryVars, Inv, TypeOK
<1>4. CASE StopListening \/ JoinListener
  BY <1>4, MainMoveInv
  DEF StopListening, JoinListener, MainMoves, MainPCs, walkVars, listenerVars,
      registryVars, Inv, TypeOK
<1>5. CASE LockForShutdown \/ AllShut
  BY <1>5, MainMoveInv
  DEF LockForShutdown, AllShut, MainMoves, MainPCs, walkVars, listenerVars, Inv, TypeOK
<1>6. QED
  BY <1>1, <1>2, <1>3, <1>4, <1>5

(* The first statement of ~server_clients(). *)
LEMMA StartShutdownInv ==
    ASSUME Inv, StartShutdown
    PROVE  Inv'
<1>1. /\ mpc = "shutdown" /\ mpc' = "shutlock" /\ shutting_down'
      /\ shutting_down' \in BOOLEAN
      /\ UNCHANGED <<connVars, lock, clients, disconnected, total_clients, objectVars,
                     walkVars, listenerVars, mcur, running, aborted>>
  BY DEF StartShutdown
<1>2. TypeOK'
  BY <1>1 DEF Inv, TypeOK, ConnTypeOK, MainPCs, connVars, objectVars, walkVars,
     listenerVars
<1>3. IsFiniteSet(clients)' /\ Accounting' /\ FreedIsQuiet' /\ MainWalkAlive'
  BY <1>1 DEF Inv, Accounting, Queued, FreedIsQuiet, MainWalkAlive, connVars,
     objectVars, walkVars
<1>4. Ownership' /\ ListenerInv'
  BY <1>1 DEF Inv, Ownership, ListenerInv, Queued, connVars, objectVars, walkVars,
     listenerVars
<1>5. MainInv' /\ ThreadInv'
  BY <1>1 DEF Inv, MainInv, ThreadInv, connVars, objectVars, walkVars, listenerVars
<1>6. QED
  BY <1>2, <1>3, <1>4, <1>5 DEF Inv

(* A client leaves the queue and its destructor starts: in the cleanup, which*)
(* also counts it off, or when the registry itself is destroyed.             *)
LEMMA PopInv ==
    ASSUME Inv, PopRemovable \/ DestroyQueued
    PROVE  Inv'
<1> DEFINE c == Head(disconnected)
<1>1. /\ disconnected # <<>> /\ disconnected' = Tail(disconnected)
      /\ mcur' = c /\ obj' = [obj EXCEPT ![c] = "dying"] /\ mpc' = "detach"
      /\ UNCHANGED <<connVars, lock, clients, shutting_down, identified, walkVars,
                     listenerVars, running, aborted>>
      /\ mpc \in {"cleanup", "destroy"}
      /\ mpc = "cleanup" => total_clients' = total_clients - 1
      /\ mpc = "destroy" => total_clients' = total_clients
  BY DEF PopRemovable, DestroyQueued
<1>2. disconnected \in Seq(Conns) /\ Distinct(disconnected)
  BY DEF Inv, TypeOK, Accounting, Distinct
<1>3. /\ c \in Conns /\ c \in Queued
      /\ disconnected' \in Seq(Conns)
      /\ Queued' = Queued \ {c}
      /\ Distinct(disconnected')
      /\ Len(disconnected) = Len(disconnected') + 1
  BY <1>1, <1>2, Pop DEF Queued, Elements
<1>4. c \notin clients /\ obj[c] = "alive"
  BY <1>3 DEF Inv, Accounting, Ownership
<1>5. mpc = "cleanup" => ~shutting_down
  BY DEF Inv, MainInv
<1>6. mpc = "destroy" => shutting_down /\ lpc = "stopped"
  BY DEF Inv, MainInv
<1>7. Len(disconnected') \in Nat /\ Cardinality(clients) \in Nat
  BY <1>3, FS_CardinalityType DEF Inv
<1>8. TypeOK'
  <2>1. total_clients' \in Nat
    BY <1>1, <1>3, <1>5, <1>7 DEF Inv, TypeOK, Accounting
  <2>2. obj' \in [Conns -> {"none", "alive", "dying", "freed"}]
    BY <1>1 DEF Inv, TypeOK
  <2>3. ConnTypeOK'
    BY <1>1 DEF Inv, TypeOK, ConnTypeOK, connVars
  <2>4. QED
    BY <1>1, <1>3, <2>1, <2>2, <2>3 DEF Inv, TypeOK, MainPCs, walkVars, listenerVars
<1>9. IsFiniteSet(clients)' /\ Accounting'
  <2>1. ~shutting_down' => total_clients' = Cardinality(clients') + Len(disconnected')
    BY <1>1, <1>3, <1>6, <1>7 DEF Inv, TypeOK, Accounting
  <2>2. clients' \cap Queued' = {}
    BY <1>1, <1>3 DEF Inv, Accounting
  <2>3. QED
    BY <1>1, <1>3, <2>1, <2>2 DEF Inv, Accounting, Distinct
<1>10. lconn = c => lpc \notin {"attach", "drain", "handle", "register"}
  BY <1>3, <1>4 DEF Inv, ListenerInv
<1>11. \A d \in Conns : obj'[d] = IF d = c THEN "dying" ELSE obj[d]
  BY <1>1 DEF Inv, TypeOK
<1>12. Ownership'
  BY <1>1, <1>3, <1>4, <1>10, <1>11 DEF Inv, Ownership, listenerVars
<1>13. FreedIsQuiet'
  BY <1>1, <1>11 DEF Inv, FreedIsQuiet, connVars, walkVars
<1>14. MainWalkAlive'
  BY <1>1 DEF Inv, MainWalkAlive, MainInv, walkVars
<1>15. ListenerInv'
  <2>1. lpc = "attach" => lconn \in Conns
    BY DEF Inv, TypeOK, ListenerInv
  <2>2. QED
    BY <1>1, <1>3, <1>10, <1>11, <2>1
    DEF Inv, ListenerInv, connVars, walkVars, listenerVars
<1>16. MainInv'
  <2>1. \A d \in Conns : obj[d] # "dying"
    BY <1>1 DEF Inv, MainInv
  <2>2. QED
    BY <1>1, <1>3, <1>6, <1>11, <2>1, ServerAssumption
    DEF Inv, MainInv, walkVars, listenerVars
<1>17. ThreadInv'
  BY <1>1, <1>4, <1>5, <1>6, <1>11 DEF Inv, ThreadInv, connVars, walkVars
<1>18. QED
  BY <1>8, <1>9, <1>12, <1>13, <1>14, <1>15, <1>16, <1>17 DEF Inv

(* ~fss_message_cb(): the dying client's handler goes. *)
LEMMA DetachClientInv ==
    ASSUME Inv, DetachClient
    PROVE  Inv'
<1>1. /\ mpc = "detach" /\ mpc' = "bye" /\ RemoveHandler(mcur)
      /\ UNCHANGED <<registryVars, objectVars, walkVars, listenerVars, mcur, running, aborted>>
  BY DEF DetachClient
<1>2. mcur \in Conns
  BY <1>1 DEF Inv, TypeOK, MainInv
<1>3. UNCHANGED <<fd, rpc>> /\ ConnTypeOK'
  BY <1>1, <1>2, OwnerType DEF RemoveHandler, Inv, TypeOK
<1>4. TypeOK'
  BY <1>1, <1>3 DEF Inv, TypeOK, MainPCs, registryVars, objectVars, walkVars, listenerVars
<1>5. IsFiniteSet(clients)' /\ Accounting' /\ MainWalkAlive' /\ FreedIsQuiet'
  BY <1>1, <1>3 DEF Inv, Accounting, Queued, MainWalkAlive, FreedIsQuiet, registryVars,
     objectVars, walkVars
<1>6. Ownership' /\ ListenerInv'
  BY <1>1, <1>3 DEF Inv, Ownership, ListenerInv, Queued, registryVars, objectVars,
     walkVars, listenerVars
<1>7. MainInv'
  BY <1>1 DEF Inv, MainInv, registryVars, objectVars, walkVars, listenerVars
<1>8. ThreadInv'
  BY <1>1, <1>3 DEF Inv, ThreadInv, registryVars, objectVars, walkVars
<1>9. QED
  BY <1>4, <1>5, <1>6, <1>7, <1>8 DEF Inv

(* ~fss_connection(): the dying client's socket goes. *)
LEMMA HangUpInv ==
    ASSUME Inv, HangUp
    PROVE  Inv'
<1>1. /\ mpc = "bye" /\ mpc' = "join" /\ ShutSocket(mcur)
      /\ UNCHANGED <<registryVars, objectVars, walkVars, listenerVars, mcur, running, aborted>>
  BY DEF HangUp
<1>2. mcur \in Conns /\ obj[mcur] = "dying" /\ mcur \notin clients
  BY <1>1 DEF Inv, TypeOK, MainInv, Ownership
<1>3. ConnTypeOK'
  BY <1>1, <1>2, OwnerType DEF Inv, TypeOK
<1>4. /\ rpc' = rpc /\ fd'[mcur] \in {"shut", "unset"}
      /\ fd'[mcur] = "unset" => fd[mcur] = "unset"
      /\ \A c \in Conns \ {mcur} : fd'[c] = fd[c]
  BY <1>1, <1>2 DEF ShutSocket, Inv, TypeOK, ConnTypeOK
<1>5. TypeOK'
  BY <1>1, <1>3 DEF Inv, TypeOK, MainPCs, registryVars, objectVars, walkVars, listenerVars
<1>6. IsFiniteSet(clients)' /\ Accounting' /\ MainWalkAlive'
  BY <1>1 DEF Inv, Accounting, Queued, MainWalkAlive, registryVars, objectVars, walkVars
<1>7. Ownership'
  BY <1>1 DEF Inv, Ownership, Queued, registryVars, objectVars, listenerVars
<1>8. FreedIsQuiet'
  BY <1>1, <1>4 DEF Inv, FreedIsQuiet, objectVars, walkVars
<1>9. lconn = mcur => lpc \notin {"handshake", "attach", "drain", "handle", "register"}
  BY <1>2 DEF Inv, ListenerInv, Ownership, ThreadInv
<1>10. ListenerInv'
  BY <1>1, <1>2, <1>4, <1>9
  DEF Inv, TypeOK, ListenerInv, Queued, registryVars, objectVars, walkVars, listenerVars
<1>11. MainInv'
  BY <1>1 DEF Inv, MainInv, registryVars, objectVars, walkVars, listenerVars
<1>12. ThreadInv'
  BY <1>1, <1>2, <1>4 DEF Inv, TypeOK, ThreadInv, registryVars, objectVars, walkVars
<1>13. QED
  BY <1>5, <1>6, <1>7, <1>8, <1>10, <1>11, <1>12 DEF Inv

(* What a join tells: the thread was not in a call, and is gone. *)
LEMMA JoinStep ==
    ASSUME Inv, NEW c \in Conns, JoinReceiver(c)
    PROVE  /\ ConnTypeOK'
           /\ UNCHANGED <<fd, handler>>
           /\ rpc'[c] = "none" /\ stage[c] = "start"
           /\ \A d \in Conns \ {c} : rpc'[d] = rpc[d]
<1>1. ConnTypeOK'
  BY OwnerType DEF Inv, TypeOK
<1>2. QED
  BY <1>1 DEF JoinReceiver, Inv, TypeOK, ConnTypeOK, ThreadInv

(* The join in ~fss_connection() ends the destruction of the client. *)
LEMMA JoinClientInv ==
    ASSUME Inv, JoinClient
    PROVE  Inv'
<1>1. /\ mpc = "join" /\ JoinReceiver(mcur) /\ mcur' = Nobody
      /\ mpc' = (IF shutting_down THEN "destroy" ELSE "cleanup")
      /\ obj' = [obj EXCEPT ![mcur] = "freed"]
      /\ UNCHANGED <<registryVars, identified, walkVars, listenerVars, running, aborted>>
  BY DEF JoinClient
<1>2. mcur \in Conns /\ obj[mcur] = "dying" /\ mcur \notin clients \cup Queued
  BY <1>1 DEF Inv, TypeOK, MainInv, Ownership
<1>3. \A c \in Conns : obj'[c] = IF c = mcur THEN "freed" ELSE obj[c]
  BY <1>1 DEF Inv, TypeOK
<1>4. TypeOK'
  BY <1>1, <1>2, JoinStep DEF Inv, TypeOK, MainPCs, registryVars, walkVars, listenerVars
<1>5. IsFiniteSet(clients)' /\ Accounting'
  BY <1>1 DEF Inv, Accounting, Queued, registryVars
<1>6. Ownership'
  BY <1>1, <1>2, <1>3 DEF Inv, Ownership, Queued, registryVars, listenerVars
<1>7. FreedIsQuiet'
  BY <1>1, <1>2, <1>3, JoinStep DEF Inv, FreedIsQuiet, walkVars
<1>8. MainWalkAlive'
  BY <1>1 DEF Inv, MainWalkAlive, MainInv, walkVars
<1>9. ListenerInv'
  <2>1. lpc = "attach" => lconn \in Conns /\ lconn # mcur
    BY <1>2 DEF Inv, TypeOK, ListenerInv
  <2>2. QED
    BY <1>1, <1>2, <1>3, <2>1, JoinStep
    DEF Inv, ListenerInv, Queued, registryVars, walkVars, listenerVars
<1>10. MainInv'
  BY <1>1, <1>2, <1>3 DEF Inv, MainInv, registryVars, walkVars, listenerVars
<1>11. ThreadInv'
  <2>1. \A c \in Conns : rpc'[c] # "call" => stage[c] = "start"
    BY <1>1, <1>2, JoinStep DEF Inv, ThreadInv
  <2>2. \A c \in Conns : rpc[c] = "none" => rpc'[c] = "none"
    BY <1>1, <1>2, JoinStep
  <2>3. fd' = fd /\ fd[mcur] # "unset"
    BY <1>1, <1>2, JoinStep DEF Inv, ThreadInv
  <2>4. QED
    BY <1>1, <1>2, <1>3, <2>1, <2>2, <2>3 DEF Inv, ThreadInv, registryVars, walkVars
<1>12. QED
  BY <1>4, <1>5, <1>6, <1>7, <1>8, <1>9, <1>10, <1>11 DEF Inv

(* The client goes without its thread, which is in processMessage() and has a *)
(* copy of the pointer to the connection.                                    *)
LEMMA DetachHeldClientInv ==
    ASSUME Inv, DetachHeldClient
    PROVE  Inv'
<1>1. /\ mpc = "detach" /\ stage[mcur] = "hold" /\ RemoveHandler(mcur) /\ mcur' = Nobody
      /\ mpc' = (IF shutting_down THEN "destroy" ELSE "cleanup")
      /\ obj' = [obj EXCEPT ![mcur] = "freed"]
      /\ UNCHANGED <<registryVars, identified, walkVars, listenerVars, running, aborted>>
  BY DEF DetachHeldClient
<1>2. mcur \in Conns /\ obj[mcur] = "dying" /\ mcur \notin clients \cup Queued
  BY <1>1 DEF Inv, TypeOK, MainInv, Ownership
<1>3. \A c \in Conns : obj'[c] = IF c = mcur THEN "freed" ELSE obj[c]
  BY <1>1 DEF Inv, TypeOK
<1>4. UNCHANGED <<fd, rpc>> /\ ConnTypeOK'
  BY <1>1, <1>2, OwnerType DEF RemoveHandler, Inv, TypeOK
<1>5. TypeOK'
  BY <1>1, <1>4 DEF Inv, TypeOK, MainPCs, registryVars, walkVars, listenerVars
<1>6. IsFiniteSet(clients)' /\ Accounting'
  BY <1>1 DEF Inv, Accounting, Queued, registryVars
<1>7. Ownership'
  BY <1>1, <1>2, <1>3 DEF Inv, Ownership, Queued, registryVars, listenerVars
<1>8. FreedIsQuiet'
  <2>1. rpc[mcur] = "call"
    BY <1>1, <1>2 DEF Inv, ThreadInv
  <2>2. QED
    BY <1>1, <1>3, <1>4, <2>1 DEF Inv, FreedIsQuiet, walkVars
<1>9. MainWalkAlive'
  BY <1>1 DEF Inv, MainWalkAlive, MainInv, walkVars
<1>10. ListenerInv'
  <2>1. lpc = "attach" => lconn \in Conns /\ lconn # mcur
    BY <1>2 DEF Inv, TypeOK, ListenerInv
  <2>2. QED
    BY <1>1, <1>2, <1>3, <1>4, <2>1
    DEF Inv, ListenerInv, Queued, registryVars, walkVars, listenerVars
<1>11. MainInv'
  BY <1>1, <1>2, <1>3 DEF Inv, MainInv, registryVars, walkVars, listenerVars
<1>12. ThreadInv'
  <2>1. fd[mcur] # "unset"
    BY <1>2 DEF Inv, ThreadInv
  <2>2. QED
    BY <1>1, <1>2, <1>3, <1>4, <2>1 DEF Inv, ThreadInv, registryVars, walkVars
<1>13. QED
  BY <1>5, <1>6, <1>7, <1>8, <1>9, <1>10, <1>11, <1>12 DEF Inv

(* c->disconnect() in ~server_clients(), up to the join. *)
LEMMA ShutClientInv ==
    ASSUME Inv, NEW c \in Conns, ShutClient(c)
    PROVE  Inv'
<1>1. /\ mpc = "shutwalk" /\ mpc' = "shutjoin" /\ mcur' = c
      /\ c \in clients /\ fd[c] = "open" /\ ShutSocket(c)
      /\ UNCHANGED <<registryVars, objectVars, walkVars, listenerVars, running, aborted>>
  BY DEF ShutClient
<1>2. ConnTypeOK'
  BY <1>1, OwnerType DEF Inv, TypeOK
<1>3. /\ UNCHANGED <<rpc, handler>> /\ fd'[c] = "shut"
      /\ \A d \in Conns \ {c} : fd'[d] = fd[d]
  BY <1>1 DEF ShutSocket, Inv, TypeOK, ConnTypeOK
<1>4. lpc = "stopped"
  BY <1>1 DEF Inv, MainInv
<1>5. TypeOK'
  BY <1>1, <1>2 DEF Inv, TypeOK, MainPCs, registryVars, objectVars, walkVars, listenerVars
<1>6. IsFiniteSet(clients)' /\ Accounting' /\ MainWalkAlive'
  BY <1>1 DEF Inv, Accounting, Queued, MainWalkAlive, registryVars, objectVars, walkVars
<1>7. Ownership' /\ FreedIsQuiet'
  BY <1>1, <1>3
  DEF Inv, Ownership, FreedIsQuiet, Queued, registryVars, objectVars, walkVars, listenerVars
<1>8. ListenerInv'
  BY <1>1, <1>4 DEF Inv, ListenerInv, walkVars, listenerVars
<1>9. MainInv'
  BY <1>1, ServerAssumption
  DEF Inv, MainInv, registryVars, objectVars, walkVars, listenerVars
<1>10. ThreadInv'
  BY <1>1, <1>3 DEF Inv, TypeOK, ThreadInv, registryVars, objectVars, walkVars
<1>11. QED
  BY <1>5, <1>6, <1>7, <1>8, <1>9, <1>10 DEF Inv

(* ... and the join. *)
LEMMA JoinShutClientInv ==
    ASSUME Inv, JoinShutClient
    PROVE  Inv'
<1>1. /\ mpc = "shutjoin" /\ mpc' = "shutwalk" /\ JoinReceiver(mcur) /\ mcur' = Nobody
      /\ UNCHANGED <<registryVars, objectVars, walkVars, listenerVars, running, aborted>>
  BY DEF JoinShutClient
<1>2. mcur \in Conns
  BY <1>1 DEF Inv, TypeOK, MainInv
<1>3. TypeOK'
  BY <1>1, <1>2, JoinStep
  DEF Inv, TypeOK, MainPCs, registryVars, objectVars, walkVars, listenerVars
<1>4. IsFiniteSet(clients)' /\ Accounting' /\ MainWalkAlive'
  BY <1>1 DEF Inv, Accounting, Queued, MainWalkAlive, registryVars, objectVars, walkVars
<1>5. Ownership'
  BY <1>1 DEF Inv, Ownership, Queued, registryVars, objectVars, listenerVars
<1>6. \A c \in Conns : /\ rpc[c] = "none" => rpc'[c] = "none"
                       /\ rpc'[c] # "call" => stage[c] = "start"
  BY <1>1, <1>2, JoinStep DEF Inv, ThreadInv
<1>7. FreedIsQuiet'
  BY <1>1, <1>6 DEF Inv, FreedIsQuiet, objectVars, walkVars
<1>8. ListenerInv'
  BY <1>1, <1>2, JoinStep
  DEF Inv, ListenerInv, Queued, registryVars, objectVars, walkVars, listenerVars
<1>9. MainInv'
  BY <1>1 DEF Inv, MainInv, registryVars, objectVars, walkVars, listenerVars
<1>10. ThreadInv'
  <2>1. fd' = fd /\ rpc'[mcur] = "none"
    BY <1>1, <1>2, JoinStep
  <2>2. QED
    BY <1>1, <1>2, <1>6, <2>1 DEF Inv, ThreadInv, registryVars, objectVars, walkVars
<1>11. QED
  BY <1>3, <1>4, <1>5, <1>7, <1>8, <1>9, <1>10 DEF Inv

(* The list's clients go when all their threads have been joined. *)
LEMMA DestroyListedInv ==
    ASSUME Inv, DestroyListed
    PROVE  Inv'
<1>1. /\ mpc = "destroy" /\ mpc' = "done" /\ disconnected = <<>> /\ clients' = {}
      /\ obj' = [c \in Conns |-> IF c \in clients THEN "freed" ELSE obj[c]]
      /\ UNCHANGED <<connVars, lock, disconnected, total_clients, shutting_down, identified,
                     walkVars, listenerVars, mcur, running, aborted>>
  BY DEF DestroyListed
<1>2. shutting_down /\ lpc = "stopped"
  BY <1>1 DEF Inv, MainInv
<1>3. \A c \in clients : rpc[c] = "none" /\ stage[c] = "start"
  BY <1>1 DEF Inv, TypeOK, ThreadInv
<1>4. Queued = {} /\ Queued' = {}
  BY <1>1 DEF Queued
<1>5. TypeOK'
  <2>1. obj' \in [Conns -> {"none", "alive", "dying", "freed"}]
    BY <1>1 DEF Inv, TypeOK
  <2>2. QED
    BY <1>1, <2>1
    DEF Inv, TypeOK, ConnTypeOK, MainPCs, connVars, walkVars, listenerVars
<1>6. IsFiniteSet(clients)' /\ Accounting'
  BY <1>1, <1>2, <1>4, FS_EmptySet DEF Inv, Accounting
<1>7. Ownership'
  BY <1>1, <1>2, <1>4 DEF Inv, Ownership, listenerVars
<1>8. FreedIsQuiet'
  BY <1>1, <1>3 DEF Inv, FreedIsQuiet, connVars, walkVars
<1>9. MainWalkAlive'
  BY <1>1 DEF Inv, MainWalkAlive, MainInv, walkVars
<1>10. ListenerInv'
  BY <1>1, <1>2 DEF Inv, ListenerInv, walkVars, listenerVars
<1>11. MainInv'
  BY <1>1, <1>2 DEF Inv, MainInv, walkVars, listenerVars
<1>12. ThreadInv'
  BY <1>1 DEF Inv, ThreadInv, Ownership, connVars, walkVars
<1>13. QED
  BY <1>5, <1>6, <1>7, <1>8, <1>9, <1>10, <1>11, <1>12 DEF Inv

-----------------------------------------------------------------------------
(* Inv is inductive: every step of every thread, and of the peers, keeps it.  *)
LEMMA StepInv == Inv /\ [Next]_vars => Inv'
<1>1. SUFFICES ASSUME Inv, [Next]_vars PROVE Inv'
  OBVIOUS
<1>2. CASE UNCHANGED vars
  BY <1>1, <1>2
  DEF vars, connVars, registryVars, objectVars, walkVars, listenerVars, mainVars,
      Inv, TypeOK, ConnTypeOK, Accounting, Queued, Ownership, FreedIsQuiet,
      MainWalkAlive, ListenerInv, MainInv, ThreadInv
<1>3. ASSUME NEW c \in Conns,
             \/ \E m \in Msgs : Send(c, m)
             \/ Leave(c) \/ Accept(c) \/ Handshake(c) \/ Receive(c)
      PROVE  Inv'
  BY <1>1, <1>3, PeerInv, AcceptInv, HandshakeInv, ReceiveInv
<1>4. CASE ListenerStep
  BY <1>1, <1>4, AttachInv, DrainTakeInv, ListenerMoveInv, ClientConnectedInv
  DEF ListenerStep
<1>5. ASSUME NEW t \in Handlers, HandlerStep(t) \/ ClientDisconnected(t)
      PROVE  Inv'
  BY <1>1, <1>5, HandlerInv, ClientDisconnectedInv
<1>6. CASE CleanupStep
  BY <1>1, <1>6, MainMoveSteps, PopInv, DetachClientInv, DetachHeldClientInv, HangUpInv,
     JoinClientInv
  DEF CleanupStep
<1>7. CASE ShutdownStep
  BY <1>1, <1>7, MainMoveSteps, StartShutdownInv, ShutClientInv, JoinShutClientInv,
     PopInv, DestroyListedInv
  DEF ShutdownStep
<1>8. CASE MainStep
  <2>1. Main \in Walkers
    BY DEF Walkers
  <2>2. QED
    BY <1>1, <1>6, <1>7, <1>8, <2>1, WalkNextInv, MainMoveSteps DEF MainStep
<1>9. CASE Interrupt
  BY <1>1, <1>9, MainMoveSteps
<1>10. QED
  BY <1>1, <1>2, <1>3, <1>4, <1>5, <1>8, <1>9 DEF Next

(* The inductive invariant holds in every state of the server. *)
THEOREM Invariance == Spec => []Inv
<1>1. Init => Inv
  BY InitInv
<1>2. Inv /\ [Next]_vars => Inv'
  BY StepInv
<1>3. QED
  BY <1>1, <1>2, PTL DEF Spec

(* Every variable of the server keeps its type; total_clients, a uint32_t,   *)
(* never goes below zero.                                                    *)
THEOREM TypeCorrect == Spec => []TypeOK
<1>1. Inv => TypeOK
  BY DEF Inv
<1>2. QED
  BY <1>1, Invariance, PTL

(* total_clients is the length of the list and the queue together, and no    *)
(* client is in both or in either twice.                                     *)
THEOREM AccountingHolds == Spec => []Accounting
<1>1. Inv => Accounting
  BY DEF Inv
<1>2. QED
  BY <1>1, Invariance, PTL

(* A client object is alive exactly as long as the listener, the list or the *)
(* queue holds it.                                                           *)
THEOREM OwnershipHolds == Spec => []Ownership
<1>1. Inv => Ownership
  BY DEF Inv
<1>2. QED
  BY <1>1, Invariance, PTL

(* A destroyed client's receive thread is gone, unless it holds the last       *)
(* pointer to the connection; it is in no other call.                        *)
THEOREM FreedIsQuietHolds == Spec => []FreedIsQuiet
<1>1. Inv => FreedIsQuiet
  BY DEF Inv
<1>2. QED
  BY <1>1, Invariance, PTL

(* The main thread's walks use objects that are alive. *)
THEOREM MainWalkAliveHolds == Spec => []MainWalkAlive
<1>1. Inv => MainWalkAlive
  BY DEF Inv
<1>2. QED
  BY <1>1, Invariance, PTL

-----------------------------------------------------------------------------
(***************************************************************************)
(* The registry implements the membership protocol: each step is a step of *)
(* one client's phase, of all of them at the very end, or none.            *)
(***************************************************************************)

(* phase depends on the list, the queue and the objects only. *)
LEMMA SamePhase ==
    ASSUME UNCHANGED <<clients, disconnected, obj>>
    PROVE  phase' = phase
BY DEF phase, Queued

(* clientConnected() lists a client that was outside. *)
LEMMA ConnectPhase ==
    ASSUME Inv, NEW c \in Conns, ClientConnected(c)
    PROVE  Registry!Connect(c)
<1>1. /\ lpc = "register" /\ lconn = c /\ clients' = clients \cup {c}
      /\ UNCHANGED <<disconnected, obj>>
  BY DEF ClientConnected, objectVars
<1>2. c \notin clients \cup Queued /\ obj[c] = "alive"
  BY <1>1 DEF Inv, ListenerInv, Ownership
<1>3. phase[c] = "outside"
  BY <1>2 DEF phase
<1>4. phase' = [phase EXCEPT ![c] = "listed"]
  BY <1>1, <1>2 DEF phase, Queued
<1>5. QED
  BY <1>3, <1>4 DEF Registry!Connect, Registry!Move

(* clientDisconnected() makes a listed client leave, and does nothing else. *)
LEMMA DisconnectPhase ==
    ASSUME Inv, NEW t \in Handlers, ClientDisconnected(t)
    PROVE  [Registry!Next]_phase
<1> DEFINE c == Client(t)
<1>1. InCall(t) /\ obj' = obj
  BY DEF ClientDisconnected, objectVars
<1>2. c \in Conns
  BY <1>1 DEF InCall, Client, Handlers, Inv, TypeOK, ListenerInv
<1>3. CASE c \notin clients
  BY <1>1, <1>3, SamePhase DEF ClientDisconnected
<1>4. CASE c \in clients
  <2>1. disconnected' = Append(disconnected, c) /\ clients' = clients \ {c}
    BY <1>4 DEF ClientDisconnected
  <2>2. Queued' = Queued \cup {c}
    <3>1. /\ disconnected \in Seq(Conns) /\ Distinct(disconnected)
          /\ c \notin Elements(disconnected)
      BY <1>4 DEF Inv, TypeOK, Accounting, Queued, Elements, Distinct
    <3>2. QED
      BY <1>2, <2>1, <3>1, Push DEF Queued, Elements
  <2>3. phase[c] = "listed" /\ phase' = [phase EXCEPT ![c] = "leaving"]
    BY <1>1, <1>2, <1>4, <2>1, <2>2 DEF phase
  <2>4. QED
    BY <1>2, <2>3 DEF Registry!Next, Registry!Disconnect, Registry!Move
<1>5. QED
  BY <1>3, <1>4

(* Between the queue and the end of its destructor a client is leaving. *)
LEMMA PopPhase ==
    ASSUME Inv, PopRemovable \/ DestroyQueued
    PROVE  phase' = phase
<1> DEFINE c == Head(disconnected)
<1>1. /\ disconnected # <<>> /\ disconnected' = Tail(disconnected)
      /\ clients' = clients /\ obj' = [obj EXCEPT ![c] = "dying"]
  BY DEF PopRemovable, DestroyQueued
<1>2. disconnected \in Seq(Conns) /\ Distinct(disconnected)
  BY DEF Inv, TypeOK, Accounting, Distinct
<1>3. c \in Conns /\ c \in Queued /\ Queued' = Queued \ {c}
  BY <1>1, <1>2, Pop DEF Queued, Elements
<1>4. \A d \in Conns : obj'[d] = IF d = c THEN "dying" ELSE obj[d]
  BY <1>1 DEF Inv, TypeOK
<1>5. QED
  BY <1>1, <1>3, <1>4 DEF phase

(* The join completes the destruction, as does letting go of a connection     *)
(* that its thread holds.                                                    *)
LEMMA JoinPhase ==
    ASSUME Inv, JoinClient \/ DetachHeldClient
    PROVE  Registry!Next
<1>1. /\ mpc \in {"detach", "join"} /\ obj' = [obj EXCEPT ![mcur] = "freed"]
      /\ UNCHANGED <<clients, disconnected>>
  BY DEF JoinClient, DetachHeldClient, registryVars
<1>2. mcur \in Conns /\ obj[mcur] = "dying" /\ mcur \notin clients \cup Queued
  BY <1>1 DEF Inv, TypeOK, MainInv, Ownership
<1>3. \A c \in Conns : obj'[c] = IF c = mcur THEN "freed" ELSE obj[c]
  BY <1>1 DEF Inv, TypeOK
<1>4. phase[mcur] = "leaving" /\ phase' = [phase EXCEPT ![mcur] = "gone"]
  <2>1. Queued' = Queued
    BY <1>1 DEF Queued
  <2>2. phase[mcur] = "leaving"
    BY <1>2 DEF phase
  <2>3. phase'[mcur] = "gone"
    BY <1>1, <1>2, <1>3, <2>1 DEF phase
  <2>4. ASSUME NEW c \in Conns, c # mcur
        PROVE  phase'[c] = phase[c]
    <3>1. obj'[c] = obj[c] /\ clients' = clients
      BY <1>1, <1>3, <2>4
    <3>2. QED
      BY <2>1, <3>1 DEF phase
  <2>5. phase' = [c \in Conns |-> IF c = mcur THEN "gone" ELSE phase[c]]
    <3>1. phase' = [c \in Conns |-> phase'[c]]
      BY DEF phase
    <3>2. QED
      BY <2>3, <2>4, <3>1
  <2>6. [phase EXCEPT ![mcur] = "gone"]
          = [c \in Conns |-> IF c = mcur THEN "gone" ELSE phase[c]]
    BY DEF phase
  <2>7. QED
    BY <2>2, <2>5, <2>6
<1>5. QED
  BY <1>2, <1>4 DEF Registry!Next, Registry!Destroy, Registry!Move

(* At the end no client is leaving any more, and all that are listed go. *)
LEMMA StopPhase ==
    ASSUME Inv, DestroyListed
    PROVE  Registry!StopServing
<1>1. /\ mpc = "destroy" /\ disconnected = <<>> /\ clients' = {} /\ disconnected' = <<>>
      /\ obj' = [c \in Conns |-> IF c \in clients THEN "freed" ELSE obj[c]]
  BY DEF DestroyListed
<1>2. Queued = {} /\ Queued' = {}
  BY <1>1 DEF Queued
<1>3. \A c \in Conns : obj[c] # "dying"
  BY <1>1 DEF Inv, MainInv
<1>4. \A c \in Conns : phase[c] # "leaving"
  BY <1>2, <1>3 DEF phase
<1>5. phase' = [c \in Conns |-> IF phase[c] = "listed" THEN "gone" ELSE phase[c]]
  <2>1. \A c \in Conns : (phase[c] = "listed") <=> c \in clients
    BY DEF phase
  <2>2. ASSUME NEW c \in Conns
        PROVE  phase'[c] = IF c \in clients THEN "gone" ELSE phase[c]
    BY <1>1, <1>2, <1>3 DEF phase
  <2>3. QED
    BY <2>1, <2>2 DEF phase
<1>6. QED
  BY <1>4, <1>5 DEF Registry!StopServing

(* The constructor of fss_client runs before the client is listed. *)
LEMMA AttachPhase ==
    ASSUME Inv, NEW c \in Conns, Attach(c)
    PROVE  phase' = phase
<1>1. /\ lpc = "attach" /\ lconn = c /\ obj' = [obj EXCEPT ![c] = "alive"]
      /\ UNCHANGED <<clients, disconnected>>
  BY DEF Attach, registryVars
<1>2. obj[c] = "none" /\ c \notin clients \cup Queued
  BY <1>1 DEF Inv, ListenerInv, Ownership
<1>3. \A d \in Conns : obj'[d] = IF d = c THEN "alive" ELSE obj[d]
  BY <1>1 DEF Inv, TypeOK
<1>4. QED
  BY <1>1, <1>2, <1>3 DEF phase, Queued

(* Every step of the server is a step of the membership protocol. *)
LEMMA StepPhase == Inv /\ [Next]_vars => [Registry!Next]_phase
<1>1. SUFFICES ASSUME Inv, [Next]_vars PROVE [Registry!Next]_phase
  OBVIOUS
<1>2. CASE UNCHANGED vars
  BY <1>2, SamePhase DEF vars, registryVars, objectVars
<1>3. ASSUME NEW c \in Conns,
             \/ \E m \in Msgs : Send(c, m)
             \/ Leave(c) \/ Accept(c) \/ Handshake(c) \/ Receive(c)
      PROVE  [Registry!Next]_phase
  BY <1>3, SamePhase
  DEF Send, Leave, Accept, Handshake, Receive, registryVars, objectVars
<1>4. CASE ListenerStep
  <2>1. ASSUME NEW c \in Conns, ClientConnected(c)
        PROVE  Registry!Next
    BY <1>1, <2>1, ConnectPhase DEF Registry!Next
  <2>2. ASSUME NEW c \in Conns, DrainTake(c) \/ DrainDone(c)
        PROVE  phase' = phase
    BY <2>2, SamePhase DEF DrainTake, DrainDone, registryVars, objectVars
  <2>3. CASE ListenerStops
    BY <2>3, SamePhase DEF ListenerStops, registryVars, objectVars
  <2>4. QED
    BY <1>1, <1>4, <2>1, <2>2, <2>3, AttachPhase DEF ListenerStep
<1>5. ASSUME NEW t \in Handlers, HandlerStep(t)
      PROVE  [Registry!Next]_phase
  BY <1>5, SamePhase
  DEF HandlerStep, Ignore, IdentifyNonAircraft, StartReply, ReplyReturns, HoldConnection,
      UseCleared, ReleaseConnection, LastReference, DisconnectDuringShutdown, WaitForLock,
      StartRelay, WalkNext, RelayEnd, registryVars, objectVars
<1>6. CASE CleanupStep
  <2>1. CASE StartCleanup \/ EndCleanup \/ DetachClient \/ HangUp
    BY <2>1, SamePhase
    DEF StartCleanup, EndCleanup, DetachClient, HangUp, registryVars, objectVars
  <2>2. QED
    BY <1>1, <1>6, <2>1, PopPhase, JoinPhase DEF CleanupStep
<1>7. CASE ShutdownStep
  <2>1. CASE StopListening \/ JoinListener \/ StartShutdown \/ LockForShutdown
             \/ (\E c \in Conns : ShutClient(c)) \/ JoinShutClient \/ AllShut
    BY <2>1, SamePhase
    DEF StopListening, JoinListener, StartShutdown, LockForShutdown, ShutClient,
        JoinShutClient, AllShut, registryVars, objectVars
  <2>2. QED
    BY <1>1, <1>7, <2>1, PopPhase, StopPhase DEF ShutdownStep, Registry!Next
<1>8. CASE MainStep
  <2>1. CASE WalkNext(Main) \/ MainWalkEnd
    BY <2>1, SamePhase DEF WalkNext, MainWalkEnd, registryVars, objectVars
  <2>2. QED
    BY <1>6, <1>7, <1>8, <2>1 DEF MainStep
<1>9. CASE Interrupt
  BY <1>9, SamePhase DEF Interrupt, registryVars, objectVars
<1>10. QED
  BY <1>1, <1>2, <1>3, <1>4, <1>5, <1>8, <1>9, DisconnectPhase DEF Next

(* Whatever the threads do, clients join, leave and are destroyed once each, *)
(* in this order, or go together when the server stops.                      *)
THEOREM RegistryImplementsMembership == Spec => RegistrySpec
<1>1. Init => Registry!Init
  <2>1. SUFFICES ASSUME Init PROVE phase = [c \in Conns |-> "outside"]
    BY DEF Registry!Init
  <2>2. clients = {} /\ Queued = {} /\ obj = [c \in Conns |-> "none"]
    BY <2>1 DEF Init, Queued
  <2>3. QED
    BY <2>2 DEF phase
<1>2. Inv /\ [Next]_vars => [Registry!Next]_phase
  BY StepPhase
<1>3. QED
  BY <1>1, <1>2, Invariance, PTL DEF Spec, RegistrySpec, Registry!Spec

-----------------------------------------------------------------------------
(***************************************************************************)
(* Without names that are not in the certificate a client is queued by the *)
(* end of its own stream only, and its thread has stopped reading then.    *)
(***************************************************************************)
HungUp(c) ==
    /\ c \in Queued \/ obj[c] \in {"dying", "freed"} => rpc[c] \in {"none", "exit"}
    /\ stage[c] = "lock" => rmsg[c] = Closed
    /\ rpc[c] \in {"test", "push", "call"} /\ rmsg[c] = Closed => ~run[c]

CloseInv == \A c \in Conns : HungUp(c)

(* Steps of the rest of the server leave it alone. *)
LEMMA SameHungUp ==
    ASSUME CloseInv, UNCHANGED <<disconnected, obj, rpc, rmsg, run>>,
           \A c \in Conns : stage'[c] = stage[c]
    PROVE  CloseInv'
BY DEF CloseInv, HungUp, Queued

(* The connections keep it: a thread that has stopped does not go on. *)
LEMMA ReadHungUp ==
    ASSUME Inv, CloseInv, NEW c \in Conns, Handshake(c) \/ Receive(c)
    PROVE  CloseInv'
<1>1. UNCHANGED <<disconnected, obj, stage>> /\ Queued' = Queued
  BY DEF Handshake, Receive, registryVars, objectVars, walkVars, Queued
<1>2. TypeOK /\ ConnTypeOK
  BY DEF Inv, TypeOK
<1>3. HungUp(c)
  BY DEF CloseInv
<1>4. CASE Handshake(c)
  <2>1. /\ fd[c] = "unset" /\ UNCHANGED rmsg
        /\ \A d \in Conns \ {c} : rpc'[d] = rpc[d] /\ run'[d] = run[d]
        /\ rpc'[c] \in {"recv", "none"}
    BY <1>2, <1>4 DEF Handshake, OpenSocket, ConnTypeOK
  <2>2. c \notin Queued /\ obj[c] \notin {"dying", "freed"}
    BY <2>1 DEF Inv, ThreadInv, Ownership
  <2>3. HungUp(c)'
    BY <1>1, <1>3, <2>1, <2>2 DEF HungUp
  <2>4. QED
    BY <1>1, <2>1, <2>3 DEF CloseInv, HungUp
<1>5. CASE Receive(c)
  <2>1. rpc[c] \in {"recv", "inside", "test", "push"}
    BY <1>5 DEF Receive, ReceiveStep, ReceiveMessage, ReceiveClosed, TestHandler,
       PushMessage
  <2>2. c \notin Queued /\ obj[c] \notin {"dying", "freed"} /\ stage[c] = "start"
    BY <1>3, <2>1 DEF HungUp, Inv, ThreadInv
  <2>3. \A d \in Conns \ {c} :
            rpc'[d] = rpc[d] /\ run'[d] = run[d] /\ rmsg'[d] = rmsg[d]
    BY <1>2, <1>5 DEF Receive, ReceiveStep, ReceiveMessage, ReceiveClosed, TestHandler,
       PushMessage, NextRound, ConnTypeOK
  <2>4. rpc'[c] \in {"test", "push", "call"} /\ rmsg'[c] = Closed => ~run'[c]
    <3>1. CASE ReceiveMessage(c)
      <4>1. rmsg'[c] = Head(wire[c]) /\ wire[c] \in Seq(Msgs \cup {Null}) /\ wire[c] # <<>>
        BY <1>2, <3>1 DEF ReceiveMessage, ConnTypeOK
      <4>2. rmsg'[c] \in Msgs \cup {Null}
        BY <4>1
      <4>3. QED
        BY <4>2, MessageAssumption
    <3>2. CASE ReceiveClosed(c)
      BY <1>2, <3>2 DEF ReceiveClosed, ConnTypeOK
    <3>3. CASE TestHandler(c)
      BY <1>3, <3>3 DEF TestHandler, HungUp
    <3>4. CASE PushMessage(c)
      BY <1>2, <3>4 DEF PushMessage, NextRound, ConnTypeOK
    <3>5. QED
      BY <1>5, <3>1, <3>2, <3>3, <3>4 DEF Receive, ReceiveStep
  <2>5. HungUp(c)'
    BY <1>1, <2>2, <2>4 DEF HungUp
  <2>6. QED
    BY <1>1, <2>3, <2>5 DEF CloseInv, HungUp
<1>6. QED
  BY <1>4, <1>5

(* A call that returns ends the thread when it handed on the end. *)
LEMMA ReturnHungUp ==
    ASSUME Inv, CloseInv, NEW t \in Handlers, InCall(t), Return(t),
           UNCHANGED <<disconnected, obj>>,
           stage'[t] = "start", \A c \in Conns \ {t} : stage'[c] = stage[c]
    PROVE  CloseInv'
<1>1. TypeOK /\ ConnTypeOK /\ Queued' = Queued
  BY DEF Inv, TypeOK, Queued
<1>2. CASE t = Listener
  BY <1>1, <1>2 DEF Return, connVars, CloseInv, HungUp
<1>3. CASE t # Listener
  <2>1. t \in Conns /\ HandlerReturns(t)
    BY <1>3 DEF Handlers, Return
  <2>2. /\ rpc[t] = "call" /\ UNCHANGED run
        /\ rpc'[t] = (IF run[t] THEN "recv" ELSE "exit")
        /\ \A d \in Conns \ {t} : rpc'[d] = rpc[d] /\ rmsg'[d] = rmsg[d]
    BY <1>1, <2>1 DEF HandlerReturns, NextRound, ConnTypeOK
  <2>3. QED
    BY <1>1, <2>1, <2>2 DEF CloseInv, HungUp
<1>4. QED
  BY <1>2, <1>3

(* The handlers keep it: only the end of the stream leads to the lock, ...    *)
LEMMA HandlerHungUp ==
    ASSUME "mismatch" \notin Received, Inv, CloseInv, NEW t \in Handlers, HandlerStep(t)
    PROVE  CloseInv'
<1>1. TypeOK /\ ConnTypeOK /\ Listener \notin Conns
  BY ServerAssumption DEF Inv, TypeOK
<1>2. CASE Ignore(t) \/ IdentifyNonAircraft(t)
  <2>1. /\ InCall(t) /\ stage[t] = "start" /\ Return(t)
        /\ UNCHANGED <<disconnected, obj, stage>>
    BY <1>2 DEF Ignore, IdentifyNonAircraft, Starting, registryVars, objectVars, walkVars
  <2>2. QED
    BY <2>1, ReturnHungUp
<1>3. CASE ReplyReturns(t) \/ ReleaseConnection(t) \/ DisconnectDuringShutdown(t)
           \/ RelayEnd(t)
  <2>1. InCall(t) /\ Return(t) /\ stage' = [stage EXCEPT ![t] = "start"]
    BY <1>3, ServerAssumption
    DEF ReplyReturns, ReleaseConnection, DisconnectDuringShutdown, RelayEnd, Holding,
        Walking, CallsDisconnected, Starting, Handlers
  <2>2. UNCHANGED <<disconnected, obj>>
    BY <1>3
    DEF ReplyReturns, ReleaseConnection, DisconnectDuringShutdown, RelayEnd,
        registryVars, objectVars
  <2>3. stage'[t] = "start" /\ \A c \in Conns \ {t} : stage'[c] = stage[c]
    BY <1>1, <2>1 DEF TypeOK, Handlers
  <2>4. QED
    BY <2>1, <2>2, <2>3, ReturnHungUp
<1>4. CASE WaitForLock(t)
  <2>1. /\ InCall(t) /\ stage' = [stage EXCEPT ![t] = "lock"]
        /\ UNCHANGED <<connVars, disconnected, obj>>
        /\ Message(t) = Closed \/ Message(t) = "mismatch"
    BY <1>4 DEF WaitForLock, Starting, Holding, Welcome, StayInCall,
       CallsDisconnected, registryVars, objectVars
  <2>2. t \in Conns => rmsg[t] = Closed
    <3>1. t \in Conns => rmsg[t] \in Received /\ Message(t) = rmsg[t]
      BY <1>1 DEF Message, ConnTypeOK
    <3>2. QED
      BY <2>1, <3>1
  <2>3. \A c \in Conns : stage'[c] = stage[c] \/ c = t
    BY <1>1, <2>1 DEF TypeOK
  <2>4. QED
    BY <2>1, <2>2, <2>3 DEF CloseInv, HungUp, connVars, Queued
<1>5. CASE StartReply(t) \/ HoldConnection(t) \/ StartRelay(t)
  <2>1. PICK s \in {"reply", "hold", "walk"} : stage' = [stage EXCEPT ![t] = s]
    BY <1>5 DEF StartReply, HoldConnection, StartRelay
  <2>2. UNCHANGED <<connVars, disconnected, obj>>
    BY <1>5 DEF StartReply, HoldConnection, StartRelay, StayInCall, registryVars, objectVars
  <2>3. \A c \in Conns : stage'[c] = stage[c] \/ stage'[c] # "lock"
    BY <1>1, <2>1 DEF TypeOK
  <2>4. QED
    BY <2>2, <2>3 DEF CloseInv, HungUp, connVars, Queued
<1>6. CASE UseCleared(t) \/ LastReference(t) \/ WalkNext(t)
  BY <1>6, SameHungUp
  DEF UseCleared, LastReference, WalkNext, StayInCall, connVars, registryVars,
      objectVars, walkVars
<1>7. QED
  BY <1>2, <1>3, <1>4, <1>5, <1>6 DEF HandlerStep

(* ... and clientDisconnected() queues who has hung up. *)
LEMMA DisconnectHungUp ==
    ASSUME Inv, CloseInv, NEW t \in Handlers, ClientDisconnected(t)
    PROVE  CloseInv'
<1>1. TypeOK /\ ConnTypeOK /\ Listener \notin Conns
  BY ServerAssumption DEF Inv, TypeOK
<1>2. /\ InCall(t) /\ stage[t] = "lock" /\ Return(t) /\ UNCHANGED obj
      /\ stage' = [stage EXCEPT ![t] = "start"]
  BY DEF ClientDisconnected, objectVars
<1>3. stage'[t] = "start" /\ \A c \in Conns \ {t} : stage'[c] = stage[c]
  BY <1>1, <1>2 DEF TypeOK
<1>4. CASE Client(t) \notin clients
  <2>1. UNCHANGED disconnected
    BY <1>4 DEF ClientDisconnected
  <2>2. QED
    BY <1>2, <1>3, <2>1, ReturnHungUp
<1>5. CASE Client(t) \in clients
  <2>1. t # Listener
    BY <1>2, <1>5 DEF InCall, Client, Inv, ListenerInv
  <2>2. t \in Conns /\ HandlerReturns(t) /\ Client(t) = t
    BY <1>2, <2>1 DEF Handlers, Return, Client
  <2>3. disconnected' = Append(disconnected, t) /\ t \notin Queued
    BY <1>5, <2>2 DEF ClientDisconnected, Inv, Accounting
  <2>4. Queued' = Queued \cup {t}
    <3>1. disconnected \in Seq(Conns) /\ Distinct(disconnected)
      BY <1>1 DEF TypeOK, Inv, Accounting, Distinct
    <3>2. QED
      BY <2>2, <2>3, <3>1, Push DEF Queued, Elements
  <2>5. /\ rpc[t] = "call" /\ rmsg[t] = Closed /\ UNCHANGED run
        /\ rpc'[t] = (IF run[t] THEN "recv" ELSE "exit")
        /\ \A d \in Conns \ {t} : rpc'[d] = rpc[d] /\ rmsg'[d] = rmsg[d]
    BY <1>1, <1>2, <2>2 DEF HandlerReturns, NextRound, ConnTypeOK, CloseInv, HungUp
  <2>6. ~run[t]
    BY <2>2, <2>5 DEF CloseInv, HungUp
  <2>7. QED
    BY <1>2, <1>3, <2>2, <2>4, <2>5, <2>6 DEF CloseInv, HungUp
<1>6. QED
  BY <1>4, <1>5

(* The main thread destroys who is queued, and joins who is being destroyed. *)
LEMMA PopHungUp ==
    ASSUME Inv, CloseInv, PopRemovable \/ DestroyQueued
    PROVE  CloseInv'
<1>1. /\ disconnected # <<>> /\ disconnected' = Tail(disconnected)
      /\ obj' = [obj EXCEPT ![Head(disconnected)] = "dying"]
      /\ UNCHANGED <<connVars, stage>>
  BY DEF PopRemovable, DestroyQueued, walkVars
<1>2. disconnected \in Seq(Conns) /\ Distinct(disconnected)
  BY DEF Inv, TypeOK, Accounting, Distinct
<1>3. Head(disconnected) \in Queued /\ Queued' \subseteq Queued
  BY <1>1, <1>2, Pop DEF Queued, Elements
<1>4. \A c \in Conns : obj'[c] = obj[c] \/ c = Head(disconnected)
  BY <1>1 DEF Inv, TypeOK
<1>5. QED
  BY <1>1, <1>3, <1>4 DEF CloseInv, HungUp, connVars

LEMMA MainHungUp ==
    ASSUME Inv, CloseInv, MainStep
    PROVE  CloseInv'
<1>1. CASE StartCleanup \/ EndCleanup \/ StopListening \/ JoinListener \/ StartShutdown
           \/ LockForShutdown \/ AllShut \/ WalkNext(Main) \/ MainWalkEnd
  BY <1>1, SameHungUp
  DEF StartCleanup, EndCleanup, StopListening, JoinListener, StartShutdown,
      LockForShutdown, AllShut, WalkNext, MainWalkEnd, StayInCall, connVars,
      registryVars, objectVars, walkVars
<1>2. CASE DetachClient \/ HangUp \/ (\E c \in Conns : ShutClient(c))
  BY <1>2, SameHungUp
  DEF DetachClient, HangUp, ShutClient, RemoveHandler, ShutSocket, registryVars,
      objectVars, walkVars
<1>3. ASSUME DetachHeldClient
      PROVE  FALSE
  <2>1. mcur \in Conns /\ obj[mcur] = "dying" /\ stage[mcur] = "hold"
    BY <1>3 DEF DetachHeldClient, Inv, TypeOK, MainInv
  <2>2. rpc[mcur] = "call"
    BY <2>1 DEF Inv, ThreadInv
  <2>3. QED
    BY <2>1, <2>2 DEF CloseInv, HungUp
<1>4. CASE JoinClient
  <2>1. /\ mpc = "join" /\ rpc[mcur] \in {"none", "exit"}
        /\ obj' = [obj EXCEPT ![mcur] = "freed"]
        /\ rpc' = [rpc EXCEPT ![mcur] = "none"]
        /\ UNCHANGED <<disconnected, stage, rmsg, run>>
    BY <1>4 DEF JoinClient, JoinReceiver, registryVars, walkVars
  <2>2. \A c \in Conns : IF c = mcur THEN rpc'[c] = "none"
                                    ELSE rpc'[c] = rpc[c] /\ obj'[c] = obj[c]
    BY <2>1 DEF Inv, TypeOK, ConnTypeOK
  <2>3. QED
    BY <2>1, <2>2 DEF CloseInv, HungUp, Queued
<1>5. CASE JoinShutClient
  <2>1. \A c \in Conns : rpc'[c] = rpc[c] \/ rpc'[c] = "none"
    BY <1>5 DEF JoinShutClient, JoinReceiver, Inv, TypeOK, ConnTypeOK
  <2>2. UNCHANGED <<disconnected, obj, stage, rmsg, run>>
    BY <1>5 DEF JoinShutClient, JoinReceiver, registryVars, objectVars, walkVars
  <2>3. QED
    BY <2>1, <2>2 DEF CloseInv, HungUp, Queued
<1>6. CASE DestroyListed
  <2>1. \A c \in Conns : obj'[c] = obj[c] \/ (obj'[c] = "freed" /\ rpc[c] = "none")
    BY <1>6 DEF DestroyListed, Inv, ThreadInv
  <2>2. UNCHANGED <<disconnected, stage, connVars>>
    BY <1>6 DEF DestroyListed, walkVars
  <2>3. QED
    BY <2>1, <2>2 DEF CloseInv, HungUp, Queued, connVars
<1>7. QED
  BY <1>1, <1>2, <1>3, <1>4, <1>5, <1>6, PopHungUp DEF MainStep, CleanupStep, ShutdownStep

(* Every step of the server keeps it. *)
LEMMA CloseStep ==
    ASSUME "mismatch" \notin Received, Inv, CloseInv, [Next]_vars
    PROVE  CloseInv'
<1>1. CASE UNCHANGED vars
  BY <1>1, SameHungUp DEF vars, connVars, registryVars, objectVars, walkVars
<1>2. ASSUME NEW c \in Conns,
             (\E m \in Msgs : Send(c, m)) \/ Leave(c) \/ Accept(c)
      PROVE  CloseInv'
  BY <1>2, SameHungUp
  DEF Send, PeerSend, Leave, PeerClose, Accept, connVars, registryVars, objectVars,
      walkVars
<1>3. ASSUME NEW c \in Conns, Attach(c)
      PROVE  CloseInv'
  <2>1. \A d \in Conns : obj'[d] = obj[d] \/ obj'[d] = "alive"
    BY <1>3 DEF Attach, Inv, TypeOK
  <2>2. UNCHANGED <<disconnected, stage, rpc, rmsg, run>>
    BY <1>3 DEF Attach, InstallHandler, registryVars, walkVars
  <2>3. QED
    BY <2>1, <2>2 DEF CloseInv, HungUp, Queued
<1>4. ASSUME NEW c \in Conns, DrainTake(c) \/ DrainDone(c) \/ ClientConnected(c)
      PROVE  CloseInv'
  BY <1>4, SameHungUp
  DEF DrainTake, TakeQueued, DrainDone, ClientConnected, connVars, registryVars,
      objectVars, walkVars
<1>5. CASE ListenerStops \/ Interrupt
  BY <1>5, SameHungUp DEF ListenerStops, Interrupt, connVars, registryVars, objectVars,
     walkVars
<1>6. QED
  BY <1>1, <1>2, <1>3, <1>4, <1>5, ReadHungUp, HandlerHungUp, DisconnectHungUp, MainHungUp
  DEF Next, ListenerStep

(* Nothing is queued, and no thread is anywhere, when the server starts. *)
LEMMA InitHungUp == Init => CloseInv
<1>1. SUFFICES ASSUME Init PROVE CloseInv
  OBVIOUS
<1>2. \A c \in Conns : /\ rpc[c] = "none" /\ obj[c] = "none"
                       /\ stage[c] = "start" /\ disconnected = <<>>
  BY <1>1 DEF Init, ConnInit, Handlers
<1>3. QED
  BY <1>2 DEF CloseInv, HungUp, Queued

(* As long as no client is queued for its name, no callback runs on one that *)
(* is being destroyed, and the join in cleanupRemovableClients() is short.   *)
THEOREM NoCallbackHolds ==
    ASSUME "mismatch" \notin Received
    PROVE  Spec => []NoCallbackAfterDestroy
<1>1. Inv /\ CloseInv /\ [Next]_vars => CloseInv'
  BY CloseStep
<1>2. Inv /\ CloseInv => NoCallbackAfterDestroy
  BY DEF CloseInv, HungUp, NoCallbackAfterDestroy
<1>3. QED
  BY <1>1, <1>2, InitHungUp, Invariance, PTL DEF Spec

(* The client whose processMessage() runs is there then. *)
LEMMA AliveInCall ==
    ASSUME Inv, CloseInv, NEW t \in Handlers, InCall(t)
    PROVE  Client(t) \in Conns /\ obj[Client(t)] \notin {"dying", "freed"}
<1>1. CASE t = Listener
  BY <1>1 DEF InCall, Client, Inv, TypeOK, ListenerInv, Ownership
<1>2. CASE t # Listener
  BY <1>2 DEF InCall, Client, Handlers, CloseInv, HungUp
<1>3. QED
  BY <1>1, <1>2

(* Without such names no copy of a connection outlives its client and none is *)
(* null when it is used: processMessage() does not end the process.          *)
THEOREM NeverAborts ==
    ASSUME "mismatch" \notin Received
    PROVE  Spec => []~aborted
<1>1. Init => ~aborted
  BY DEF Init
<1>2. Inv /\ CloseInv /\ ~aborted /\ [Next]_vars => ~aborted'
  <2>1. SUFFICES ASSUME Inv, CloseInv, ~aborted, [Next]_vars
                 PROVE  ~aborted'
    OBVIOUS
  <2>2. ASSUME NEW t \in Handlers
        PROVE  ~UseCleared(t) /\ ~LastReference(t)
    <3>1. ~LastReference(t)
      BY <2>1, AliveInCall DEF LastReference, Holding
    <3>2. Cleared(Client(t)) /\ Client(t) \in Conns => obj[Client(t)] = "dying"
      BY <2>1 DEF Cleared, Inv, MainInv
    <3>3. QED
      BY <2>1, <3>1, <3>2, AliveInCall DEF UseCleared, Starting
  <2>3. ASSUME NEW t \in Handlers, HandlerStep(t)
        PROVE  ~aborted'
    BY <2>1, <2>2, <2>3
    DEF HandlerStep, Ignore, IdentifyNonAircraft, StartReply, ReplyReturns,
        HoldConnection, ReleaseConnection, DisconnectDuringShutdown, WaitForLock,
        StartRelay, WalkNext, RelayEnd, mainVars
  <2>4. CASE MainStep
    BY <2>1, <2>4
    DEF MainStep, CleanupStep, StartCleanup, PopRemovable, EndCleanup, DetachClient,
        DetachHeldClient, HangUp, JoinClient, WalkNext, MainWalkEnd, ShutdownStep,
        StopListening, JoinListener, StartShutdown, LockForShutdown, ShutClient,
        JoinShutClient, AllShut, DestroyQueued, DestroyListed, mainVars
  <2>5. CASE ListenerStep
    BY <2>1, <2>5
    DEF ListenerStep, Attach, DrainTake, DrainDone, ClientConnected, ListenerStops,
        mainVars
  <2>6. ASSUME NEW c \in Conns,
               (\E m \in Msgs : Send(c, m)) \/ Leave(c) \/ Accept(c) \/ Handshake(c)
                  \/ Receive(c)
        PROVE  ~aborted'
    BY <2>1, <2>6 DEF Send, Leave, Accept, Handshake, Receive, mainVars
  <2>7. ASSUME NEW t \in Handlers, ClientDisconnected(t)
        PROVE  ~aborted'
    BY <2>1, <2>7 DEF ClientDisconnected, mainVars
  <2>8. CASE Interrupt \/ UNCHANGED vars
    BY <2>1, <2>8 DEF Interrupt, vars, mainVars
  <2>9. QED
    BY <2>1, <2>3, <2>4, <2>5, <2>6, <2>7, <2>8 DEF Next
<1>3. Inv /\ CloseInv /\ [Next]_vars => CloseInv'
  BY CloseStep
<1>4. QED
  BY <1>1, <1>2, <1>3, InitHungUp, Invariance, PTL DEF Spec

===============================================================================
