------------------------------ MODULE ClientPool ------------------------------
(***************************************************************************)
(* The client library of src/src/client-ssl.cpp: fss_client with its two   *)
(* lists of servers, the application's thread that reconnects what is      *)
(* down, and one receive thread per connection that runs                   *)
(* fss_server::processMessage().  Nothing here takes a lock.               *)
(*                                                                         *)
(* An element of Conns is an fss_server object together with the           *)
(* connection it has, if any: the object makes a new connection whenever   *)
(* it reconnects, after the old one was destroyed.  Of a list the model    *)
(* keeps how often each server is on it; its order matters to nothing here *)
(* and loops visit nodes in any order.  A member function of std::list is  *)
(* one step; two of them by two threads at once are undefined and not      *)
(* modelled.                                                               *)
(*                                                                         *)
(* A message of the model is an address: a server list with that entry.  A *)
(* longer list is handled entry by entry, as several of these would be.    *)
(* Null stands for the messages that leave the pool alone.  Time is        *)
(* abstracted to whether the retry delay of a server has passed.           *)
(***************************************************************************)
EXTENDS Connection, FiniteSets

CONSTANTS
    Known,      \* addresses in the configuration file
    Nowhere,    \* the address of an object that was not made yet
    NoServer,   \* no fss_server
    Quits,      \* may the application call disconnect()
    MaxQueue    \* bound: messages queued before the handler is installed

Addresses == Msgs

ASSUME PoolAssumption ==
    /\ Known \subseteq Addresses
    /\ Nowhere \notin Addresses
    /\ NoServer \notin Conns
    /\ Quits \in BOOLEAN
    /\ MaxQueue \in Nat
    /\ IsFiniteSet(Conns)
    /\ IsFiniteSet(Addresses)
    /\ Cardinality(Known) < Cardinality(Conns)

VARIABLES
    addr,                \* address of each fss_server
    conn,                \* conn # nullptr
    due,                 \* the retry delay has passed
    servers,             \* the list of connected servers
    reconnect_servers,   \* the list of the others
    stage,               \* how far processMessage() has got, per thread
    apc, cur,            \* the application: where, and with which server
    visited,             \* the nodes attemptReconnect() has come to
    amsg,                \* the local msg of setHandler()'s loop
    reconnected          \* the local list of attemptReconnect()

poolVars == <<addr, servers, reconnect_servers>>
serverVars == <<conn, due>>
appVars == <<apc, visited, cur, amsg, reconnected>>
vars == <<connVars, poolVars, serverVars, stage, appVars>>

App == NoServer            \* the application's thread, when it handles messages
Threads == Conns \cup {App}

(***************************************************************************)
(* The application: "idle"; "iterate" over reconnect_servers; in           *)
(* reconnect() of cur: "clear" the old connection, "try", "connect",       *)
(* "install" the handler, "drain" and "handle" in setHandler(); then, in   *)
(* attemptReconnect(), "move" and "push" of what was reconnected, or, in   *)
(* connectTo(), "add"; "walk" and "join" in disconnect(); "gone".          *)
(***************************************************************************)
AppPCs == {"idle", "iterate", "clear", "try", "connect", "install", "drain",
           "handle", "move", "push", "add", "walk", "join", "gone"}

TypeOK ==
    /\ ConnTypeOK
    /\ addr \in [Conns -> Addresses \cup {Nowhere}]
    /\ conn \in [Conns -> BOOLEAN]
    /\ due \in [Conns -> BOOLEAN]
    /\ servers \in [Conns -> Nat]
    /\ reconnect_servers \in [Conns -> Nat]
    /\ stage \in [Threads -> {"start", "look", "add", "push"}]
    /\ apc \in AppPCs
    /\ visited \subseteq Conns
    /\ cur \in Conns \cup {NoServer}
    /\ amsg \in Received
    /\ reconnected \subseteq Conns

Unused == {s \in Conns : addr[s] = Nowhere}

PushBack(list, s) == [list EXCEPT ![s] = @ + 1]
RemoveAll(list, s) == [list EXCEPT ![s] = 0]
On(list, s) == list[s] > 0

(* The constructor: every configured server waits to be connected. *)
Init ==
    /\ ConnInit
    /\ \E object \in [Known -> Conns] :
          /\ \A a, b \in Known : object[a] = object[b] => a = b
          /\ addr = [s \in Conns |-> IF \E a \in Known : object[a] = s
                                     THEN CHOOSE a \in Known : object[a] = s
                                     ELSE Nowhere]
    /\ servers = [s \in Conns |-> 0]
    /\ reconnect_servers = [s \in Conns |-> IF s \in Unused THEN 0 ELSE 1]
    /\ conn = [s \in Conns |-> FALSE]
    /\ due = [s \in Conns |-> TRUE]
    /\ stage = [t \in Threads |-> "start"]
    /\ apc = "idle"
    /\ visited = {}
    /\ cur = NoServer
    /\ amsg = Null
    /\ reconnected = {}

-----------------------------------------------------------------------------
(* The servers.  As in Server, a peer writes or closes when the receive       *)
(* thread is about to read.                                                  *)

HoldsList(s) ==
    \/ rmsg[s] \in Addresses
    \/ \E i \in DOMAIN wire[s] : wire[s][i] \in Addresses
    \/ \E i \in DOMAIN messages[s] : messages[s][i] \in Addresses

(* Bound: every list on its way finds an object for the server it may add. *)
MaySendList(s) ==
    /\ ~HoldsList(s)
    /\ amsg \notin Addresses
    /\ Cardinality({o \in Conns : HoldsList(o)}) < Cardinality(Unused)

Send(s, m) ==
    /\ rpc[s] = "recv"
    /\ fd[s] = "open"
    /\ wire[s] = <<>>
    /\ Len(messages[s]) < MaxQueue
    /\ m \in Addresses => MaySendList(s)
    /\ PeerSend(s, m)
    /\ UNCHANGED <<poolVars, serverVars, stage, appVars>>

Leave(s) ==
    /\ rpc[s] = "recv"
    /\ wire[s] = <<>>
    /\ PeerClose(s)
    /\ UNCHANGED <<poolVars, serverVars, stage, appVars>>

(* The clock passes last_tried + retry_delay. *)
Elapse(s) ==
    /\ ~due[s]
    /\ due' = [due EXCEPT ![s] = TRUE]
    /\ UNCHANGED <<connVars, poolVars, conn, stage, appVars>>

Receive(s) ==
    /\ ReceiveStep(s)
    /\ UNCHANGED <<poolVars, serverVars, stage, appVars>>

-----------------------------------------------------------------------------
(* fss_server::processMessage(), on the receive thread or, for what           *)
(* setHandler() drains, on the application's.                                *)

Server(t) == IF t = App THEN cur ELSE t
Message(t) == IF t = App THEN amsg ELSE rmsg[t]
InCall(t) == IF t = App THEN apc = "handle" ELSE rpc[t] = "call"
At(t, where) == InCall(t) /\ stage[t] = where

Return(t) ==
    /\ stage' = [stage EXCEPT ![t] = "start"]
    /\ IF t = App
       THEN /\ apc' = "drain"
            /\ amsg' = Null
            /\ UNCHANGED <<connVars, visited, cur, reconnected>>
       ELSE HandlerReturns(t) /\ UNCHANGED appVars

GoTo(t, where) ==
    /\ stage' = [stage EXCEPT ![t] = where]
    /\ UNCHANGED <<connVars, appVars>>

(* Messages that are answered or given to the application. *)
Ignore(t) ==
    /\ At(t, "start")
    /\ Message(t) = Null
    /\ Return(t)
    /\ UNCHANGED <<poolVars, serverVars>>

(* server_list_matches() *)
Matches(list, a) == \E s \in Conns : On(list, s) /\ addr[s] = a

(* updateServers() looks through one list, then the other, ... *)
LookInServers(t) ==
    /\ At(t, "start")
    /\ Message(t) \in Addresses
    /\ IF Matches(servers, Message(t)) THEN Return(t) ELSE GoTo(t, "look")
    /\ UNCHANGED <<poolVars, serverVars>>

LookInReconnect(t) ==
    /\ At(t, "look")
    /\ IF Matches(reconnect_servers, Message(t)) THEN Return(t) ELSE GoTo(t, "add")
    /\ UNCHANGED <<poolVars, serverVars>>

(* Broken: makes the server and does not keep it. *)
AddUnknownDropped(t) ==
    /\ At(t, "add")
    /\ \E s \in Unused : addr' = [addr EXCEPT ![s] = Message(t)]
    /\ Return(t)
    /\ UNCHANGED <<servers, reconnect_servers, serverVars>>

(* ... and, if the address is in neither, calls connectTo() without           *)
(* connecting: addServer() puts the new server with the unconnected ones.    *)
AddUnknown(t) ==
    /\ At(t, "add")
    /\ \E s \in Unused :
          /\ addr' = [addr EXCEPT ![s] = Message(t)]
          /\ reconnect_servers' = PushBack(reconnect_servers, s)
    /\ Return(t)
    /\ UNCHANGED <<servers, serverVars>>

(* The end of the stream: serverRequiresReconnect() looks for the server in   *)
(* the list of the connected ones and takes it out, ...                      *)
RequireReconnect(t) ==
    /\ At(t, "start")
    /\ Message(t) = Closed
    /\ IF On(servers, Server(t))
       THEN servers' = RemoveAll(servers, Server(t)) /\ GoTo(t, "push")
       ELSE Return(t) /\ UNCHANGED servers
    /\ UNCHANGED <<addr, reconnect_servers, serverVars>>

(* ... and puts it with the others.  Clearing last_tried changes nothing: it  *)
(* has been 0 since the connection was made.                                 *)
PushReconnect(t) ==
    /\ At(t, "push")
    /\ reconnect_servers' = PushBack(reconnect_servers, Server(t))
    /\ Return(t)
    /\ UNCHANGED <<addr, servers, serverVars>>

HandlerStep(t) ==
    \/ Ignore(t) \/ LookInServers(t) \/ LookInReconnect(t) \/ AddUnknown(t)
    \/ RequireReconnect(t) \/ PushReconnect(t)

-----------------------------------------------------------------------------
(* The application: attemptReconnect(), connectTo(), disconnect(). *)

StartAttempt ==
    /\ apc = "idle"
    /\ apc' = "iterate"
    /\ visited' = {}
    /\ UNCHANGED <<connVars, poolVars, serverVars, stage, cur, amsg, reconnected>>

(* The loop over reconnect_servers, to which other threads may add; the       *)
(* start of reconnect().                                                     *)
NextServer ==
    /\ apc = "iterate"
    /\ \E s \in Conns \ visited :
          /\ On(reconnect_servers, s)
          /\ visited' = visited \cup {s}
          /\ cur' = s
          /\ IF conn[s] THEN apc' = "clear" /\ ShutSocket(s)
                        ELSE apc' = "try" /\ UNCHANGED connVars
    /\ UNCHANGED <<poolVars, serverVars, stage, amsg, reconnected>>

(* Broken: the old receive thread is not waited for. *)
JoinClearedDetached ==
    /\ apc = "clear"
    /\ conn' = [conn EXCEPT ![cur] = FALSE]
    /\ apc' = "try"
    /\ UNCHANGED <<connVars, poolVars, due, stage, visited, cur, amsg, reconnected>>

(* clearConnection() destroyed the last reference: the join of disconnect(). *)
(* Only the application takes copies from getConnection(); the receive       *)
(* threads of the client library never hold one.                             *)
JoinCleared ==
    /\ apc = "clear"
    /\ JoinReceiver(cur)
    /\ conn' = [conn EXCEPT ![cur] = FALSE]
    /\ apc' = "try"
    /\ UNCHANGED <<poolVars, due, stage, visited, cur, amsg, reconnected>>

(* connectTo() makes a server and calls its reconnect() before addServer(). *)
ConnectTo(s, a) ==
    /\ apc = "idle"
    /\ s \in Unused
    /\ Cardinality({o \in Conns : HoldsList(o)}) < Cardinality(Unused)
    /\ addr' = [addr EXCEPT ![s] = a]
    /\ cur' = s
    /\ visited' = {}
    /\ apc' = "try"
    /\ UNCHANGED <<connVars, servers, reconnect_servers, serverVars, stage, amsg,
                   reconnected>>

(* Who called reconnect(): attemptReconnect() when it stands on a node. *)
Attempting == cur \in visited

(* reconnect() returns false. *)
NotReconnected ==
    /\ apc' = IF Attempting THEN "iterate" ELSE "add"
    /\ UNCHANGED <<visited, cur, amsg, reconnected>>

Wait ==
    /\ apc = "try"
    /\ ~due[cur]
    /\ NotReconnected
    /\ UNCHANGED <<connVars, poolVars, serverVars, stage>>

Try ==
    /\ apc = "try"
    /\ due[cur]
    /\ due' = [due EXCEPT ![cur] = FALSE]
    /\ apc' = "connect"
    /\ UNCHANGED <<connVars, poolVars, conn, stage, visited, cur, amsg, reconnected>>

(* The connection that was made is cleared again. *)
ConnectFails ==
    /\ apc = "connect"
    /\ NotReconnected
    /\ UNCHANGED <<connVars, poolVars, serverVars, stage>>

(* A new connection object, connected, with a receive thread. *)
ConnectSucceeds ==
    /\ apc = "connect"
    /\ conn' = [conn EXCEPT ![cur] = TRUE]
    /\ fd' = [fd EXCEPT ![cur] = "open"]
    /\ peerOpen' = [peerOpen EXCEPT ![cur] = TRUE]
    /\ part' = [part EXCEPT ![cur] = FALSE]
    /\ wire' = [wire EXCEPT ![cur] = <<>>]
    /\ messages' = [messages EXCEPT ![cur] = <<>>]
    /\ handler' = [handler EXCEPT ![cur] = FALSE]
    /\ run' = [run EXCEPT ![cur] = TRUE]
    /\ rpc' = [rpc EXCEPT ![cur] = "recv"]
    /\ apc' = "install"
    /\ UNCHANGED <<rmsg, poolVars, due, stage, visited, cur, amsg, reconnected>>

Install ==
    /\ apc = "install"
    /\ InstallHandler(cur)
    /\ apc' = "drain"
    /\ UNCHANGED <<poolVars, serverVars, stage, visited, cur, amsg, reconnected>>

DrainTake ==
    /\ apc = "drain"
    /\ TakeQueued(cur)
    /\ amsg' = Head(messages[cur])
    /\ apc' = "handle"
    /\ UNCHANGED <<poolVars, serverVars, stage, visited, cur, reconnected>>

(* setHandler() returns; sendIdentify(); last_tried = 0; return true. *)
DrainDone ==
    /\ apc = "drain"
    /\ messages[cur] = <<>>
    /\ due' = [due EXCEPT ![cur] = TRUE]
    /\ reconnected' = IF Attempting THEN reconnected \cup {cur} ELSE reconnected
    /\ apc' = IF Attempting THEN "iterate" ELSE "add"
    /\ UNCHANGED <<connVars, poolVars, conn, stage, visited, cur, amsg>>

EndOfList ==
    /\ apc = "iterate"
    /\ \A s \in Conns \ visited : ~On(reconnect_servers, s)
    /\ apc' = "move"
    /\ UNCHANGED <<connVars, poolVars, serverVars, stage, visited, cur, amsg,
                   reconnected>>

(* Broken: stays with the unconnected servers as well. *)
MoveReconnectedKeeps ==
    /\ apc = "move"
    /\ \E s \in reconnected :
          /\ cur' = s
          /\ reconnected' = reconnected \ {s}
    /\ apc' = "push"
    /\ UNCHANGED <<connVars, poolVars, serverVars, stage, visited, amsg>>

(* What was reconnected leaves one list ... *)
MoveReconnected ==
    /\ apc = "move"
    /\ \E s \in reconnected :
          /\ cur' = s
          /\ reconnected' = reconnected \ {s}
          /\ reconnect_servers' = RemoveAll(reconnect_servers, s)
    /\ apc' = "push"
    /\ UNCHANGED <<connVars, addr, servers, serverVars, stage, visited, amsg>>

(* Broken: the local list was the last to hold it. *)
PushConnectedForgets ==
    /\ apc = "push"
    /\ cur' = NoServer
    /\ apc' = "move"
    /\ UNCHANGED <<connVars, poolVars, serverVars, stage, visited, amsg, reconnected>>

(* ... and enters the other. *)
PushConnected ==
    /\ apc = "push"
    /\ servers' = PushBack(servers, cur)
    /\ cur' = NoServer
    /\ apc' = "move"
    /\ UNCHANGED <<connVars, addr, reconnect_servers, serverVars, stage, visited, amsg,
                   reconnected>>

(* attemptReconnect() returns. *)
AttemptDone ==
    /\ apc = "move"
    /\ reconnected = {}
    /\ apc' = "idle"
    /\ visited' = {}
    /\ cur' = NoServer
    /\ UNCHANGED <<connVars, poolVars, serverVars, stage, amsg, reconnected>>

(* Broken: does not ask whether it is connected. *)
AddServerUnchecked ==
    /\ apc = "add"
    /\ servers' = PushBack(servers, cur)
    /\ apc' = "idle"
    /\ cur' = NoServer
    /\ UNCHANGED <<connVars, addr, reconnect_servers, serverVars, stage, visited, amsg,
                   reconnected>>

(* addServer() at the end of connectTo() *)
AddServer ==
    /\ apc = "add"
    /\ IF conn[cur]
       THEN servers' = PushBack(servers, cur) /\ UNCHANGED reconnect_servers
       ELSE reconnect_servers' = PushBack(reconnect_servers, cur) /\ UNCHANGED servers
    /\ apc' = "idle"
    /\ cur' = NoServer
    /\ UNCHANGED <<connVars, addr, serverVars, stage, visited, amsg, reconnected>>

(* disconnect(): the last call of the application.  The receive thread that   *)
(* is joined takes its server off the list, node and all; the loop goes on   *)
(* with what is left, or ends.                                               *)
StartDisconnect ==
    /\ Quits
    /\ apc = "idle"
    /\ apc' = "walk"
    /\ UNCHANGED <<connVars, poolVars, serverVars, stage, visited, cur, amsg,
                   reconnected>>

ShutServer ==
    /\ apc = "walk"
    /\ \E s \in Conns :
          /\ On(servers, s)
          /\ conn[s]
          /\ cur' = s
          /\ ShutSocket(s)
    /\ apc' = "join"
    /\ UNCHANGED <<poolVars, serverVars, stage, visited, amsg, reconnected>>

JoinShut ==
    /\ apc = "join"
    /\ JoinReceiver(cur)
    /\ conn' = [conn EXCEPT ![cur] = FALSE]
    /\ apc' = "walk"
    /\ UNCHANGED <<poolVars, due, stage, visited, cur, amsg, reconnected>>

Disconnected ==
    /\ apc = "walk"
    /\ \/ \A s \in Conns : On(servers, s) => ~conn[s]
       \/ cur # NoServer /\ ~On(servers, cur)
    /\ apc' = "gone"
    /\ UNCHANGED <<connVars, poolVars, serverVars, stage, visited, cur, amsg,
                   reconnected>>

AttemptStep ==
    \/ StartAttempt \/ NextServer \/ JoinCleared \/ Wait \/ Try \/ ConnectFails
    \/ ConnectSucceeds \/ Install \/ DrainTake \/ DrainDone \/ EndOfList
    \/ MoveReconnected \/ PushConnected \/ AttemptDone \/ AddServer

DisconnectStep == ShutServer \/ JoinShut \/ Disconnected

-----------------------------------------------------------------------------
Next ==
    \/ \E s \in Conns :
          \/ \E m \in Addresses \cup {Null} : Send(s, m)
          \/ Leave(s) \/ Elapse(s) \/ Receive(s)
          \/ \E a \in Addresses : ConnectTo(s, a)
    \/ \E t \in Threads : HandlerStep(t)
    \/ AttemptStep
    \/ StartDisconnect
    \/ DisconnectStep

Spec == Init /\ [][Next]_vars

(* Threads that can run do, time passes, and the application calls            *)
(* attemptReconnect() again and again, as the main loop of the example       *)
(* client does.  Connecting comes to an end, one way or the other, and what  *)
(* bye() and sendIdentify() write, without a timeout, is read or refused.    *)
Fairness ==
    /\ \A s \in Conns : WF_vars(Receive(s)) /\ WF_vars(Elapse(s))
    /\ \A t \in Threads : WF_vars(HandlerStep(t))
    /\ WF_vars(AttemptStep)
    /\ WF_vars(DisconnectStep)

(* A server that is tried again and again answers at some point. *)
Reachable == \A s \in Conns : SF_vars(cur = s /\ ConnectSucceeds)

FairSpec == Spec /\ Fairness

ReachableSpec == FairSpec /\ Reachable

-----------------------------------------------------------------------------
(* Properties. *)

(* In the hands of a thread, between one list and the other. *)
InHand(s) ==
    \/ cur = s /\ apc = "push"
    \/ cur = s /\ ~Attempting
         /\ apc \in {"try", "connect", "install", "drain", "handle", "add"}
    \/ \E t \in Threads : stage[t] = "push" /\ Server(t) = s

(* A server is in one list, once, or on its way to one: neither              *)
(* serverRequiresReconnect() on any receive thread, nor attemptReconnect()   *)
(* meanwhile, loses it or lists it twice.                                    *)
InOnePlace ==
    \A s \in Conns :
        servers[s] + reconnect_servers[s] + (IF InHand(s) THEN 1 ELSE 0)
            = IF s \in Unused THEN 0 ELSE 1

(* The application has called disconnect(). *)
Quitting == apc \in {"walk", "join", "gone"}

(* sendMsgAll() and notifyConnectionStatus() take the servers on the list to  *)
(* have a connection.                                                        *)
ListedHasConnection ==
    ~Quitting => \A s \in Conns : On(servers, s) => conn[s]

(* A connection is let go with its receive thread out of the server: cleared  *)
(* or replaced, it has no call left that would reach the fss_server.         *)
ClearedIsQuiet ==
    \A s \in Conns : ~conn[s] => rpc[s] = "none" /\ stage[s] = "start"

(* A server that is down is connected again, however often the connection     *)
(* fails or the others come and go, once it can be reached.                  *)
Reconnects ==
    \A s \in Conns :
        On(reconnect_servers, s) ~> (On(servers, s) \/ Quitting)

(* A server that a list names is connected to at some point: updateServers() *)
(* finds it or adds it, on either thread.                                    *)
LearnsServers ==
    \A t \in Threads : \A a \in Addresses :
        (InCall(t) /\ Message(t) = a) ~> (Matches(servers, a) \/ Quitting)

(* disconnect() comes back, whatever its receive threads are doing. *)
DisconnectFinishes == apc = "walk" ~> apc = "gone"

(* client-ssl.cpp:297, "Connection has been closed, schedule reconnection".   *)
(* The code does not keep this: see the README.                              *)
ClosedIsRetried ==
    \A s \in Conns :
        (On(servers, s) /\ ~peerOpen[s]) ~> ~On(servers, s)

===============================================================================
