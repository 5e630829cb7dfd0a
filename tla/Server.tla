-------------------------------- MODULE Server --------------------------------
(***************************************************************************)
(* The server process of src/src/server.cpp: the listener thread that      *)
(* accepts and registers clients, one receive thread per connection that   *)
(* runs fss_client::processMessage(), the registry server_clients with its *)
(* lock, and the main thread that cleans up, walks the registry once a     *)
(* second and takes everything down after SIGINT.                          *)
(*                                                                         *)
(* What a message makes the server send or store is left to other modules: *)
(* here a message matters by what it does to the registry and to the       *)
(* client objects.  The registry's list is a set, walked in any order; the *)
(* walks do not take the lock, and an undefined access (a node or an       *)
(* object that is gone) is taken to go on as if the memory were intact or  *)
(* to end the walk.  The properties at the end say where that happens.     *)
(***************************************************************************)
EXTENDS Connection, FiniteSets

CONSTANTS
    Main, Listener,   \* the two threads that are not a connection's
    Nobody,           \* no connection
    CanFail,          \* may the TLS handshake with a peer fail
    Stop,             \* may SIGINT arrive
    MaxQueue          \* bound: messages queued before the handler is installed

(***************************************************************************)
(* The messages: an identity whose name is in the client's certificate,    *)
(* one whose name is not, an identity of something that is no aircraft, a  *)
(* position report and a request for a round trip.  Once a client is       *)
(* identified every other message it may send acts on the registry as Null *)
(* does; before that each is answered as a report is.                      *)
(***************************************************************************)
ASSUME ServerAssumption ==
    /\ Msgs \subseteq {"identity", "mismatch", "non_aircraft", "report",
                        "rtt_request"}
    /\ Main # Listener
    /\ {Main, Listener, Nobody} \cap Conns = {}
    /\ Nobody \notin {Main, Listener}
    /\ CanFail \in BOOLEAN
    /\ Stop \in BOOLEAN

VARIABLES
    lock,            \* server_clients::lock is held by the main thread
    clients,         \* the connected clients
    disconnected,    \* the queue of clients waiting to be destroyed
    total_clients,
    shutting_down,
    obj,             \* the fss_client of each connection
    identified,      \* its member of this name
    stage,           \* how far a processMessage() has got, per thread
    cursor, seen,    \* the iterator of a walk, and what it has passed
    lpc, lconn, lmsg,  \* the listener: where, with which connection, message
    listenOpen,      \* the listening socket is open
    mpc, mcur,       \* the main thread: where, with which client
    running,         \* cleared by the SIGINT handler
    aborted          \* the process has ended by a crash or std::terminate()

registryVars == <<lock, clients, disconnected, total_clients, shutting_down>>
objectVars == <<obj, identified>>
walkVars == <<stage, cursor, seen>>
listenerVars == <<lpc, lconn, lmsg, listenOpen>>
mainVars == <<mpc, mcur, running, aborted>>
vars == <<connVars, registryVars, objectVars, walkVars, listenerVars, mainVars>>

Handlers == Conns \cup {Listener}   \* the threads that run processMessage()
Walkers == Handlers \cup {Main}     \* the threads that walk the list

(***************************************************************************)
(* The listener: "accept", in the TLS "handshake", about to "attach" the   *)
(* handler, in setHandler()'s loop ("drain", "handle"), about to           *)
(* "register", "stopped".                                                  *)
(*                                                                         *)
(* The main thread: "sleep"; "cleanup", "detach", "bye", "join" in         *)
(* cleanupRemovableClients(); "walk"; then, after SIGINT, "stoplisten" and *)
(* "joinlisten" in the destructor of listen, "shutdown", "shutlock",       *)
(* "shutwalk", "shutjoin", "destroy" (again by "detach", "bye" and "join") *)
(* in that of the registry, and "done".                                    *)
(***************************************************************************)
ListenerPCs == {"accept", "handshake", "attach", "drain", "handle", "register",
                "stopped"}
MainPCs == {"sleep", "cleanup", "detach", "bye", "join", "walk", "stoplisten",
            "joinlisten", "shutdown", "shutlock", "shutwalk", "shutjoin",
            "destroy", "done"}

TypeOK ==
    /\ ConnTypeOK
    /\ lock \in BOOLEAN
    /\ clients \subseteq Conns
    /\ disconnected \in Seq(Conns)
    /\ total_clients \in Nat
    /\ shutting_down \in BOOLEAN
    /\ obj \in [Conns -> {"none", "alive", "dying", "freed"}]
    /\ identified \in [Conns -> BOOLEAN]
    /\ stage \in [Handlers -> {"start", "hold", "reply", "lock", "walk"}]
    /\ cursor \in [Walkers -> Conns \cup {Nobody}]
    /\ seen \in [Walkers -> SUBSET Conns]
    /\ lpc \in ListenerPCs
    /\ lconn \in Conns \cup {Nobody}
    /\ lmsg \in Received
    /\ listenOpen \in BOOLEAN
    /\ mpc \in MainPCs
    /\ mcur \in Conns \cup {Nobody}
    /\ running \in BOOLEAN
    /\ aborted \in BOOLEAN

Init ==
    /\ ConnInit
    /\ lock = FALSE
    /\ clients = {}
    /\ disconnected = <<>>
    /\ total_clients = 0
    /\ shutting_down = FALSE
    /\ obj = [c \in Conns |-> "none"]
    /\ identified = [c \in Conns |-> FALSE]
    /\ stage = [t \in Handlers |-> "start"]
    /\ cursor = [t \in Walkers |-> Nobody]
    /\ seen = [t \in Walkers |-> {}]
    /\ lpc = "accept"
    /\ lconn = Nobody
    /\ lmsg = Null
    /\ listenOpen = TRUE
    /\ mpc = "sleep"
    /\ mcur = Nobody
    /\ running = TRUE
    /\ aborted = FALSE

(* A thread is somewhere, in a process that has not ended. *)
ListenerAt(pc) == ~aborted /\ lpc = pc
MainAt(pc) == ~aborted /\ mpc = pc

-----------------------------------------------------------------------------
(* The peers.  A peer writes or leaves when the receive thread is about to    *)
(* read: what it did earlier would only have waited in the socket.  (Closing *)
(* abruptly, which loses what waits there, is then the same as closing.)     *)

Send(c, m) ==
    /\ ~aborted
    /\ rpc[c] = "recv"
    /\ fd[c] = "open"
    /\ wire[c] = <<>>
    /\ Len(messages[c]) < MaxQueue
    /\ PeerSend(c, m)
    /\ UNCHANGED <<registryVars, objectVars, walkVars, listenerVars, mainVars>>

Leave(c) ==
    /\ ~aborted
    /\ rpc[c] \in {"recv", "none"}
    /\ wire[c] = <<>>
    /\ PeerClose(c)
    /\ UNCHANGED <<registryVars, objectVars, walkVars, listenerVars, mainVars>>

-----------------------------------------------------------------------------
(* The listener: processMessages() of fss_listen, newConnection() and         *)
(* new_client_connect().                                                     *)

Accept(c) ==
    /\ ListenerAt("accept")
    /\ listenOpen
    /\ fd[c] = "unset"
    /\ lpc' = "handshake"
    /\ lconn' = c
    /\ UNCHANGED <<connVars, registryVars, objectVars, walkVars, lmsg,
                   listenOpen, mainVars>>

(* setupSSL() blocks until the peer answers.  A failure is only remembered:  *)
(* the connection goes to the callback without a receive thread.             *)
Handshake(c) ==
    /\ ListenerAt("handshake")
    /\ lconn = c
    /\ \E ok \in {TRUE, ~CanFail} : OpenSocket(c, ok)
    /\ lpc' = "attach"
    /\ UNCHANGED <<registryVars, objectVars, walkVars, lconn, lmsg, listenOpen,
                   mainVars>>

(* The constructor of fss_client, up to the drain in setHandler(). *)
Attach(c) ==
    /\ ListenerAt("attach")
    /\ lconn = c
    /\ InstallHandler(c)
    /\ obj' = [obj EXCEPT ![c] = "alive"]
    /\ lpc' = "drain"
    /\ UNCHANGED <<registryVars, identified, walkVars, lconn, lmsg, listenOpen,
                   mainVars>>

DrainTake(c) ==
    /\ ListenerAt("drain")
    /\ lconn = c
    /\ TakeQueued(c)
    /\ lmsg' = Head(messages[c])
    /\ lpc' = "handle"
    /\ UNCHANGED <<registryVars, objectVars, walkVars, lconn, listenOpen,
                   mainVars>>

DrainDone(c) ==
    /\ ListenerAt("drain")
    /\ lconn = c
    /\ messages[c] = <<>>
    /\ lpc' = "register"
    /\ UNCHANGED <<connVars, registryVars, objectVars, walkVars, lconn, lmsg,
                   listenOpen, mainVars>>

(* Broken: does not count the client. *)
ClientConnectedUncounted(c) ==
    /\ ListenerAt("register")
    /\ lconn = c
    /\ ~lock
    /\ clients' = clients \cup {c}
    /\ lpc' = "accept"
    /\ lconn' = Nobody
    /\ UNCHANGED <<connVars, lock, disconnected, total_clients, shutting_down,
                   objectVars, walkVars, lmsg, listenOpen, mainVars>>

(* clientConnected() *)
ClientConnected(c) ==
    /\ ListenerAt("register")
    /\ lconn = c
    /\ ~lock
    /\ total_clients' = total_clients + 1
    /\ clients' = clients \cup {c}
    /\ lpc' = "accept"
    /\ lconn' = Nobody
    /\ UNCHANGED <<connVars, lock, disconnected, shutting_down, objectVars,
                   walkVars, lmsg, listenOpen, mainVars>>

(* accept() fails on the closed socket, or the loop test sees it. *)
ListenerStops ==
    /\ ListenerAt("accept")
    /\ ~listenOpen
    /\ lpc' = "stopped"
    /\ UNCHANGED <<connVars, registryVars, objectVars, walkVars, lconn, lmsg,
                   listenOpen, mainVars>>

ListenerStep ==
    \/ \E c \in Conns : Attach(c) \/ DrainTake(c) \/ DrainDone(c)
                           \/ ClientConnected(c)
    \/ ListenerStops

-----------------------------------------------------------------------------
(* fss_client::processMessage(), run by the client's receive thread or, for   *)
(* what setHandler() drains, by the listener.                                *)

Client(t) == IF t = Listener THEN lconn ELSE t
Message(t) == IF t = Listener THEN lmsg ELSE rmsg[t]
InCall(t) ==
    IF t = Listener THEN ListenerAt("handle") ELSE ~aborted /\ rpc[t] = "call"
Starting(t) == InCall(t) /\ stage[t] = "start"

Identified(t) == identified[Client(t)]

(* Back to the loop that made the call. *)
Return(t) ==
    IF t = Listener
    THEN /\ lpc' = "drain"
         /\ lmsg' = Null
         /\ UNCHANGED <<connVars, lconn, listenOpen>>
    ELSE HandlerReturns(t) /\ UNCHANGED listenerVars

StayInCall == UNCHANGED <<connVars, listenerVars>>

(* Messages that change nothing here and are not answered. *)
Ignore(t) ==
    /\ Starting(t)
    /\ \/ Message(t) = Null
       \/ Identified(t) /\ Message(t) \in {"identity", "mismatch", "non_aircraft"}
    /\ Return(t)
    /\ UNCHANGED <<registryVars, objectVars, walkVars, mainVars>>

IdentifyNonAircraft(t) ==
    /\ Starting(t)
    /\ ~Identified(t)
    /\ Message(t) = "non_aircraft"
    /\ identified' = [identified EXCEPT ![Client(t)] = TRUE]
    /\ Return(t)
    /\ UNCHANGED <<registryVars, obj, walkVars, mainVars>>

(* Any other message of a client that is not identified is answered by a      *)
(* blocking send, unless the client has no connection any more.              *)
StartReply(t) ==
    /\ Starting(t)
    /\ ~Identified(t)
    /\ Message(t) \in {"report", "rtt_request"}
    /\ stage' = [stage EXCEPT ![t] = "reply"]
    /\ StayInCall
    /\ UNCHANGED <<registryVars, objectVars, cursor, seen, mainVars>>

ReplyReturns(t) ==
    /\ InCall(t)
    /\ stage[t] = "reply"
    /\ stage' = [stage EXCEPT ![t] = "start"]
    /\ Return(t)
    /\ UNCHANGED <<registryVars, objectVars, cursor, seen, mainVars>>

(***************************************************************************)
(* The connection of a client is held by its conn member, and getConnection*)
(* returns a copy of that pointer.  processMessage() works on such copies: *)
(* for an identity to compare the names and then to send the command, the  *)
(* settings and the servers, for a request to send the response.  They are *)
(* taken one after the other; the first stands for all.                    *)
(***************************************************************************)
NeedsConnection(t) ==
    \/ ~Identified(t) /\ Message(t) \in {"identity", "mismatch"}
    \/ Identified(t) /\ Message(t) = "rtt_request"

(* conn is null from the moment its destruction starts. *)
Cleared(c) == mpc \in {"bye", "join"} /\ mcur = c

HoldConnection(t) ==
    /\ Starting(t)
    /\ NeedsConnection(t)
    /\ ~Cleared(Client(t))
    /\ stage' = [stage EXCEPT ![t] = "hold"]
    /\ IF Message(t) = "identity"
       THEN identified' = [identified EXCEPT ![Client(t)] = TRUE]
       ELSE UNCHANGED identified
    /\ StayInCall
    /\ UNCHANGED <<registryVars, obj, cursor, seen, mainVars>>

(* getConnection() returns the null pointer, which is used. *)
UseCleared(t) ==
    /\ Starting(t)
    /\ NeedsConnection(t)
    /\ Cleared(Client(t))
    /\ aborted' = TRUE
    /\ StayInCall
    /\ UNCHANGED <<registryVars, objectVars, walkVars, mpc, mcur, running>>

Holding(t) == InCall(t) /\ stage[t] = "hold"

(* The message is not an identity that clientDisconnected() is called for. *)
Welcome(t) == Message(t) # "mismatch"

ReleaseConnection(t) ==
    /\ Holding(t)
    /\ Welcome(t)
    /\ obj[Client(t)] # "freed"
    /\ stage' = [stage EXCEPT ![t] = "start"]
    /\ Return(t)
    /\ UNCHANGED <<registryVars, objectVars, cursor, seen, mainVars>>

(* The client was destroyed while its thread held a copy, which is the last   *)
(* pointer to the connection now.  The connection's destructor runs on the   *)
(* connection's own thread, which cannot join itself: the exception leaves   *)
(* the destructor, and std::terminate() ends the process.                    *)
LastReference(t) ==
    /\ Holding(t)
    /\ obj[Client(t)] = "freed"
    /\ aborted' = TRUE
    /\ StayInCall
    /\ UNCHANGED <<registryVars, objectVars, walkVars, mpc, mcur, running>>

(* The end of the stream, or a name that is not in the certificate, calls    *)
(* clientDisconnected(), whose first statement looks at shutting_down.       *)
CallsDisconnected(t) ==
    \/ Starting(t) /\ Message(t) = Closed
    \/ Holding(t) /\ ~Welcome(t) /\ obj[Client(t)] # "freed"

DisconnectDuringShutdown(t) ==
    /\ CallsDisconnected(t)
    /\ shutting_down
    /\ stage' = [stage EXCEPT ![t] = "start"]
    /\ Return(t)
    /\ UNCHANGED <<registryVars, objectVars, cursor, seen, mainVars>>

WaitForLock(t) ==
    /\ CallsDisconnected(t)
    /\ ~shutting_down
    /\ stage' = [stage EXCEPT ![t] = "lock"]
    /\ StayInCall
    /\ UNCHANGED <<registryVars, objectVars, cursor, seen, mainVars>>

(* Broken: queues the client without looking for it in the list. *)
ClientDisconnectedUnchecked(t) ==
    /\ InCall(t)
    /\ stage[t] = "lock"
    /\ ~lock
    /\ disconnected' = Append(disconnected, Client(t))
    /\ clients' = clients \ {Client(t)}
    /\ stage' = [stage EXCEPT ![t] = "start"]
    /\ Return(t)
    /\ UNCHANGED <<lock, total_clients, shutting_down, objectVars, cursor, seen,
                   mainVars>>

(* Broken: takes the client off the list and forgets to queue it. *)
ClientDisconnectedUnqueued(t) ==
    /\ InCall(t)
    /\ stage[t] = "lock"
    /\ ~lock
    /\ clients' = clients \ {Client(t)}
    /\ stage' = [stage EXCEPT ![t] = "start"]
    /\ Return(t)
    /\ UNCHANGED <<lock, disconnected, total_clients, shutting_down, objectVars,
                   cursor, seen, mainVars>>

(* Broken: no queue, the receive thread drops the last pointer itself. *)
ClientDisconnectedDestroys(t) ==
    /\ InCall(t)
    /\ stage[t] = "lock"
    /\ ~lock
    /\ clients' = clients \ {Client(t)}
    /\ obj' = [obj EXCEPT ![Client(t)] = "freed"]
    /\ stage' = [stage EXCEPT ![t] = "start"]
    /\ Return(t)
    /\ UNCHANGED <<lock, disconnected, total_clients, shutting_down, identified, cursor,
                   seen, mainVars>>

(* The rest of clientDisconnected(), with the lock. *)
ClientDisconnected(t) ==
    /\ InCall(t)
    /\ stage[t] = "lock"
    /\ ~lock
    /\ IF Client(t) \in clients
       THEN /\ disconnected' = Append(disconnected, Client(t))
            /\ clients' = clients \ {Client(t)}
       ELSE UNCHANGED <<disconnected, clients>>
    /\ stage' = [stage EXCEPT ![t] = "start"]
    /\ Return(t)
    /\ UNCHANGED <<lock, total_clients, shutting_down, objectVars, cursor, seen,
                   mainVars>>

(* A position report is reflected to the other aircraft: sendMsg(msg, this)  *)
(* walks the list.                                                           *)
StartRelay(t) ==
    /\ Starting(t)
    /\ Identified(t)
    /\ Message(t) = "report"
    /\ stage' = [stage EXCEPT ![t] = "walk"]
    /\ StayInCall
    /\ UNCHANGED <<registryVars, objectVars, cursor, seen, mainVars>>

-----------------------------------------------------------------------------
(* The loops over the list in sendMsg(), sendSMMSettings(), sendRTTRequest()  *)
(* and sendCommand(), none of which takes the lock.  The client under the    *)
(* cursor is the one being used.  A cursor whose node was removed meanwhile  *)
(* goes on with what is left, or ends the loop.                              *)

Walking(t) == IF t = Main THEN MainAt("walk") ELSE InCall(t) /\ stage[t] = "walk"

(* The iterator gets to the first or the next client, as soon as the send to  *)
(* the one it stood on has returned: see MayBlock.                           *)
WalkNext(t) ==
    /\ Walking(t)
    /\ \E c \in clients \ seen[t] :
          /\ cursor' = [cursor EXCEPT ![t] = c]
          /\ seen' = [seen EXCEPT ![t] = @ \cup {c}]
    /\ StayInCall
    /\ UNCHANGED <<registryVars, objectVars, stage, mainVars>>

EndOfList(t) ==
    \/ clients \subseteq seen[t]
    \/ cursor[t] \notin clients \cup {Nobody}

RelayEnd(t) ==
    /\ Walking(t)
    /\ EndOfList(t)
    /\ stage' = [stage EXCEPT ![t] = "start"]
    /\ cursor' = [cursor EXCEPT ![t] = Nobody]
    /\ seen' = [seen EXCEPT ![t] = {}]
    /\ Return(t)
    /\ UNCHANGED <<registryVars, objectVars, mainVars>>

(* The last of the main loop's walks, and the loop test. *)
MainWalkEnd ==
    /\ Walking(Main)
    /\ EndOfList(Main)
    /\ cursor' = [cursor EXCEPT ![Main] = Nobody]
    /\ seen' = [seen EXCEPT ![Main] = {}]
    /\ mpc' = IF running THEN "sleep" ELSE "stoplisten"
    /\ StayInCall
    /\ UNCHANGED <<registryVars, objectVars, stage, mcur, running, aborted>>

HandlerStep(t) ==
    \/ Ignore(t) \/ IdentifyNonAircraft(t) \/ StartReply(t) \/ ReplyReturns(t)
    \/ HoldConnection(t) \/ UseCleared(t) \/ ReleaseConnection(t)
    \/ LastReference(t) \/ DisconnectDuringShutdown(t) \/ WaitForLock(t)
    \/ StartRelay(t) \/ WalkNext(t) \/ RelayEnd(t)

(* The rest of a receive thread: reading, and queueing without a handler. *)
Receive(c) ==
    /\ ~aborted
    /\ ReceiveStep(c)
    /\ UNCHANGED <<registryVars, objectVars, walkVars, listenerVars, mainVars>>

-----------------------------------------------------------------------------
(* The main thread: cleanupRemovableClients(). *)

(* sleep(1) is over: take the lock. *)
StartCleanup ==
    /\ MainAt("sleep")
    /\ ~lock
    /\ lock' = TRUE
    /\ mpc' = "cleanup"
    /\ UNCHANGED <<connVars, clients, disconnected, total_clients, shutting_down,
                   objectVars, walkVars, listenerVars, mcur, running, aborted>>

(* Broken: the loop test leaves the last one in the queue. *)
PopRemovableKeepsOne ==
    /\ MainAt("cleanup")
    /\ Len(disconnected) > 1
    /\ disconnected' = Tail(disconnected)
    /\ total_clients' = total_clients - 1
    /\ mcur' = Head(disconnected)
    /\ obj' = [obj EXCEPT ![Head(disconnected)] = "dying"]
    /\ mpc' = "detach"
    /\ UNCHANGED <<connVars, lock, clients, shutting_down, identified, walkVars,
                   listenerVars, running, aborted>>

(* The next client leaves the queue; the local pointer to it is the last one, *)
(* so its destructor starts at the end of the loop body.                     *)
PopRemovable ==
    /\ MainAt("cleanup")
    /\ disconnected # <<>>
    /\ disconnected' = Tail(disconnected)
    /\ total_clients' = total_clients - 1
    /\ mcur' = Head(disconnected)
    /\ obj' = [obj EXCEPT ![Head(disconnected)] = "dying"]
    /\ mpc' = "detach"
    /\ UNCHANGED <<connVars, lock, clients, shutting_down, identified, walkVars,
                   listenerVars, running, aborted>>

(* Broken: the early return without unlock(). *)
EndCleanupLocked ==
    /\ MainAt("cleanup")
    /\ disconnected = <<>>
    /\ mpc' = "walk"
    /\ UNCHANGED <<connVars, registryVars, objectVars, walkVars, listenerVars,
                   mcur, running, aborted>>

EndCleanup ==
    /\ MainAt("cleanup")
    /\ disconnected = <<>>
    /\ lock' = FALSE
    /\ mpc' = "walk"
    /\ UNCHANGED <<connVars, clients, disconnected, total_clients, shutting_down,
                   objectVars, walkVars, listenerVars, mcur, running, aborted>>

(* ~fss_message_cb(): setHandler(nullptr), conn.reset().  The member is null, *)
(* and unless the receive thread has a copy the connection's destructor      *)
(* starts with bye(), a blocking write.                                      *)
DetachClient ==
    /\ MainAt("detach")
    /\ stage[mcur] # "hold"
    /\ RemoveHandler(mcur)
    /\ mpc' = "bye"
    /\ UNCHANGED <<registryVars, objectVars, walkVars, listenerVars, mcur,
                   running, aborted>>

(* With a copy in the thread's hands nothing is shut or joined: the client is *)
(* freed under its thread.                                                   *)
DetachHeldClient ==
    /\ MainAt("detach")
    /\ stage[mcur] = "hold"
    /\ RemoveHandler(mcur)
    /\ obj' = [obj EXCEPT ![mcur] = "freed"]
    /\ mpc' = IF shutting_down THEN "destroy" ELSE "cleanup"
    /\ mcur' = Nobody
    /\ UNCHANGED <<registryVars, identified, walkVars, listenerVars, running,
                   aborted>>

(* The rest of the connection's destructor up to the join. *)
HangUp ==
    /\ MainAt("bye")
    /\ ShutSocket(mcur)
    /\ mpc' = "join"
    /\ UNCHANGED <<registryVars, objectVars, walkVars, listenerVars, mcur,
                   running, aborted>>

(* Broken: the thread is detached, not joined. *)
JoinClientDetached ==
    /\ MainAt("join")
    /\ obj' = [obj EXCEPT ![mcur] = "freed"]
    /\ mpc' = IF shutting_down THEN "destroy" ELSE "cleanup"
    /\ mcur' = Nobody
    /\ UNCHANGED <<connVars, registryVars, identified, walkVars, listenerVars,
                   running, aborted>>

(* recv_thread.join() returns and the object is gone. *)
JoinClient ==
    /\ MainAt("join")
    /\ JoinReceiver(mcur)
    /\ obj' = [obj EXCEPT ![mcur] = "freed"]
    /\ mpc' = IF shutting_down THEN "destroy" ELSE "cleanup"
    /\ mcur' = Nobody
    /\ UNCHANGED <<registryVars, identified, walkVars, listenerVars, running,
                   aborted>>

CleanupStep ==
    \/ StartCleanup \/ PopRemovable \/ EndCleanup
    \/ DetachClient \/ DetachHeldClient \/ HangUp \/ JoinClient

-----------------------------------------------------------------------------
(* SIGINT, and what the main thread destroys on its way out. *)

Interrupt ==
    /\ ~aborted
    /\ Stop
    /\ running
    /\ running' = FALSE
    /\ UNCHANGED <<connVars, registryVars, objectVars, walkVars, listenerVars,
                   mpc, mcur, aborted>>

(* ~fss_listen(): disconnect() of the listening socket, then the join. *)
StopListening ==
    /\ MainAt("stoplisten")
    /\ listenOpen' = FALSE
    /\ mpc' = "joinlisten"
    /\ UNCHANGED <<connVars, registryVars, objectVars, walkVars, lpc, lconn, lmsg,
                   mcur, running, aborted>>

JoinListener ==
    /\ MainAt("joinlisten")
    /\ ListenerAt("stopped")
    /\ mpc' = "shutdown"
    /\ UNCHANGED <<connVars, registryVars, objectVars, walkVars, listenerVars,
                   mcur, running, aborted>>

(* ~server_clients() *)
StartShutdown ==
    /\ MainAt("shutdown")
    /\ shutting_down' = TRUE
    /\ mpc' = "shutlock"
    /\ UNCHANGED <<connVars, lock, clients, disconnected, total_clients,
                   objectVars, walkVars, listenerVars, mcur, running, aborted>>

LockForShutdown ==
    /\ MainAt("shutlock")
    /\ ~lock
    /\ lock' = TRUE
    /\ mpc' = "shutwalk"
    /\ UNCHANGED <<connVars, clients, disconnected, total_clients, shutting_down,
                   objectVars, walkVars, listenerVars, mcur, running, aborted>>

(* c->disconnect() for every client in the list. *)
ShutClient(c) ==
    /\ MainAt("shutwalk")
    /\ c \in clients
    /\ fd[c] = "open"
    /\ ShutSocket(c)
    /\ mcur' = c
    /\ mpc' = "shutjoin"
    /\ UNCHANGED <<registryVars, objectVars, walkVars, listenerVars, running,
                   aborted>>

JoinShutClient ==
    /\ MainAt("shutjoin")
    /\ JoinReceiver(mcur)
    /\ mcur' = Nobody
    /\ mpc' = "shutwalk"
    /\ UNCHANGED <<registryVars, objectVars, walkVars, listenerVars, running,
                   aborted>>

AllShut ==
    /\ MainAt("shutwalk")
    /\ \A c \in clients : fd[c] # "open"
    /\ lock' = FALSE
    /\ mpc' = "destroy"
    /\ UNCHANGED <<connVars, clients, disconnected, total_clients, shutting_down,
                   objectVars, walkVars, listenerVars, mcur, running, aborted>>

(* The members: the queue's clients are destroyed with their connections... *)
DestroyQueued ==
    /\ MainAt("destroy")
    /\ disconnected # <<>>
    /\ disconnected' = Tail(disconnected)
    /\ mcur' = Head(disconnected)
    /\ obj' = [obj EXCEPT ![Head(disconnected)] = "dying"]
    /\ mpc' = "detach"
    /\ UNCHANGED <<connVars, lock, clients, total_clients, shutting_down, identified,
                   walkVars, listenerVars, running, aborted>>

(* ... and those of the list, whose connections are gone already. *)
DestroyListed ==
    /\ MainAt("destroy")
    /\ disconnected = <<>>
    /\ obj' = [c \in Conns |-> IF c \in clients THEN "freed" ELSE obj[c]]
    /\ clients' = {}
    /\ mpc' = "done"
    /\ UNCHANGED <<connVars, lock, disconnected, total_clients, shutting_down,
                   identified, walkVars, listenerVars, mcur, running, aborted>>

ShutdownStep ==
    \/ StopListening \/ JoinListener \/ StartShutdown \/ LockForShutdown
    \/ \E c \in Conns : ShutClient(c)
    \/ JoinShutClient \/ AllShut \/ DestroyQueued \/ DestroyListed

MainStep == CleanupStep \/ WalkNext(Main) \/ MainWalkEnd \/ ShutdownStep

-----------------------------------------------------------------------------
Next ==
    \/ \E c \in Conns :
          \/ \E m \in Msgs : Send(c, m)
          \/ Leave(c) \/ Accept(c) \/ Handshake(c) \/ Receive(c)
    \/ ListenerStep
    \/ \E t \in Handlers : HandlerStep(t) \/ ClientDisconnected(t)
    \/ MainStep
    \/ Interrupt

Spec == Init /\ [][Next]_vars

(* Whom a thread is writing to: bye() or one of the sends. *)
SendsTo(t) ==
    CASE t = Main /\ mpc = "bye" -> mcur
      [] t \in Handlers /\ (stage[t] = "reply" \/ (stage[t] = "hold" /\ Welcome(t)))
             -> Client(t)
      [] OTHER -> cursor[t]

(* Sends have no timeout: one to a peer that is there and does not read       *)
(* blocks, in the main thread or in any thread that runs processMessage().   *)
MayBlock(t) ==
    LET c == SendsTo(t) IN c # Nobody /\ fd[c] = "open" /\ peerOpen[c]

(* Threads that can run do, and one that waits for the lock gets it when it  *)
(* keeps becoming free: the main thread leaves it free for a second in every *)
(* turn of its loop.  Nothing makes a peer connect, answer a handshake, send *)
(* or leave, or SIGINT arrive.                                               *)
CodeRuns ==
    /\ \A c \in Conns : WF_vars(Receive(c))
    /\ SF_vars(ListenerStep)
    /\ \A t \in Handlers :
          WF_vars(~MayBlock(t) /\ HandlerStep(t)) /\ SF_vars(ClientDisconnected(t))
    /\ WF_vars(~MayBlock(Main) /\ MainStep)

(* An assumption on the environment: a peer the server writes to reads, or    *)
(* goes away.  The code does nothing about one that does neither.            *)
PeersRead ==
    /\ \A t \in Handlers : WF_vars(MayBlock(t) /\ HandlerStep(t))
    /\ WF_vars(MayBlock(Main) /\ MainStep)

FairSpec == Spec /\ CodeRuns /\ PeersRead

-----------------------------------------------------------------------------
(* Safety. *)

Queued == {disconnected[i] : i \in DOMAIN disconnected}

(* total_clients counts the list and the queue, and a client is in one of    *)
(* them at most once, however clientConnected(), clientDisconnected() and    *)
(* cleanupRemovableClients() interleave.  (Shutdown does not count.)         *)
Accounting ==
    /\ ~shutting_down => total_clients = Cardinality(clients) + Len(disconnected)
    /\ clients \cap Queued = {}
    /\ \A i, j \in DOMAIN disconnected :
          disconnected[i] = disconnected[j] => i = j

(* A client object is alive exactly as long as someone will destroy it: the  *)
(* listener on its way to clientConnected(), the list or the queue.  A client*)
(* that clientDisconnected() lost would keep its socket and thread forever.  *)
Ownership ==
    \A c \in Conns :
        obj[c] = "alive" <=>
            \/ lconn = c /\ lpc \in {"drain", "handle", "register"}
            \/ c \in clients \cup Queued

(* A destroyed client has no thread left that could call it: its receive      *)
(* thread was joined, and had left processMessage() by then.  The one        *)
(* exception is a thread that holds the last pointer to the connection, in   *)
(* processMessage(), and its next step is the end of the process.            *)
FreedIsQuiet ==
    \A c \in Conns :
        obj[c] = "freed" =>
            \/ rpc[c] = "none" /\ stage[c] = "start"
            \/ rpc[c] = "call" /\ stage[c] = "hold"

(* The main thread's walks use the client under the cursor without a lock.   *)
(* Its node may go, its object may not: only the main thread destroys        *)
(* clients, which is what the disconnected queue is for.                     *)
MainWalkAlive ==
    cursor[Main] # Nobody => obj[cursor[Main]] = "alive"

(***************************************************************************)
(* The strengthening that makes these inductive: who can be where while    *)
(* the listener and the main thread are on their way.                      *)
(***************************************************************************)
ListenerInv ==
    /\ lconn = Nobody <=> lpc \in {"accept", "stopped"}
    /\ lpc = "handshake" => fd[lconn] = "unset"
    /\ lpc = "attach" => obj[lconn] = "none"
    /\ lpc \in {"attach", "drain", "handle", "register"} => fd[lconn] = "open"
    /\ lpc \in {"drain", "handle", "register"} => lconn \notin clients \cup Queued
    /\ lpc # "handle" => stage[Listener] = "start"

MainInv ==
    /\ mpc \in {"detach", "bye", "join", "shutjoin"} => mcur # Nobody
    /\ \A c \in Conns :
          obj[c] = "dying" <=> mpc \in {"detach", "bye", "join"} /\ mcur = c
    /\ mpc \in {"sleep", "cleanup", "walk", "stoplisten", "joinlisten", "shutdown"}
          => ~shutting_down
    /\ mpc \in {"shutlock", "shutwalk", "shutjoin", "destroy", "done"}
          => shutting_down
    /\ shutting_down \/ mpc = "shutdown" => lpc = "stopped"
    /\ cursor[Main] # Nobody => mpc = "walk"

(* A receive thread of a destroyed client would be one of these: shut but not*)
(* joined, or started on a client object that never had a socket.            *)
ThreadInv ==
    \A c \in Conns :
        /\ fd[c] = "unset" => obj[c] = "none" /\ rpc[c] = "none"
        /\ rpc[c] # "call" => stage[c] = "start"
        /\ c \in clients /\ fd[c] = "shut" =>
              rpc[c] = "none" \/ (mpc = "shutjoin" /\ mcur = c)
        /\ c \in clients /\ mpc \in {"destroy", "done"} => fd[c] = "shut"
        /\ c \in clients /\ shutting_down /\ mpc \in {"detach", "bye", "join"}
              => fd[c] = "shut"

(* The inductive invariant: everything above, and a finite list to count. *)
Inv ==
    /\ TypeOK
    /\ IsFiniteSet(clients)
    /\ Accounting
    /\ Ownership
    /\ FreedIsQuiet
    /\ MainWalkAlive
    /\ ListenerInv
    /\ MainInv
    /\ ThreadInv

(* The registry implements the membership protocol, lock, queue and all:     *)
(* clients join, leave and are destroyed once each and in this order.        *)
phase ==
    [c \in Conns |->
        IF c \in clients THEN "listed"
        ELSE IF c \in Queued \/ obj[c] = "dying" THEN "leaving"
        ELSE IF obj[c] = "freed" THEN "gone"
        ELSE "outside"]

Registry == INSTANCE Membership WITH Conns <- Conns, phase <- phase

RegistrySpec == Registry!Spec

(* With clients that only leave by closing, no callback runs on a client that*)
(* is being destroyed: the thread that queued it has stopped reading.        *)
NoCallbackAfterDestroy ==
    \A c \in Conns : obj[c] \in {"dying", "freed"} => rpc[c] # "call"

-----------------------------------------------------------------------------
(* Liveness. *)

(* A listed client whose receive thread hands on the end of the stream is    *)
(* destroyed: processMessage() queues it and the main thread gets to it,     *)
(* though the two take the same lock and one joins the other.                *)
ClosedWhenListed ==
    \A c \in Conns :
        (c \in clients /\ rpc[c] = "call" /\ rmsg[c] = Closed)
            ~> obj[c] = "freed"

(* Every client that was queued is destroyed: the liveness of the membership *)
(* protocol, that is, for clients that leave by closing.                     *)
RegistryLive == Registry!FairSpec

(* The periodic activity goes on as long as the process does: the main thread *)
(* comes round to its walks, and to the end of them, again and again.        *)
MainLoopTurns ==
    /\ []<>(aborted \/ mpc = "walk")
    /\ []<>(aborted \/ mpc = "sleep")

-----------------------------------------------------------------------------
(* What comments in the code say and the code does not keep: see the README. *)

(* server.cpp:310, "Connection has been closed, cleanup": a listed client    *)
(* whose peer is gone is destroyed at some point.                            *)
ClosedIsCleaned ==
    \A c \in Conns : (c \in clients /\ ~peerOpen[c]) ~> obj[c] = "freed"

(* A listed client has a receive thread, so that its leaving can be noticed. *)
ListedIsServed == \A c \in clients : rpc[c] # "none"

(* server.cpp:170, "If we are shutting down, don't worry": the registry's    *)
(* destructor is not held up by clients that disconnect.                     *)
ShutdownFinishes == mpc = "shutlock" ~> mpc = "done"

(* server.cpp:520, "Send RTT messages to all clients": the main thread's walk*)
(* stands on a node of the list.                                             *)
MainWalkOnList == cursor[Main] \in clients \cup {Nobody}

(* server.cpp:414, "Reflect this message to all aircraft clients": what a    *)
(* report is reflected to is a client.                                       *)
RelayTargetAlive ==
    \A t \in Handlers : cursor[t] # Nobody => obj[cursor[t]] = "alive"

===============================================================================
