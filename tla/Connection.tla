------------------------------ MODULE Connection ------------------------------
(***************************************************************************)
(* One end of a transport connection: the class fss_connection of          *)
(* src/src/transport.cpp with its receive thread.                          *)
(*                                                                         *)
(* The module holds the state of a set of connections and one action per   *)
(* step the receive thread, the peer or the owner of the connection takes  *)
(* on that state.  It has no Next of its own: Handoff composes the actions *)
(* with an application that polls or installs a handler, Server with the   *)
(* listener, the registry and the main loop of the server, ClientPool with *)
(* the reconnecting client.  A step ends where another thread can see or   *)
(* change what the code reads next without a lock; nothing in this class   *)
(* is protected by one except the sending side.                            *)
(*                                                                         *)
(* Bytes are abstracted: wire[c] holds the whole messages the peer has     *)
(* written and this end has not read yet, each as what decode() returns    *)
(* for it, and part[c] says that it has written the beginning of one more, *)
(* at least the length.  Over TLS messages come whole, one record each,    *)
(* and the modules that compose TLS connections leave PeerSendPart,        *)
(* ReceivePart and ReceiveTorn out.                                        *)
(***************************************************************************)
EXTENDS Naturals, Sequences

CONSTANTS
    Conns,   \* the connections, one fss_connection object each
    Msgs,    \* the messages decode() knows
    Null,    \* the null pointer decode() returns for a type it does not know
    Closed   \* fss_message_closed, made up by recvMsg() at the end of a stream

ASSUME MessageAssumption ==
    /\ Null \notin Msgs
    /\ Closed \notin Msgs
    /\ Null # Closed

VARIABLES
    wire,       \* messages written by the peer and not read yet
    part,       \* after them, the beginning of a message
    peerOpen,   \* the peer has not closed its end
    fd,         \* "unset" and "shut" are fd = -1, before and after the socket
    run,        \* the loop flag of processMessages()
    handler,    \* handler # nullptr
    messages,   \* the queue of messages received while there is no handler
    rpc,        \* where the receive thread is
    rmsg        \* the local msg of the receive thread

connVars == <<wire, part, peerOpen, fd, run, handler, messages, rpc, rmsg>>

Received == Msgs \cup {Null, Closed}

(***************************************************************************)
(* Where the receive thread can be:                                        *)
(*   "none"  not started, or joined                                        *)
(*   "recv"  in recvMsg(), waiting for the length of a message             *)
(*   "inside" in recvMsg(), with the beginning of a message                *)
(*   "test"  has a message, about to look at handler                       *)
(*   "push"  found no handler, about to queue the message                  *)
(*   "call"  inside handler->processMessage(msg)                           *)
(*   "exit"  has left processMessages(), not joined yet                    *)
(***************************************************************************)
RecvPCs == {"none", "recv", "inside", "test", "push", "call", "exit"}

(* The types, and where the receive thread can be while its loop flag is set:*)
(* run is false only on the way out of the loop.                             *)
ConnTypeOK ==
    /\ wire \in [Conns -> Seq(Msgs \cup {Null})]
    /\ part \in [Conns -> BOOLEAN]
    /\ peerOpen \in [Conns -> BOOLEAN]
    /\ fd \in [Conns -> {"unset", "open", "shut"}]
    /\ run \in [Conns -> BOOLEAN]
    /\ handler \in [Conns -> BOOLEAN]
    /\ messages \in [Conns -> Seq(Received)]
    /\ rpc \in [Conns -> RecvPCs]
    /\ rmsg \in [Conns -> Received]
    /\ \A c \in Conns : rpc[c] \in {"recv", "inside"} => run[c]
    /\ \A c \in Conns : rpc[c] = "exit" => ~run[c]

ConnInit ==
    /\ wire = [c \in Conns |-> <<>>]
    /\ part = [c \in Conns |-> FALSE]
    /\ peerOpen = [c \in Conns |-> FALSE]
    /\ fd = [c \in Conns |-> "unset"]
    /\ run = [c \in Conns |-> FALSE]
    /\ handler = [c \in Conns |-> FALSE]
    /\ messages = [c \in Conns |-> <<>>]
    /\ rpc = [c \in Conns |-> "none"]
    /\ rmsg = [c \in Conns |-> Null]

-----------------------------------------------------------------------------
(* The peer. *)

(* The peer has written a message, or the rest of one. *)
PeerSend(c, m) ==
    /\ peerOpen[c]
    /\ wire' = [wire EXCEPT ![c] = Append(@, m)]
    /\ part' = [part EXCEPT ![c] = FALSE]
    /\ UNCHANGED <<peerOpen, fd, run, handler, messages, rpc, rmsg>>

(* The peer has written a message but for the end of it: send() takes what    *)
(* fits, and the loop of sendMsg() comes back with the rest.                 *)
PeerSendPart(c) ==
    /\ peerOpen[c]
    /\ ~part[c]
    /\ part' = [part EXCEPT ![c] = TRUE]
    /\ UNCHANGED <<wire, peerOpen, fd, run, handler, messages, rpc, rmsg>>

PeerClose(c) ==
    /\ peerOpen[c]
    /\ peerOpen' = [peerOpen EXCEPT ![c] = FALSE]
    /\ UNCHANGED <<wire, part, fd, run, handler, messages, rpc, rmsg>>

(* The peer is gone without a shutdown: what was not read yet is lost, and    *)
(* reading fails.                                                            *)
PeerReset(c) ==
    /\ peerOpen[c]
    /\ peerOpen' = [peerOpen EXCEPT ![c] = FALSE]
    /\ wire' = [wire EXCEPT ![c] = <<>>]
    /\ part' = [part EXCEPT ![c] = FALSE]
    /\ UNCHANGED <<fd, run, handler, messages, rpc, rmsg>>

-----------------------------------------------------------------------------
(* The receive thread: processMessages() and recvMsg(). *)

(* A connected socket gets a receive thread, whose first step sets run.  A   *)
(* TLS connection whose handshake failed keeps its socket and gets none.     *)
OpenSocket(c, started) ==
    /\ fd[c] = "unset"
    /\ fd' = [fd EXCEPT ![c] = "open"]
    /\ peerOpen' = [peerOpen EXCEPT ![c] = TRUE]
    /\ run' = [run EXCEPT ![c] = started]
    /\ rpc' = [rpc EXCEPT ![c] = IF started THEN "recv" ELSE "none"]
    /\ UNCHANGED <<wire, part, handler, messages, rmsg>>

(* Broken: close() without shutdown() does not wake a blocked recv(). *)
EndOfStreamNoShutdown(c) == wire[c] = <<>> /\ ~part[c] /\ ~peerOpen[c]

(* There is nothing to read, nor will there be. *)
EndOfStream(c) == fd[c] = "shut" \/ (wire[c] = <<>> /\ ~part[c] /\ ~peerOpen[c])

(* The length was read, and not all of the rest was there. *)
ReceivePart(c) ==
    /\ rpc[c] = "recv"
    /\ fd[c] = "open"
    /\ wire[c] # <<>> \/ part[c]
    /\ rpc' = [rpc EXCEPT ![c] = "inside"]
    /\ UNCHANGED <<wire, part, peerOpen, fd, run, handler, messages, rmsg>>

ReceiveMessage(c) ==
    /\ rpc[c] \in {"recv", "inside"}
    /\ fd[c] = "open"
    /\ wire[c] # <<>>
    /\ rmsg' = [rmsg EXCEPT ![c] = Head(wire[c])]
    /\ wire' = [wire EXCEPT ![c] = Tail(@)]
    /\ rpc' = [rpc EXCEPT ![c] = "test"]
    /\ UNCHANGED <<part, peerOpen, fd, run, handler, messages>>

(* Reading fails in the middle of a message, after a reset or when this end   *)
(* has disconnected: recvMsg() returns nullptr, and the loop goes on.  If    *)
(* the peer has closed instead, recv() returns 0, which the inner loop takes *)
(* for progress: it spins, and there is no step, until this end disconnects. *)
ReceiveTorn(c) ==
    /\ rpc[c] = "inside"
    /\ EndOfStream(c)
    /\ rmsg' = [rmsg EXCEPT ![c] = Null]
    /\ rpc' = [rpc EXCEPT ![c] = "test"]
    /\ UNCHANGED <<wire, part, peerOpen, fd, run, handler, messages>>

(* Broken: the loop ends without passing the closed message on. *)
ReceiveClosedSilently(c) ==
    /\ rpc[c] = "recv"
    /\ EndOfStream(c)
    /\ run' = [run EXCEPT ![c] = FALSE]
    /\ rpc' = [rpc EXCEPT ![c] = "exit"]
    /\ UNCHANGED <<wire, part, peerOpen, fd, handler, messages, rmsg>>

(* Broken: run is not cleared. *)
ReceiveClosedKeepsRun(c) ==
    /\ rpc[c] = "recv"
    /\ EndOfStream(c)
    /\ rmsg' = [rmsg EXCEPT ![c] = Closed]
    /\ rpc' = [rpc EXCEPT ![c] = "test"]
    /\ UNCHANGED <<wire, part, peerOpen, fd, run, handler, messages>>

ReceiveClosed(c) ==
    /\ rpc[c] = "recv"
    /\ EndOfStream(c)
    /\ rmsg' = [rmsg EXCEPT ![c] = Closed]
    /\ run' = [run EXCEPT ![c] = FALSE]
    /\ rpc' = [rpc EXCEPT ![c] = "test"]
    /\ UNCHANGED <<wire, part, peerOpen, fd, handler, messages>>

(* Broken: queues behind what is queued already, handler or not. *)
TestHandlerAndQueue(c) ==
    /\ rpc[c] = "test"
    /\ rpc' = [rpc EXCEPT ![c] =
                 IF handler[c] /\ messages[c] = <<>> THEN "call" ELSE "push"]
    /\ UNCHANGED <<wire, part, peerOpen, fd, run, handler, messages, rmsg>>

TestHandler(c) ==
    /\ rpc[c] = "test"
    /\ rpc' = [rpc EXCEPT ![c] = IF handler[c] THEN "call" ELSE "push"]
    /\ UNCHANGED <<wire, part, peerOpen, fd, run, handler, messages, rmsg>>

(* A broken loop: it keeps reading after the end of the stream. *)
NextRoundAlways(c) ==
    /\ rpc' = [rpc EXCEPT ![c] = "recv"]
    /\ rmsg' = [rmsg EXCEPT ![c] = Null]

(* The end of the loop body: the message is dropped, while (this->run) is    *)
(* tested.                                                                   *)
NextRound(c) ==
    /\ rpc' = [rpc EXCEPT ![c] = IF run[c] THEN "recv" ELSE "exit"]
    /\ rmsg' = [rmsg EXCEPT ![c] = Null]

PushMessage(c) ==
    /\ rpc[c] = "push"
    /\ messages' = [messages EXCEPT ![c] = Append(@, rmsg[c])]
    /\ NextRound(c)
    /\ UNCHANGED <<wire, part, peerOpen, fd, run, handler>>

(* handler->processMessage(msg) returns; what it did is up to the handler. *)
HandlerReturns(c) ==
    /\ rpc[c] = "call"
    /\ NextRound(c)
    /\ UNCHANGED <<wire, part, peerOpen, fd, run, handler, messages>>

ReceiveStep(c) ==
    ReceiveMessage(c) \/ ReceiveClosed(c) \/ TestHandler(c) \/ PushMessage(c)

-----------------------------------------------------------------------------
(* The owner: setHandler(), disconnect(). *)

(* The assignment at the start of setHandler(cb); the drain follows. *)
InstallHandler(c) ==
    /\ handler' = [handler EXCEPT ![c] = TRUE]
    /\ UNCHANGED <<wire, part, peerOpen, fd, run, messages, rpc, rmsg>>

(* front() and pop(), in the drain of setHandler() and in getMsg(). *)
TakeQueued(c) ==
    /\ messages[c] # <<>>
    /\ messages' = [messages EXCEPT ![c] = Tail(@)]
    /\ UNCHANGED <<wire, part, peerOpen, fd, run, handler, rpc, rmsg>>

(* disconnect() up to the join: fd = -1, shutdown() and close(). *)
ShutSocket(c) ==
    /\ fd' = [fd EXCEPT ![c] = IF @ = "open" THEN "shut" ELSE @]
    /\ UNCHANGED <<wire, part, peerOpen, run, handler, messages, rpc, rmsg>>

(* setHandler(nullptr), in the destructor of the handler. *)
RemoveHandler(c) ==
    /\ handler' = [handler EXCEPT ![c] = FALSE]
    /\ UNCHANGED <<wire, part, peerOpen, fd, run, messages, rpc, rmsg>>

(* recv_thread.join(), skipped when the thread is not joinable. *)
JoinReceiver(c) ==
    /\ rpc[c] \in {"none", "exit"}
    /\ rpc' = [rpc EXCEPT ![c] = "none"]
    /\ UNCHANGED <<wire, part, peerOpen, fd, run, handler, messages, rmsg>>

===============================================================================
