------------------------------- MODULE Handoff --------------------------------
(***************************************************************************)
(* A connection and the application that owns it.  Messages reach the      *)
(* application in two ways: it polls getMsg(), or it installs a handler    *)
(* with setHandler() and the receive thread calls it.  setHandler() itself *)
(* hands over, on the caller's thread, what was queued before, while the   *)
(* receive thread keeps running; no lock orders the two.                   *)
(*                                                                         *)
(* The peer's messages are numbers, sent in the order 1, 2, 3, ... with    *)
(* undecodable messages (Null) anywhere between them.                      *)
(***************************************************************************)
EXTENDS Connection, FiniteSets, SequencesExt

CONSTANTS
    MaxSent,       \* bound: messages the peer sends on a connection
    Undecodable,   \* may the peer send messages decode() does not know
    Handles        \* may the application install a handler

ASSUME HandoffAssumption ==
    /\ MaxSent \in Nat
    /\ Msgs = 1..MaxSent
    /\ Undecodable \in BOOLEAN
    /\ Handles \in BOOLEAN

VARIABLES
    owner,       \* where the application's thread is
    omsg,        \* the local msg of setHandler()'s loop
    sent,        \* history: what the peer wrote
    delivered,   \* history: what the application was given
    reset        \* history: the stream was lost with something unread

ownVars == <<owner, omsg, sent, delivered, reset>>
vars == <<connVars, ownVars>>

(***************************************************************************)
(* The application's thread:                                               *)
(*   "poll"      no handler yet; getMsg() whenever it likes                *)
(*   "drain"     in setHandler(), about to test messages.empty()           *)
(*   "handle"    in setHandler(), inside cb->processMessage(omsg)          *)
(*   "attached"  setHandler() has returned                                 *)
(*   "detached"  in ~fss_message_cb(), handler cleared, about to drop conn *)
(*   "join"      in disconnect(), waiting for the receive thread           *)
(*   "gone"      disconnect() has returned                                 *)
(***************************************************************************)
OwnerPCs == {"poll", "drain", "handle", "attached", "detached", "join", "gone"}

TypeOK ==
    /\ ConnTypeOK
    /\ owner \in [Conns -> OwnerPCs]
    /\ omsg \in [Conns -> Received]
    /\ sent \in [Conns -> Seq(Msgs \cup {Null})]
    /\ delivered \in [Conns -> Seq(Received)]
    /\ reset \in [Conns -> BOOLEAN]

Init ==
    /\ ConnInit
    /\ owner = [c \in Conns |-> "poll"]
    /\ omsg = [c \in Conns |-> Null]
    /\ sent = [c \in Conns |-> <<>>]
    /\ delivered = [c \in Conns |-> <<>>]
    /\ reset = [c \in Conns |-> FALSE]

-----------------------------------------------------------------------------
(* The peer. *)

Open(c) == OpenSocket(c, TRUE) /\ UNCHANGED ownVars

NextNumber(c) == Cardinality({i \in DOMAIN sent[c] : sent[c][i] # Null}) + 1

Send(c) ==
    /\ Len(sent[c]) < MaxSent
    /\ \E m \in {NextNumber(c)} \cup (IF Undecodable THEN {Null} ELSE {}) :
          /\ PeerSend(c, m)
          /\ sent' = [sent EXCEPT ![c] = Append(@, m)]
    /\ UNCHANGED <<owner, omsg, delivered, reset>>

SendPart(c) ==
    /\ Len(sent[c]) < MaxSent
    /\ PeerSendPart(c)
    /\ UNCHANGED ownVars

Close(c) == PeerClose(c) /\ UNCHANGED ownVars

Reset(c) ==
    /\ PeerReset(c)
    /\ reset' = [reset EXCEPT ![c] = wire[c] # <<>> \/ part[c]]
    /\ UNCHANGED <<owner, omsg, sent, delivered>>

-----------------------------------------------------------------------------
(* The receive thread.  The handler has seen a message when it returns. *)

Receive(c) ==
    /\ ReceiveStep(c) \/ ReceivePart(c) \/ ReceiveTorn(c)
    /\ UNCHANGED ownVars

Deliver(c, m) == delivered' = [delivered EXCEPT ![c] = Append(@, m)]

Handle(c) ==
    /\ HandlerReturns(c)
    /\ Deliver(c, rmsg[c])
    /\ UNCHANGED <<owner, omsg, sent, reset>>

-----------------------------------------------------------------------------
(* The application. *)

(* Broken: the message stays in the queue. *)
GetMsgNoPop(c) ==
    /\ owner[c] = "poll"
    /\ messages[c] # <<>>
    /\ Head(messages[c]) # Null
    /\ Deliver(c, Head(messages[c]))
    /\ UNCHANGED <<connVars, owner, omsg, sent, reset>>

(* getMsg() with a message at the front of the queue.  With none, or with    *)
(* the null pointer of an undecodable or torn message there, it returns      *)
(* nullptr and changes nothing.                                              *)
GetMsg(c) ==
    /\ owner[c] = "poll"
    /\ ~handler[c]
    /\ messages[c] # <<>>
    /\ Head(messages[c]) # Null
    /\ TakeQueued(c)
    /\ Deliver(c, Head(messages[c]))
    /\ UNCHANGED <<owner, omsg, sent, reset>>

SetHandler(c) ==
    /\ Handles
    /\ owner[c] = "poll"
    /\ fd[c] = "open"
    /\ InstallHandler(c)
    /\ owner' = [owner EXCEPT ![c] = "drain"]
    /\ UNCHANGED <<omsg, sent, delivered, reset>>

(* Broken: front() without pop(). *)
DrainTakeNoPop(c) ==
    /\ owner[c] = "drain"
    /\ messages[c] # <<>>
    /\ omsg' = [omsg EXCEPT ![c] = Head(messages[c])]
    /\ owner' = [owner EXCEPT ![c] = "handle"]
    /\ UNCHANGED <<connVars, sent, delivered, reset>>

DrainTake(c) ==
    /\ owner[c] = "drain"
    /\ TakeQueued(c)
    /\ omsg' = [omsg EXCEPT ![c] = Head(messages[c])]
    /\ owner' = [owner EXCEPT ![c] = "handle"]
    /\ UNCHANGED <<sent, delivered, reset>>

DrainHandle(c) ==
    /\ owner[c] = "handle"
    /\ Deliver(c, omsg[c])
    /\ omsg' = [omsg EXCEPT ![c] = Null]
    /\ owner' = [owner EXCEPT ![c] = "drain"]
    /\ UNCHANGED <<connVars, sent, reset>>

DrainDone(c) ==
    /\ owner[c] = "drain"
    /\ messages[c] = <<>>
    /\ owner' = [owner EXCEPT ![c] = "attached"]
    /\ UNCHANGED <<connVars, omsg, sent, delivered, reset>>

(* disconnect() of the connection, called or by its destructor.  The handler  *)
(* stays as it is.                                                           *)
Disconnect(c) ==
    /\ owner[c] \in {"poll", "attached", "detached"}
    /\ fd[c] = "open"
    /\ ShutSocket(c)
    /\ owner' = [owner EXCEPT ![c] = "join"]
    /\ UNCHANGED <<omsg, sent, delivered, reset>>

(* The handler is destroyed; what the receive thread reads from here on is    *)
(* queued.  The application holds the last reference to the connection and   *)
(* Disconnect follows; a handler that keeps a copy in processMessage() is in *)
(* Server.                                                                   *)
Destroy(c) ==
    /\ owner[c] = "attached"
    /\ fd[c] = "open"
    /\ RemoveHandler(c)
    /\ owner' = [owner EXCEPT ![c] = "detached"]
    /\ UNCHANGED <<omsg, sent, delivered, reset>>

Join(c) ==
    /\ owner[c] = "join"
    /\ JoinReceiver(c)
    /\ owner' = [owner EXCEPT ![c] = "gone"]
    /\ UNCHANGED <<omsg, sent, delivered, reset>>

-----------------------------------------------------------------------------
Next ==
    \E c \in Conns :
        \/ Open(c) \/ Send(c) \/ SendPart(c) \/ Close(c) \/ Reset(c)
        \/ Receive(c) \/ Handle(c)
        \/ GetMsg(c) \/ SetHandler(c) \/ DrainTake(c) \/ DrainHandle(c)
        \/ DrainDone(c) \/ Disconnect(c) \/ Destroy(c) \/ Join(c)

Spec == Init /\ [][Next]_vars

(* Threads that can run do, handlers return, and the application polls.      *)
(* Nothing makes the peer send or close, or the application disconnect.      *)
Fairness ==
    \A c \in Conns :
        /\ WF_vars(Receive(c))
        /\ WF_vars(Handle(c))
        /\ WF_vars(GetMsg(c))
        /\ WF_vars(DrainTake(c) \/ DrainHandle(c) \/ DrainDone(c))
        /\ WF_vars(Join(c))

FairSpec == Spec /\ Fairness

-----------------------------------------------------------------------------
(* Properties. *)

RecvHand(c) == IF rpc[c] \in {"test", "push", "call"} THEN <<rmsg[c]>> ELSE <<>>
OwnerHand(c) == IF owner[c] = "handle" THEN <<omsg[c]>> ELSE <<>>

(* What has been read from the socket, oldest first as a poller sees it. *)
Read(c) == delivered[c] \o OwnerHand(c) \o messages[c] \o RecvHand(c)

(* The end of the stream has been read; nothing is read after it. *)
Ended(c) == fd[c] # "unset" /\ ~run[c]

(* What the application has not been given yet. *)
Pending(c) ==
    OwnerHand(c) \o messages[c] \o RecvHand(c)
        \o (IF Ended(c) \/ fd[c] = "shut" THEN <<>> ELSE wire[c])

(* A poller gets the peer's messages in the order they were written, with    *)
(* none missing or repeated, and the end of the stream after all of them     *)
(* (processMessages() pushing, getMsg() popping, without a lock).  Only a    *)
(* stream that was reset ends earlier, with a null pointer between the two   *)
(* if it was torn inside a message.                                          *)
PollFIFO ==
    \A c \in Conns :
        owner[c] = "poll" =>
            \E n \in 0..Len(sent[c]), torn \in {<<>>, <<Null>>} :
                /\ ~reset[c] => n = Len(sent[c]) /\ torn = <<>>
                /\ delivered[c] \o Pending(c)
                      = SubSeq(sent[c], 1, n) \o torn
                            \o (IF Ended(c) THEN <<Closed>> ELSE <<>>)

(* The queue, the two threads and the socket together are one mailbox, also   *)
(* while setHandler() drains the queue and the receive thread goes on: every *)
(* step of a thread leaves it alone or is one step of it.                    *)
Box == INSTANCE Mailbox WITH
    Messages <- Msgs \cup {Null},
    pending <- [c \in Conns |-> Pending(c)],
    got <- delivered,
    polling <- [c \in Conns |-> owner[c] = "poll"],
    broken <- [c \in Conns |-> reset[c] \/ fd[c] = "shut"],
    ended <- [c \in Conns |-> Ended(c)]

ImplementsMailbox == Box!Spec

(* All that has left the peer and was not lost. *)
Line(c) == Read(c) \o wire[c]

(* None of T comes twice in a sequence. *)
Apart(s, T) == \A i, j \in DOMAIN s : s[i] = s[j] /\ s[i] \in T => i = j

(* Wherever setHandler() and the receive thread interleave, a message is     *)
(* neither handed over twice nor dropped: it is in one place at a time.      *)
ExactlyOnce ==
    \A c \in Conns :
        /\ Apart(Line(c), Msgs)
        /\ Range(Line(c)) \cap Msgs \subseteq Range(sent[c])
        /\ ~reset[c] => Range(sent[c]) \cap Msgs \subseteq Range(Line(c))

(* The end of the stream is reported once and the receive thread stops there,*)
(* whichever of poll, drain or handler the report goes through.              *)
ClosedOnce ==
    \A c \in Conns :
        /\ Apart(Read(c), {Closed})
        /\ Closed \in Range(Read(c)) => ~run[c]

(* The join in disconnect() returns whatever the receive thread is doing.    *)
DisconnectFinishes ==
    \A c \in Conns : owner[c] = "join" ~> owner[c] = "gone"

(* The stream ended inside a message, which recvMsg() has begun to read or    *)
(* will.                                                                     *)
CutOff(c) ==
    /\ ~peerOpen[c]
    /\ part[c] \/ (rpc[c] = "inside" /\ wire[c] = <<>>)

(* An application that polls learns that the peer closed.  Without the two    *)
(* conditions on the stream the code does not keep this: the null pointer of *)
(* an undecodable or torn message stays at the front of the queue, and after *)
(* an end inside a message recvMsg() never returns.                          *)
PollSeesClosed ==
    \A c \in Conns :
        (/\ owner[c] = "poll" /\ fd[c] = "open" /\ ~peerOpen[c]
         /\ Null \notin Range(Pending(c)) /\ ~CutOff(c))
            ~> (Closed \in Range(delivered[c]) \/ owner[c] # "poll")

(* Once setHandler() has returned, what arrives goes to the handler.         *)
ArrivalsAreHandled ==
    \A c \in Conns : \A m \in Msgs :
        (owner[c] = "attached" /\ m \in Range(wire[c]))
            ~> (m \in Range(delivered[c]) \/ owner[c] # "attached" \/ reset[c])

(* A handler is given every message sent to it, also the ones that arrive    *)
(* while setHandler() runs.  The code does not keep this: see the README.    *)
HandlerGetsAll ==
    \A c \in Conns : \A m \in Msgs :
        (owner[c] = "attached" /\ m \in Range(sent[c]))
            ~> (m \in Range(delivered[c]) \/ owner[c] # "attached" \/ reset[c])

===============================================================================
