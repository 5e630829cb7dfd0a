--------------------------- MODULE ConnectionProofs ---------------------------
(***************************************************************************)
(* Facts about the steps of a connection, for the proofs about the modules *)
(* that compose them: every step keeps ConnTypeOK, and what the steps do   *)
(* to the socket and to the receive thread.                                *)
(***************************************************************************)
EXTENDS Connection, TLAPS

(* A new connection is well typed: no socket, no thread (the default         *)
(* constructor of fss_connection).                                           *)
LEMMA ConnInitType == ConnInit => ConnTypeOK
BY DEF ConnInit, ConnTypeOK, RecvPCs, Received

(* What the peer does keeps the types. *)
LEMMA PeerType ==
    ASSUME ConnTypeOK, NEW c \in Conns,
           \/ \E m \in Msgs \cup {Null} : PeerSend(c, m)
           \/ PeerSendPart(c) \/ PeerClose(c) \/ PeerReset(c)
    PROVE  ConnTypeOK'
<1>1. ASSUME NEW m \in Msgs \cup {Null}, PeerSend(c, m)
      PROVE  ConnTypeOK'
  BY <1>1 DEF PeerSend, ConnTypeOK
<1>2. CASE PeerClose(c)
  BY <1>2 DEF PeerClose, ConnTypeOK
<1>3. CASE PeerReset(c)
  BY <1>3 DEF PeerReset, ConnTypeOK
<1>4. CASE PeerSendPart(c)
  BY <1>4 DEF PeerSendPart, ConnTypeOK
<1>5. QED
  BY <1>1, <1>2, <1>3, <1>4

(* Every step of the receive thread in processMessages() keeps the types. *)
LEMMA ReceiveType ==
    ASSUME ConnTypeOK, NEW c \in Conns,
           \/ ReceiveStep(c) \/ ReceivePart(c) \/ ReceiveTorn(c)
           \/ HandlerReturns(c)
    PROVE  ConnTypeOK'
<1>1. CASE ReceiveMessage(c)
  <2>1. Head(wire[c]) \in Msgs \cup {Null} /\ Tail(wire[c]) \in Seq(Msgs \cup {Null})
    BY <1>1 DEF ReceiveMessage, ConnTypeOK
  <2>2. QED
    BY <1>1, <2>1 DEF ReceiveMessage, ConnTypeOK, RecvPCs, Received
<1>2. CASE ReceiveClosed(c)
  BY <1>2 DEF ReceiveClosed, ConnTypeOK, RecvPCs, Received
<1>3. CASE TestHandler(c)
  BY <1>3 DEF TestHandler, ConnTypeOK, RecvPCs
<1>4. CASE PushMessage(c)
  BY <1>4 DEF PushMessage, NextRound, ConnTypeOK, RecvPCs, Received
<1>5. CASE HandlerReturns(c)
  BY <1>5 DEF HandlerReturns, NextRound, ConnTypeOK, RecvPCs, Received
<1>6. CASE ReceivePart(c)
  BY <1>6 DEF ReceivePart, ConnTypeOK, RecvPCs
<1>7. CASE ReceiveTorn(c)
  BY <1>7 DEF ReceiveTorn, ConnTypeOK, RecvPCs, Received
<1>8. QED
  BY <1>1, <1>2, <1>3, <1>4, <1>5, <1>6, <1>7 DEF ReceiveStep

(* The steps of the owner keep the types. *)
LEMMA OwnerType ==
    ASSUME ConnTypeOK, NEW c \in Conns, NEW b \in BOOLEAN,
           \/ OpenSocket(c, b) \/ InstallHandler(c) \/ TakeQueued(c)
           \/ ShutSocket(c) \/ RemoveHandler(c) \/ JoinReceiver(c)
    PROVE  ConnTypeOK'
<1>1. CASE OpenSocket(c, b)
  BY <1>1 DEF OpenSocket, ConnTypeOK, RecvPCs
<1>2. CASE InstallHandler(c)
  BY <1>2 DEF InstallHandler, ConnTypeOK
<1>3. CASE TakeQueued(c)
  <2>1. Tail(messages[c]) \in Seq(Received)
    BY <1>3 DEF TakeQueued, ConnTypeOK
  <2>2. QED
    BY <1>3, <2>1 DEF TakeQueued, ConnTypeOK
<1>4. CASE ShutSocket(c)
  BY <1>4 DEF ShutSocket, ConnTypeOK
<1>5. CASE RemoveHandler(c)
  BY <1>5 DEF RemoveHandler, ConnTypeOK
<1>6. CASE JoinReceiver(c)
  BY <1>6 DEF JoinReceiver, ConnTypeOK, RecvPCs
<1>7. QED
  BY <1>1, <1>2, <1>3, <1>4, <1>5, <1>6

===============================================================================
