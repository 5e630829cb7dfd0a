---------------------------- MODULE HandoffProofs -----------------------------
(***************************************************************************)
(* Proofs about Handoff, for every set of connections and every number of  *)
(* messages: the types, that a poller gets the peer's messages in order,   *)
(* that the connection implements the mailbox, and that a handler gets a   *)
(* message and the end of the stream once.                                 *)
(*                                                                         *)
(* What the application has not been given is spread over four places: its *)
(* own hand, the queue, the hand of the receive thread and the socket.     *)
(* Pending puts them end to end; the first lemmas say what moving a        *)
(* message from one place to the next does to the whole.  The last part    *)
(* adds what has been given in front: Line, in which no message is twice.  *)
(***************************************************************************)
EXTENDS Handoff, ConnectionProofs, SequenceTheorems, FiniteSetTheorems

(* A message written at the end of the last part is at the end. *)
LEMMA PendingWrite ==
    ASSUME NEW S, NEW p \in Seq(S), NEW w \in Seq(S), NEW m \in S
    PROVE  p \o Append(w, m) = Append(p \o w, m)
<1>1. <<m>> \in Seq(S)
  OBVIOUS
<1>2. Append(w, m) = w \o <<m>>
  BY AppendIsConcat
<1>3. p \o w \in Seq(S)
  BY ConcatProperties
<1>4. Append(p \o w, m) = (p \o w) \o <<m>>
  BY <1>3, AppendIsConcat
<1>5. (p \o w) \o <<m>> = p \o (w \o <<m>>)
  BY <1>1, ConcatAssociative
<1>6. QED
  BY <1>2, <1>4, <1>5

(* The head of a part may be put at the end of the part before. *)
LEMMA PendingMove ==
    ASSUME NEW S, NEW p \in Seq(S), NEW w \in Seq(S), w # <<>>
    PROVE  p \o <<Head(w)>> \o Tail(w) = p \o w
<1>1. Head(w) \in S /\ Tail(w) \in Seq(S) /\ <<Head(w)>> \in Seq(S)
  BY HeadTailProperties
<1>2. <<Head(w)>> \o Tail(w) = w
  <2> DEFINE v == <<Head(w)>> \o Tail(w)
  <2>1. /\ v \in Seq(S) /\ Len(v) = 1 + Len(Tail(w))
        /\ \A i \in 1 .. 1 + Len(Tail(w)) :
              v[i] = IF i <= 1 THEN Head(w) ELSE Tail(w)[i - 1]
    BY <1>1, ConcatProperties
  <2>2. /\ Len(w) \in Nat /\ Len(Tail(w)) = Len(w) - 1
        /\ \A i \in 1 .. Len(Tail(w)) : Tail(w)[i] = w[i + 1]
        /\ Head(w) = w[1]
    BY HeadTailProperties
  <2>3. \A i \in 1 .. Len(v) : v[i] = w[i]
    BY <2>1, <2>2
  <2>4. Len(v) = Len(w)
    BY <2>1, <2>2
  <2> HIDE DEF v
  <2>5. v = w
    BY <2>1, <2>3, <2>4, SeqEqual
  <2>6. QED
    BY <2>5 DEF v
<1>3. QED
  BY <1>1, <1>2, ConcatAssociative

(* The first part of two is what remains when the second is cut off. *)
LEMMA PendingCut ==
    ASSUME NEW S, NEW p \in Seq(S), NEW w \in Seq(S)
    PROVE  /\ SubSeq(p \o w, 1, Len(p)) = p
           /\ Len(p) \in 0..Len(p \o w)
<1>1. /\ p \o w \in Seq(S) /\ Len(p \o w) = Len(p) + Len(w)
      /\ \A i \in 1 .. Len(p) + Len(w) :
            (p \o w)[i] = IF i <= Len(p) THEN p[i] ELSE w[i - Len(p)]
  BY ConcatProperties
<1>2. Len(p) \in Nat /\ Len(w) \in Nat
  OBVIOUS
<1>3. \A i \in 1 .. Len(p) : (p \o w)[i] \in S /\ (p \o w)[i] = p[i]
  BY <1>1, <1>2
<1> DEFINE v == SubSeq(p \o w, 1, Len(p))
<1>4. /\ v \in Seq(S)
      /\ Len(v) = IF 1 <= Len(p) THEN Len(p) - 1 + 1 ELSE 0
      /\ \A i \in 1 .. Len(p) - 1 + 1 : v[i] = (p \o w)[1 + i - 1]
  BY <1>2, <1>3, SubSeqProperties
<1>5. Len(v) = Len(p) /\ \A i \in 1 .. Len(v) : v[i] = p[i]
  BY <1>2, <1>3, <1>4
<1> HIDE DEF v
<1>6. v = p
  BY <1>4, <1>5, SeqEqual
<1>7. QED
  BY <1>1, <1>2, <1>6 DEF v

(* A message taken from the middle leaves what was before and after it. *)
LEMMA PendingParted ==
    ASSUME NEW S, NEW p \in Seq(S), NEW r \in Seq(S), NEW m \in S,
           NEW v, NEW k, v = p \o <<m>> \o r, k = Len(p) + 1
    PROVE  /\ SubSeq(v, 1, k - 1) = p /\ SubSeq(v, k + 1, Len(v)) = r
           /\ v[k] = m /\ k \in 1..Len(v)
<1>1. <<m>> \in Seq(S) /\ Len(<<m>>) = 1 /\ Len(p) \in Nat /\ Len(r) \in Nat
  OBVIOUS
<1>2. PICK pm : pm = p \o <<m>>
  OBVIOUS
<1>3. pm \in Seq(S) /\ Len(pm) = k /\ pm[k] = m
  BY <1>1, <1>2, ConcatProperties
<1>4. /\ v \in Seq(S) /\ Len(v) = k + Len(r) /\ k \in Nat
      /\ \A i \in 1 .. k + Len(r) : v[i] = IF i <= k THEN pm[i] ELSE r[i - k]
  BY <1>1, <1>2, <1>3, ConcatProperties
<1>5. v[k] = m /\ k \in 1..Len(v)
  BY <1>1, <1>3, <1>4
<1>6. v = p \o (<<m>> \o r) /\ <<m>> \o r \in Seq(S)
  BY <1>1, ConcatAssociative, ConcatProperties
<1>7. SubSeq(v, 1, k - 1) = p
  <2>1. SubSeq(v, 1, Len(p)) = p
    BY <1>6, PendingCut
  <2>2. k - 1 = Len(p)
    BY <1>1
  <2>3. QED
    BY <2>1, <2>2
<1>8. SubSeq(v, k + 1, Len(v)) = r
  <2>1. PICK u : u = SubSeq(v, k + 1, Len(v))
    OBVIOUS
  <2>2. \A i \in k + 1 .. Len(v) : v[i] \in S
    BY <1>1, <1>4
  <2>3. k + 1 \in Int /\ Len(v) \in Int
    BY <1>1, <1>4
  <2>4. /\ u \in Seq(S)
        /\ Len(u) = IF k + 1 <= Len(v) THEN Len(v) - (k + 1) + 1 ELSE 0
        /\ \A i \in 1 .. Len(v) - (k + 1) + 1 : u[i] = v[k + 1 + i - 1]
    BY <2>1, <2>2, <2>3, SubSeqProperties
  <2>5. Len(u) = Len(r)
    BY <1>1, <1>4, <2>4
  <2>6. ASSUME NEW i \in 1 .. Len(r)
        PROVE  u[i] = r[i]
    <3>1. i \in 1 .. Len(v) - (k + 1) + 1
      BY <1>1, <1>4
    <3>2. u[i] = v[k + 1 + i - 1]
      BY <2>4, <3>1
    <3>3. PICK j : j = k + 1 + i - 1
      OBVIOUS
    <3>4. j \in 1 .. k + Len(r) /\ ~(j <= k) /\ j - k = i
      BY <1>1, <1>4, <3>3
    <3>5. v[j] = r[i]
      BY <1>4, <3>4
    <3>6. QED
      BY <3>2, <3>3, <3>5
  <2>7. QED
    BY <2>1, <2>4, <2>5, <2>6, SeqEqual
<1>9. QED
  BY <1>5, <1>7, <1>8

(* ... and RemoveAt() of it joins the two. *)
LEMMA PendingRemoved ==
    ASSUME NEW v, NEW k \in Nat
    PROVE  RemoveAt(v, k) = SubSeq(v, 1, k - 1) \o SubSeq(v, k + 1, Len(v))
BY DEF RemoveAt

(* The head of what is pending is taken, the rest stays. *)
LEMMA PendingHead ==
    ASSUME NEW S, NEW m \in S, NEW r \in Seq(S), NEW v, v = <<m>> \o r
    PROVE  v # <<>> /\ Head(v) = m /\ Tail(v) = r
<1>1. <<m>> \in Seq(S) /\ Len(<<m>>) = 1 /\ Len(r) \in Nat
  OBVIOUS
<1>2. /\ v \in Seq(S) /\ Len(v) = 1 + Len(r)
      /\ \A i \in 1 .. 1 + Len(r) : v[i] = IF i <= 1 THEN m ELSE r[i - 1]
  BY <1>1, ConcatProperties
<1>3. v # <<>> /\ Head(v) = m
  BY <1>1, <1>2
<1>4. PICK t : t = Tail(v)
  OBVIOUS
<1>5. /\ t \in Seq(S) /\ Len(t) = Len(v) - 1
      /\ \A i \in 1 .. Len(t) : t[i] = v[i + 1]
  BY <1>2, <1>3, <1>4, HeadTailProperties
<1>6. Len(t) = Len(r) /\ \A i \in 1 .. Len(t) : t[i] = r[i]
  BY <1>1, <1>2, <1>5
<1>7. t = r
  BY <1>5, <1>6, SeqEqual
<1>8. QED
  BY <1>3, <1>4, <1>7

-----------------------------------------------------------------------------
(* Types. *)

(* The steps of one connection. *)
PeerStep(c) == Open(c) \/ Send(c) \/ SendPart(c) \/ Close(c) \/ Reset(c)
OwnerStep(c) ==
    \/ GetMsg(c) \/ SetHandler(c) \/ DrainTake(c) \/ DrainHandle(c)
    \/ DrainDone(c) \/ Disconnect(c) \/ Destroy(c) \/ Join(c)
Step(c) == PeerStep(c) \/ Receive(c) \/ Handle(c) \/ OwnerStep(c)

(* Next, taken apart. *)
LEMMA NextCases == Next => \E c \in Conns : Step(c)
BY DEF Next, Step, PeerStep, OwnerStep

(* The constructor of fss_connection and an application that polls. *)
LEMMA InitType == Init => TypeOK
BY ConnInitType DEF Init, TypeOK, OwnerPCs, Received

(* The next number is one of the messages, as long as some are left. *)
LEMMA NextNumberType ==
    ASSUME TypeOK, NEW c \in Conns, Len(sent[c]) < MaxSent
    PROVE  NextNumber(c) \in Msgs
<1> DEFINE D == 1..Len(sent[c])
           N == {i \in DOMAIN sent[c] : sent[c][i] # Null}
<1>1. sent[c] \in Seq(Msgs \cup {Null})
  BY DEF TypeOK
<1>2. Len(sent[c]) \in Nat /\ DOMAIN sent[c] = D
  BY <1>1
<1>3. IsFiniteSet(D) /\ Cardinality(D) = Len(sent[c])
  <2>1. /\ IsFiniteSet(1..Len(sent[c]))
        /\ Cardinality(1..Len(sent[c]))
              = IF 1 > Len(sent[c]) THEN 0 ELSE Len(sent[c]) - 1 + 1
    BY <1>2, FS_Interval
  <2>2. QED
    BY <1>2, <2>1
<1>4. N \subseteq D
  BY <1>2
<1>5. Cardinality(N) \in Nat /\ Cardinality(N) <= Len(sent[c])
  <2>1. IsFiniteSet(N) /\ Cardinality(N) <= Cardinality(D)
    BY <1>3, <1>4, FS_Subset
  <2>2. QED
    BY <1>3, <2>1, FS_CardinalityType
<1>6. NextNumber(c) = Cardinality(N) + 1
  BY DEF NextNumber
<1> HIDE DEF N, D
<1>7. QED
  BY <1>2, <1>5, <1>6, HandoffAssumption

(* The peer's steps keep the types. *)
LEMMA PeerTypes ==
    ASSUME TypeOK, NEW c \in Conns, PeerStep(c)
    PROVE  TypeOK'
<1>1. CASE Open(c)
  BY <1>1, OwnerType DEF Open, TypeOK, ownVars
<1>2. CASE Send(c)
  <2>1. PICK m \in {NextNumber(c)} \cup (IF Undecodable THEN {Null} ELSE {}) :
          PeerSend(c, m) /\ sent' = [sent EXCEPT ![c] = Append(@, m)]
    BY <1>2 DEF Send
  <2>2. m \in Msgs \cup {Null}
    BY <1>2, NextNumberType DEF Send
  <2>3. ConnTypeOK'
    BY <2>1, <2>2, PeerType DEF TypeOK
  <2>4. QED
    BY <1>2, <2>1, <2>2, <2>3 DEF Send, TypeOK
<1>3. CASE Close(c) \/ SendPart(c)
  BY <1>3, PeerType DEF Close, SendPart, TypeOK, ownVars
<1>4. CASE Reset(c)
  <2>1. ConnTypeOK'
    BY <1>4, PeerType DEF Reset, TypeOK
  <2>2. QED
    BY <1>4, <2>1 DEF Reset, TypeOK
<1>5. QED
  BY <1>1, <1>2, <1>3, <1>4 DEF PeerStep

(* The receive thread's steps keep them. *)
LEMMA ReceiverTypes ==
    ASSUME TypeOK, NEW c \in Conns, Receive(c) \/ Handle(c)
    PROVE  TypeOK'
<1>1. CASE Receive(c)
  BY <1>1, ReceiveType DEF Receive, TypeOK, ownVars
<1>2. CASE Handle(c)
  <2>1. ConnTypeOK'
    BY <1>2, ReceiveType DEF Handle, TypeOK
  <2>2. rmsg[c] \in Received
    BY DEF TypeOK, ConnTypeOK
  <2>3. QED
    BY <1>2, <2>1, <2>2 DEF Handle, Deliver, TypeOK
<1>3. QED
  BY <1>1, <1>2

(* The application's steps keep them. *)
LEMMA OwnerTypes ==
    ASSUME TypeOK, NEW c \in Conns, OwnerStep(c)
    PROVE  TypeOK'
<1>1. messages[c] # <<>> => Head(messages[c]) \in Received
  BY DEF TypeOK, ConnTypeOK
<1>2. CASE GetMsg(c)
  <2>1. ConnTypeOK'
    BY <1>2, OwnerType DEF GetMsg, TypeOK
  <2>2. QED
    BY <1>1, <1>2, <2>1 DEF GetMsg, Deliver, TypeOK
<1>3. CASE SetHandler(c)
  BY <1>3, OwnerType DEF SetHandler, TypeOK, OwnerPCs
<1>4. CASE DrainTake(c)
  <2>1. ConnTypeOK'
    BY <1>4, OwnerType DEF DrainTake, TypeOK
  <2>2. QED
    BY <1>1, <1>4, <2>1 DEF DrainTake, TakeQueued, TypeOK, OwnerPCs
<1>5. CASE DrainHandle(c)
  BY <1>5 DEF DrainHandle, Deliver, TypeOK, ConnTypeOK, connVars, OwnerPCs, Received
<1>6. CASE DrainDone(c)
  BY <1>6 DEF DrainDone, TypeOK, ConnTypeOK, connVars, OwnerPCs
<1>7. CASE Disconnect(c)
  BY <1>7, OwnerType DEF Disconnect, TypeOK, OwnerPCs
<1>8. CASE Destroy(c)
  BY <1>8, OwnerType DEF Destroy, TypeOK, OwnerPCs
<1>9. CASE Join(c)
  BY <1>9, OwnerType DEF Join, TypeOK, OwnerPCs
<1>10. QED
  BY <1>2, <1>3, <1>4, <1>5, <1>6, <1>7, <1>8, <1>9 DEF OwnerStep

-----------------------------------------------------------------------------
(* The invariant. *)

(* How the peer, the socket and the threads of one connection stand.         *)
Linked(c) ==
    /\ fd[c] = "unset" => /\ rpc[c] = "none" /\ owner[c] = "poll"
                          /\ ~peerOpen[c] /\ ~reset[c]
    /\ reset[c] => ~peerOpen[c] /\ wire[c] = <<>> /\ ~part[c]
    /\ rpc[c] = "inside" => reset[c] \/ wire[c] # <<>> \/ part[c]
    /\ owner[c] = "poll" => /\ ~handler[c] /\ rpc[c] # "call" /\ fd[c] # "shut"
                            /\ Ended(c) => ~peerOpen[c] /\ wire[c] = <<>>

(* What PollFIFO says of one connection; a thread inside a message has not    *)
(* queued the null pointer of a torn one before.                             *)
Ordered(c) ==
    \E n \in 0..Len(sent[c]), torn \in {<<>>, <<Null>>} :
        /\ ~reset[c] => n = Len(sent[c]) /\ torn = <<>>
        /\ rpc[c] = "inside" => torn = <<>>
        /\ delivered[c] \o Pending(c)
              = SubSeq(sent[c], 1, n) \o torn
                    \o (IF Ended(c) THEN <<Closed>> ELSE <<>>)

Inv ==
    /\ TypeOK
    /\ \A c \in Conns : Linked(c) /\ (owner[c] = "poll" => Ordered(c))

(* Nothing more is read from the socket. *)
Gone(c) == Ended(c) \/ fd[c] = "shut"

(* A step of one connection leaves the others alone. *)
LEMMA Frame ==
    ASSUME TypeOK, NEW c \in Conns, Step(c), NEW d \in Conns, d # c
    PROVE  /\ wire'[d] = wire[d] /\ part'[d] = part[d]
           /\ peerOpen'[d] = peerOpen[d] /\ fd'[d] = fd[d]
           /\ run'[d] = run[d] /\ handler'[d] = handler[d]
           /\ messages'[d] = messages[d] /\ rpc'[d] = rpc[d] /\ rmsg'[d] = rmsg[d]
           /\ owner'[d] = owner[d] /\ omsg'[d] = omsg[d] /\ sent'[d] = sent[d]
           /\ delivered'[d] = delivered[d] /\ reset'[d] = reset[d]
<1> USE DEF TypeOK, ConnTypeOK
<1>1. CASE PeerStep(c)
  BY <1>1 DEF PeerStep, Open, Send, SendPart, Close, Reset, OpenSocket, PeerSend,
     PeerSendPart, PeerClose, PeerReset, ownVars
<1>2. CASE Receive(c) \/ Handle(c)
  BY <1>2 DEF Receive, Handle, ReceiveStep, ReceivePart, ReceiveMessage, ReceiveTorn,
     ReceiveClosed, TestHandler, PushMessage, HandlerReturns, NextRound, Deliver, ownVars
<1>3. CASE OwnerStep(c)
  BY <1>3 DEF OwnerStep, GetMsg, SetHandler, DrainTake, DrainHandle, DrainDone,
     Disconnect, Destroy, Join, TakeQueued, InstallHandler, ShutSocket, RemoveHandler,
     JoinReceiver, Deliver, connVars
<1>4. QED
  BY <1>1, <1>2, <1>3 DEF Step

(* ... so what is pending there, and whether it ended, stays. *)
LEMMA Elsewhere ==
    ASSUME TypeOK, NEW c \in Conns, Step(c), NEW d \in Conns, d # c
    PROVE  /\ Pending(d)' = Pending(d) /\ Ended(d)' = Ended(d)
           /\ Linked(d) => Linked(d)'
<1>1. /\ wire'[d] = wire[d] /\ part'[d] = part[d]
      /\ peerOpen'[d] = peerOpen[d] /\ fd'[d] = fd[d]
      /\ run'[d] = run[d] /\ handler'[d] = handler[d]
      /\ messages'[d] = messages[d] /\ rpc'[d] = rpc[d] /\ rmsg'[d] = rmsg[d]
      /\ owner'[d] = owner[d] /\ omsg'[d] = omsg[d] /\ reset'[d] = reset[d]
  BY Frame
<1>2. Ended(d)' = Ended(d)
  BY <1>1 DEF Ended
<1>3. Pending(d)' = Pending(d)
  BY <1>1, <1>2 DEF Pending, OwnerHand, RecvHand
<1>4. QED
  BY <1>1, <1>2, <1>3 DEF Linked

(* The parts of what is pending. *)
LEMMA PendingParts ==
    ASSUME TypeOK, NEW c \in Conns
    PROVE  /\ OwnerHand(c) \in Seq(Received) /\ RecvHand(c) \in Seq(Received)
           /\ messages[c] \in Seq(Received) /\ wire[c] \in Seq(Received)
           /\ OwnerHand(c) \o messages[c] \in Seq(Received)
           /\ OwnerHand(c) \o messages[c] \o RecvHand(c) \in Seq(Received)
           /\ Pending(c) \in Seq(Received)
           /\ delivered[c] \in Seq(Received)
<1>1. /\ OwnerHand(c) \in Seq(Received) /\ RecvHand(c) \in Seq(Received)
      /\ messages[c] \in Seq(Received)
      /\ delivered[c] \in Seq(Received)
  BY DEF TypeOK, ConnTypeOK, OwnerHand, RecvHand
<1>2. wire[c] \in Seq(Received)
  BY DEF TypeOK, ConnTypeOK, Received
<1>3. OwnerHand(c) \o messages[c] \in Seq(Received)
  BY <1>1, ConcatProperties
<1>4. OwnerHand(c) \o messages[c] \o RecvHand(c) \in Seq(Received)
  BY <1>1, <1>3, ConcatProperties
<1>5. Pending(c) \in Seq(Received)
  <2>1. <<>> \in Seq(Received)
    OBVIOUS
  <2>2. QED
    BY <1>2, <1>4, <2>1, ConcatProperties DEF Pending
<1>6. QED
  BY <1>1, <1>2, <1>3, <1>4, <1>5

-----------------------------------------------------------------------------
(* What the steps of a connection do to what is pending there. *)

(* Writing adds a message at the end, closing nothing, and a reset cuts off   *)
(* what was not read.                                                        *)
LEMMA OpenEffect ==
    ASSUME TypeOK, NEW c \in Conns, Linked(c), Open(c) \/ SendPart(c) \/ Close(c)
    PROVE  Pending(c)' = Pending(c) /\ Ended(c)' = Ended(c) /\ Linked(c)'
<1>1. CASE Open(c)
  <2>1. ~Ended(c) /\ Ended(c)' = Ended(c)
    BY <1>1 DEF Open, OpenSocket, Ended, TypeOK, ConnTypeOK
  <2>2. RecvHand(c) = <<>> /\ RecvHand(c)' = <<>>
    BY <1>1 DEF Open, OpenSocket, RecvHand, Linked, TypeOK, ConnTypeOK
  <2>3. OwnerHand(c)' = OwnerHand(c) /\ UNCHANGED <<messages, wire>>
    BY <1>1 DEF Open, OpenSocket, OwnerHand, ownVars
  <2>4. Linked(c)'
    <3>1. /\ fd[c] = "unset" /\ fd'[c] = "open" /\ rpc'[c] \notin {"call", "inside"}
          /\ UNCHANGED <<handler, owner, reset>>
      BY <1>1 DEF Open, OpenSocket, ownVars, TypeOK, ConnTypeOK
    <3>2. QED
      BY <2>1, <3>1 DEF Linked
  <2>5. fd[c] # "shut" /\ fd'[c] # "shut"
    BY <1>1 DEF Open, OpenSocket, TypeOK, ConnTypeOK
  <2>6. Pending(c)' = Pending(c)
    BY <2>1, <2>2, <2>3, <2>5 DEF Pending
  <2>7. QED
    BY <2>1, <2>4, <2>6
<1>2. CASE SendPart(c) \/ Close(c)
  <2>1. /\ UNCHANGED <<wire, fd, run, handler, messages, rpc, rmsg, ownVars>>
        /\ peerOpen[c] /\ (part[c] => part'[c]) /\ (peerOpen'[c] \/ ~part'[c] \/ part[c])
        /\ peerOpen'[c] => peerOpen[c]
    BY <1>2 DEF SendPart, PeerSendPart, Close, PeerClose, TypeOK, ConnTypeOK
  <2>2. QED
    BY <2>1 DEF Pending, Ended, OwnerHand, RecvHand, Linked, ownVars
<1>3. QED
  BY <1>1, <1>2

LEMMA SendEffect ==
    ASSUME TypeOK, NEW c \in Conns, Linked(c), Send(c)
    PROVE  /\ \E m \in Msgs \cup {Null} :
                 /\ sent'[c] = Append(sent[c], m)
                 /\ Pending(c)' = IF Gone(c) THEN Pending(c) ELSE Append(Pending(c), m)
           /\ Ended(c)' = Ended(c)
           /\ Linked(c)'
           /\ peerOpen[c] /\ UNCHANGED <<owner, delivered, reset>>
<1>1. PICK m \in {NextNumber(c)} \cup (IF Undecodable THEN {Null} ELSE {}) :
        PeerSend(c, m) /\ sent' = [sent EXCEPT ![c] = Append(@, m)]
  BY DEF Send
<1>2. m \in Msgs \cup {Null}
  BY NextNumberType DEF Send
<1>3. /\ UNCHANGED <<peerOpen, fd, run, handler, messages, rpc, rmsg>>
      /\ UNCHANGED <<owner, omsg, delivered, reset>>
      /\ peerOpen[c]
      /\ wire'[c] = Append(wire[c], m) /\ sent'[c] = Append(sent[c], m)
  BY <1>1 DEF Send, PeerSend, TypeOK, ConnTypeOK
<1>4. Ended(c)' = Ended(c) /\ OwnerHand(c)' = OwnerHand(c) /\ RecvHand(c)' = RecvHand(c)
  BY <1>3 DEF Ended, OwnerHand, RecvHand
<1>5. ~Gone(c) => Pending(c)' = Append(Pending(c), m)
  <2> DEFINE p == OwnerHand(c) \o messages[c] \o RecvHand(c)
  <2>1. p \in Seq(Received) /\ wire[c] \in Seq(Received) /\ m \in Received
    BY <1>2, PendingParts DEF Received
  <2>2. p' = p
    BY <1>3 DEF OwnerHand, RecvHand
  <2>3. ~Gone(c) => Pending(c)' = p' \o wire'[c] /\ Pending(c) = p \o wire[c]
    BY <1>3, <1>4 DEF Pending, Gone
  <2> HIDE DEF p
  <2>4. p \o Append(wire[c], m) = Append(p \o wire[c], m)
    BY <2>1, PendingWrite
  <2>5. QED
    BY <1>3, <2>2, <2>3, <2>4
<1>6. Gone(c) => Pending(c)' = Pending(c)
  BY <1>3, <1>4 DEF Pending, Gone
<1>7. wire'[c] # <<>>
  <2>1. wire[c] \in Seq(Msgs \cup {Null})
    BY DEF TypeOK, ConnTypeOK
  <2>2. Len(Append(wire[c], m)) = Len(wire[c]) + 1
    BY ONLY <1>2, <2>1, AppendProperties
  <2>3. Len(wire[c]) \in Nat
    BY <2>1
  <2>4. Append(wire[c], m) # <<>>
    BY ONLY <2>2, <2>3
  <2>5. QED
    BY <1>3, <2>4
<1>8. Linked(c)'
  BY <1>3, <1>4, <1>7 DEF Linked
<1>9. QED
  BY <1>2, <1>3, <1>4, <1>5, <1>6, <1>8

LEMMA ResetEffect ==
    ASSUME TypeOK, NEW c \in Conns, Linked(c), Reset(c)
    PROVE  /\ Pending(c)' \in Seq(Received)
           /\ Len(Pending(c)') \in 0..Len(Pending(c))
           /\ Pending(c)' = SubSeq(Pending(c), 1, Len(Pending(c)'))
           /\ ~reset'[c] \/ Gone(c) => Pending(c)' = Pending(c)
           /\ peerOpen[c] /\ Ended(c)' = Ended(c) /\ Linked(c)'
           /\ UNCHANGED <<owner, sent, delivered, fd>>
<1> DEFINE p == OwnerHand(c) \o messages[c] \o RecvHand(c)
<1>1. /\ UNCHANGED <<fd, run, handler, messages, rpc, rmsg>>
      /\ UNCHANGED <<owner, omsg, sent, delivered>>
      /\ peerOpen[c] /\ ~peerOpen'[c]
      /\ wire'[c] = <<>> /\ ~part'[c]
      /\ reset'[c] = (wire[c] # <<>> \/ part[c])
  BY DEF Reset, PeerReset, TypeOK, ConnTypeOK
<1>2. Ended(c)' = Ended(c) /\ OwnerHand(c)' = OwnerHand(c) /\ RecvHand(c)' = RecvHand(c)
  BY <1>1 DEF Ended, OwnerHand, RecvHand
<1>3. p \in Seq(Received) /\ wire[c] \in Seq(Received) /\ Pending(c) \in Seq(Received)
  BY PendingParts
<1>4. Pending(c)' = p
  BY <1>1, <1>2, <1>3, ConcatEmptySeq DEF Pending
<1>5. Gone(c) => Pending(c) = p
  BY <1>3, ConcatEmptySeq DEF Pending, Gone
<1>6. ~reset'[c] => Pending(c) = p
  BY <1>1, <1>3, <1>5, ConcatEmptySeq DEF Pending
<1>7. ~Gone(c) => Pending(c) = p \o wire[c]
  BY DEF Pending, Gone
<1> HIDE DEF p
<1>8. Len(p) \in 0..Len(Pending(c)) /\ p = SubSeq(Pending(c), 1, Len(p))
  BY <1>3, <1>5, <1>7, PendingCut, SubSeqFull
<1>9. Linked(c)'
  BY <1>1, <1>2 DEF Linked
<1>10. QED
  BY <1>1, <1>2, <1>3, <1>4, <1>5, <1>6, <1>8, <1>9

(* The receive thread moves a message along, or finds the end of the stream   *)
(* and puts it behind what was read.                                         *)
LEMMA ReceiveEffect ==
    ASSUME TypeOK, NEW c \in Conns, Linked(c), Receive(c)
    PROVE  /\ \/ /\ Pending(c)' = Pending(c) /\ Ended(c)' = Ended(c)
                 /\ rpc'[c] = "inside" => rpc[c] = "inside" \/ ~reset[c]
              \/ /\ ~Ended(c) /\ Ended(c)' /\ rpc'[c] # "inside"
                 /\ Pending(c)' = Append(Pending(c), Closed)
              \/ /\ ~Ended(c) /\ Ended(c)' = Ended(c)
                 /\ rpc[c] = "inside" /\ rpc'[c] # "inside"
                 /\ fd[c] # "shut" => reset[c]
                 /\ Pending(c)' = Append(Pending(c), Null)
           /\ Linked(c)'
           /\ UNCHANGED <<fd, owner, sent, delivered, reset>>
<1>1. PICK q : q = OwnerHand(c) \o messages[c]
  OBVIOUS
<1>2. PICK w : w = IF Gone(c) THEN <<>> ELSE wire[c]
  OBVIOUS
<1>3. /\ q \in Seq(Received) /\ messages[c] \in Seq(Received)
      /\ OwnerHand(c) \in Seq(Received) /\ wire[c] \in Seq(Received)
      /\ w \in Seq(Received) /\ Pending(c) \in Seq(Received)
  BY <1>1, <1>2, PendingParts
<1>4. Pending(c) = q \o RecvHand(c) \o w
  BY <1>1, <1>2 DEF Pending, Gone
<1>5. UNCHANGED <<fd, owner, omsg, sent, delivered, reset, part, peerOpen, handler>>
      /\ OwnerHand(c)' = OwnerHand(c)
  BY DEF Receive, ReceiveStep, ReceivePart, ReceiveMessage, ReceiveTorn, ReceiveClosed,
     TestHandler, PushMessage, ownVars, OwnerHand
<1>6. CASE ReceiveMessage(c)
  <2>1. /\ rpc[c] \in {"recv", "inside"} /\ rpc'[c] = "test" /\ run[c]
        /\ UNCHANGED <<messages, run>> /\ fd[c] = "open"
        /\ wire[c] # <<>> /\ wire'[c] = Tail(wire[c]) /\ rmsg'[c] = Head(wire[c])
    BY <1>6 DEF ReceiveMessage, TypeOK, ConnTypeOK
  <2>2. ~Gone(c) /\ ~Gone(c)' /\ Ended(c)' = Ended(c)
    BY <1>5, <2>1 DEF Ended, Gone
  <2>3. RecvHand(c) = <<>> /\ RecvHand(c)' = <<Head(wire[c])>>
    BY <2>1 DEF RecvHand
  <2>4. Pending(c)' = q \o <<Head(wire[c])>> \o Tail(wire[c])
    BY <1>1, <1>5, <2>1, <2>2, <2>3 DEF Pending, Gone
  <2>5. Pending(c) = q \o wire[c]
    BY <1>2, <1>3, <1>4, <2>2, <2>3, ConcatEmptySeq
  <2>6. Pending(c)' = Pending(c)
    BY <1>3, <2>1, <2>4, <2>5, PendingMove
  <2>7. Linked(c)'
    BY <1>5, <2>1, <2>2 DEF Linked
  <2>8. QED
    BY <1>5, <2>1, <2>2, <2>6, <2>7
<1>7. CASE ReceiveClosed(c)
  <2>1. /\ rpc[c] = "recv" /\ rpc'[c] = "test" /\ run[c] /\ ~run'[c]
        /\ UNCHANGED <<wire, messages>> /\ rmsg'[c] = Closed
        /\ fd[c] # "shut" => wire[c] = <<>> /\ ~peerOpen[c]
    BY <1>7 DEF ReceiveClosed, EndOfStream, TypeOK, ConnTypeOK
  <2>2. ~Ended(c) /\ Ended(c)'
    BY <1>5, <2>1 DEF Ended, Linked
  <2>3. w = <<>>
    BY <1>2, <2>1 DEF Gone
  <2>4. RecvHand(c) = <<>> /\ RecvHand(c)' = <<Closed>>
    BY <2>1 DEF RecvHand
  <2>5. Closed \in Received /\ <<Closed>> \in Seq(Received)
    BY DEF Received
  <2>6. q \o <<Closed>> \in Seq(Received)
    BY <1>3, <2>5, ConcatProperties
  <2>7. Pending(c)' = q \o <<Closed>> \o <<>>
    BY <1>1, <1>5, <2>1, <2>2, <2>4 DEF Pending
  <2>8. Pending(c)' = Append(Pending(c), Closed)
    BY <1>3, <1>4, <2>3, <2>4, <2>5, <2>6, <2>7, ConcatEmptySeq, AppendIsConcat
  <2>9. Linked(c)'
    BY <1>5, <2>1 DEF Linked
  <2>10. QED
    BY <1>5, <2>1, <2>2, <2>8, <2>9
<1>8. CASE TestHandler(c)
  <2>1. /\ rpc[c] = "test" /\ rpc'[c] = IF handler[c] THEN "call" ELSE "push"
        /\ UNCHANGED <<wire, run, messages, rmsg>>
    BY <1>8 DEF TestHandler, TypeOK, ConnTypeOK
  <2>2. RecvHand(c)' = RecvHand(c) /\ Ended(c)' = Ended(c)
    BY <1>5, <2>1 DEF RecvHand, Ended
  <2>3. Pending(c)' = Pending(c)
    BY <1>5, <2>1, <2>2 DEF Pending
  <2>4. Linked(c)'
    BY <1>5, <2>1, <2>2 DEF Linked
  <2>5. QED
    BY <1>5, <2>1, <2>2, <2>3, <2>4
<1>9. CASE PushMessage(c)
  <2>1. /\ rpc[c] = "push" /\ rpc'[c] = IF run[c] THEN "recv" ELSE "exit"
        /\ messages'[c] = Append(messages[c], rmsg[c]) /\ UNCHANGED <<wire, run>>
    BY <1>9 DEF PushMessage, NextRound, TypeOK, ConnTypeOK
  <2>2. RecvHand(c) = <<rmsg[c]>> /\ RecvHand(c)' = <<>> /\ Ended(c)' = Ended(c)
    BY <1>5, <2>1 DEF RecvHand, Ended
  <2>3. rmsg[c] \in Received /\ <<rmsg[c]>> \in Seq(Received)
    BY DEF TypeOK, ConnTypeOK
  <2>4. OwnerHand(c) \o Append(messages[c], rmsg[c]) = Append(q, rmsg[c])
    BY <1>1, <1>3, <2>3, PendingWrite
  <2>5. Append(q, rmsg[c]) = q \o <<rmsg[c]>> /\ q \o <<rmsg[c]>> \in Seq(Received)
    BY <1>3, <2>3, AppendIsConcat, ConcatProperties
  <2>6. Pending(c)' = q \o <<rmsg[c]>> \o <<>> \o w
    BY <1>2, <1>5, <2>1, <2>2, <2>4, <2>5 DEF Pending, Gone
  <2>7. Pending(c)' = Pending(c)
    BY <1>4, <2>2, <2>5, <2>6, ConcatEmptySeq
  <2>8. Linked(c)'
    BY <1>5, <2>1, <2>2 DEF Linked
  <2>9. QED
    BY <1>5, <2>1, <2>2, <2>7, <2>8
<1>10. CASE ReceivePart(c)
  <2>1. /\ rpc[c] = "recv" /\ rpc'[c] = "inside" /\ (wire[c] # <<>> \/ part[c])
        /\ UNCHANGED <<wire, run, messages, rmsg>>
    BY <1>10 DEF ReceivePart, TypeOK, ConnTypeOK
  <2>2. RecvHand(c)' = RecvHand(c) /\ Ended(c)' = Ended(c)
    BY <1>5, <2>1 DEF RecvHand, Ended
  <2>3. Pending(c)' = Pending(c)
    BY <1>5, <2>1, <2>2 DEF Pending
  <2>4. Linked(c)' /\ ~reset[c]
    BY <1>5, <2>1, <2>2 DEF Linked
  <2>5. QED
    BY <1>5, <2>2, <2>3, <2>4
<1>11. CASE ReceiveTorn(c)
  <2>1. /\ rpc[c] = "inside" /\ rpc'[c] = "test" /\ run[c]
        /\ UNCHANGED <<wire, messages, run>> /\ rmsg'[c] = Null
        /\ fd[c] # "shut" => wire[c] = <<>> /\ ~part[c] /\ ~peerOpen[c]
    BY <1>11 DEF ReceiveTorn, EndOfStream, TypeOK, ConnTypeOK
  <2>2. ~Ended(c) /\ Ended(c)' = Ended(c) /\ (fd[c] # "shut" => reset[c])
    BY <1>5, <2>1 DEF Ended, Linked
  <2>3. w = <<>> /\ (IF Gone(c) THEN <<>> ELSE wire[c])' = <<>>
    BY <1>2, <1>5, <2>1 DEF Gone
  <2>4. RecvHand(c) = <<>> /\ RecvHand(c)' = <<Null>>
    BY <2>1 DEF RecvHand
  <2>5. Null \in Received /\ <<Null>> \in Seq(Received)
    BY DEF Received
  <2>6. q \o <<Null>> \in Seq(Received)
    BY <1>3, <2>5, ConcatProperties
  <2>7. Pending(c)' = q \o <<Null>> \o <<>>
    BY <1>1, <1>5, <2>1, <2>3, <2>4 DEF Pending, Gone
  <2>8. Pending(c)' = Append(Pending(c), Null)
    BY <1>3, <1>4, <2>3, <2>4, <2>5, <2>6, <2>7, ConcatEmptySeq, AppendIsConcat
  <2>9. Linked(c)'
    BY <1>5, <2>1, <2>2 DEF Linked
  <2>10. QED
    BY <1>5, <2>1, <2>2, <2>8, <2>9
<1>12. QED
  BY <1>6, <1>7, <1>8, <1>9, <1>10, <1>11 DEF Receive, ReceiveStep

(* A handler is given a message from the middle: what is queued is older. *)
LEMMA HandleEffect ==
    ASSUME TypeOK, NEW c \in Conns, Linked(c), Handle(c)
    PROVE  /\ \E i \in 1..Len(Pending(c)) :
                 /\ delivered' = [delivered EXCEPT ![c] = Append(@, Pending(c)[i])]
                 /\ Pending(c)' = RemoveAt(Pending(c), i)
           /\ owner[c] # "poll" /\ Ended(c)' = Ended(c) /\ Linked(c)'
           /\ UNCHANGED <<fd, owner, sent, reset>>
<1>1. PICK q : q = OwnerHand(c) \o messages[c]
  OBVIOUS
<1>2. PICK w : w = IF Gone(c) THEN <<>> ELSE wire[c]
  OBVIOUS
<1>3. PICK e \in Received : e = rmsg[c]
  BY DEF TypeOK, ConnTypeOK
<1>4. q \in Seq(Received) /\ w \in Seq(Received)
  BY <1>1, <1>2, PendingParts
<1>5. /\ rpc[c] = "call" /\ rpc'[c] = IF run[c] THEN "recv" ELSE "exit"
      /\ UNCHANGED <<wire, part, peerOpen, fd, run, handler, messages, owner, omsg, sent, reset>>
      /\ delivered' = [delivered EXCEPT ![c] = Append(@, e)]
  BY <1>3 DEF Handle, HandlerReturns, NextRound, Deliver, TypeOK, ConnTypeOK
<1>6. /\ RecvHand(c) = <<e>> /\ RecvHand(c)' = <<>>
      /\ Ended(c)' = Ended(c) /\ OwnerHand(c)' = OwnerHand(c)
  BY <1>3, <1>5 DEF RecvHand, Ended, OwnerHand
<1>7. Pending(c) = q \o <<e>> \o w
  BY <1>1, <1>2, <1>6 DEF Pending, Gone
<1>8. Pending(c)' = q \o <<>> \o w
  BY <1>1, <1>2, <1>5, <1>6 DEF Pending, Gone
<1>9. Pending(c)' = q \o w
  BY <1>4, <1>8, ConcatEmptySeq
<1>10. PICK k, v, t : k = Len(q) + 1 /\ v = Pending(c) /\ t = q \o w
  OBVIOUS
<1>11. RemoveAt(v, k) = t /\ v[k] = e /\ k \in 1..Len(v)
  <2>1. v = q \o <<e>> \o w
    BY <1>7, <1>10
  <2>2. k = Len(q) + 1
    BY <1>10
  <2>3. t = q \o w
    BY <1>10
  <2>4. QED
    <3>1. /\ SubSeq(v, 1, k - 1) = q /\ SubSeq(v, k + 1, Len(v)) = w
          /\ v[k] = e /\ k \in 1..Len(v)
      BY <1>4, <2>1, <2>2, PendingParted
    <3>2. k \in Nat
      BY <1>4, <2>2
    <3>3. RemoveAt(v, k) = SubSeq(v, 1, k - 1) \o SubSeq(v, k + 1, Len(v))
      BY <3>2, PendingRemoved
    <3>4. QED
      BY <2>3, <3>1, <3>3
<1>12. owner[c] # "poll" /\ fd[c] # "unset"
  BY <1>5 DEF Linked
<1>13. Linked(c)'
  BY <1>5, <1>12 DEF Linked
<1>14. QED
  BY <1>5, <1>6, <1>9, <1>10, <1>11, <1>12, <1>13

(* getMsg() gives what is pending first. *)
LEMMA GetMsgEffect ==
    ASSUME TypeOK, NEW c \in Conns, Linked(c), GetMsg(c)
    PROVE  /\ owner[c] = "poll" /\ Pending(c) # <<>>
           /\ Head(Pending(c)) \in Received /\ Tail(Pending(c)) \in Seq(Received)
           /\ delivered' = [delivered EXCEPT ![c] = Append(@, Head(Pending(c)))]
           /\ Pending(c)' = Tail(Pending(c))
           /\ Ended(c)' = Ended(c) /\ Linked(c)'
           /\ UNCHANGED <<fd, owner, sent, reset>>
<1>1. PICK w : w = IF Gone(c) THEN <<>> ELSE wire[c]
  OBVIOUS
<1>2. PICK m : m = messages[c]
  OBVIOUS
<1>3. /\ w \in Seq(Received) /\ m \in Seq(Received) /\ RecvHand(c) \in Seq(Received)
  BY <1>1, <1>2, PendingParts
<1>4. /\ owner[c] = "poll" /\ m # <<>> /\ messages'[c] = Tail(m)
      /\ UNCHANGED <<wire, part, peerOpen, fd, run, handler, rpc, rmsg, owner, omsg, sent, reset>>
      /\ delivered' = [delivered EXCEPT ![c] = Append(@, Head(m))]
  BY <1>2 DEF GetMsg, TakeQueued, Deliver, TypeOK, ConnTypeOK
<1>5. /\ OwnerHand(c) = <<>> /\ OwnerHand(c)' = <<>>
      /\ RecvHand(c)' = RecvHand(c) /\ Ended(c)' = Ended(c)
  BY <1>4 DEF OwnerHand, RecvHand, Ended
<1>6. Head(m) \in Received /\ Tail(m) \in Seq(Received) /\ <<Head(m)>> \in Seq(Received)
  BY <1>3, <1>4, HeadTailProperties
<1>7. m = <<Head(m)>> \o Tail(m)
  <2>1. <<>> \in Seq(Received)
    OBVIOUS
  <2>2. <<>> \o <<Head(m)>> = <<Head(m)>> /\ <<>> \o m = m
    BY <1>3, <1>6, ConcatEmptySeq
  <2>3. <<>> \o <<Head(m)>> \o Tail(m) = <<>> \o m
    BY <1>3, <1>4, <2>1, PendingMove
  <2>4. QED
    BY <2>2, <2>3
<1>8. PICK r : r = Tail(m) \o RecvHand(c) \o w
  OBVIOUS
<1>9. Tail(m) \o RecvHand(c) \in Seq(Received) /\ r \in Seq(Received)
  BY <1>3, <1>6, <1>8, ConcatProperties
<1>10. Pending(c)' = r
  BY <1>1, <1>3, <1>4, <1>5, <1>6, <1>8, ConcatEmptySeq DEF Pending, Gone
<1>11. Pending(c) = <<Head(m)>> \o r
  <2>1. Pending(c) = m \o RecvHand(c) \o w
    BY <1>1, <1>2, <1>3, <1>5, ConcatEmptySeq DEF Pending, Gone
  <2>2. m \o RecvHand(c) = <<Head(m)>> \o (Tail(m) \o RecvHand(c))
    BY <1>3, <1>6, <1>7, ConcatAssociative
  <2>3. (<<Head(m)>> \o (Tail(m) \o RecvHand(c))) \o w
          = <<Head(m)>> \o (Tail(m) \o RecvHand(c) \o w)
    BY <1>3, <1>6, <1>9, ConcatAssociative
  <2>4. QED
    BY <1>8, <2>1, <2>2, <2>3
<1>12. Pending(c) # <<>> /\ Head(Pending(c)) = Head(m) /\ Tail(Pending(c)) = r
  BY <1>6, <1>9, <1>11, PendingHead
<1>13. Linked(c)'
  BY <1>4, <1>5 DEF Linked
<1>14. QED
  BY <1>4, <1>5, <1>6, <1>9, <1>10, <1>12, <1>13

(* The loop of setHandler() takes the queue's head in hand, ... *)
LEMMA DrainTakeEffect ==
    ASSUME TypeOK, NEW c \in Conns, Linked(c), DrainTake(c)
    PROVE  /\ Pending(c)' = Pending(c) /\ Ended(c)' = Ended(c) /\ Linked(c)'
           /\ owner[c] = "drain" /\ owner'[c] = "handle"
           /\ UNCHANGED <<fd, sent, delivered, reset>>
<1>1. PICK m : m = messages[c]
  OBVIOUS
<1>2. /\ owner[c] = "drain" /\ owner'[c] = "handle" /\ omsg'[c] = Head(m)
      /\ m # <<>> /\ messages'[c] = Tail(m)
      /\ UNCHANGED <<wire, part, peerOpen, fd, run, handler, rpc, rmsg, sent, delivered, reset>>
  BY <1>1 DEF DrainTake, TakeQueued, TypeOK, ConnTypeOK
<1>3. m \in Seq(Received) /\ <<>> \in Seq(Received)
  BY <1>1, PendingParts
<1>4. Head(m) \in Received /\ <<Head(m)>> \in Seq(Received)
  BY <1>2, <1>3, HeadTailProperties
<1>5. /\ OwnerHand(c) = <<>> /\ OwnerHand(c)' = <<Head(m)>>
      /\ RecvHand(c)' = RecvHand(c) /\ Ended(c)' = Ended(c)
  BY <1>2 DEF OwnerHand, RecvHand, Ended
<1>6. <<Head(m)>> \o Tail(m) = <<>> \o m
  <2>1. <<>> \o <<Head(m)>> \o Tail(m) = <<>> \o m
    BY <1>2, <1>3, PendingMove
  <2>2. <<>> \o <<Head(m)>> = <<Head(m)>>
    BY <1>4, ConcatEmptySeq
  <2>3. QED
    BY <2>1, <2>2
<1>7. Pending(c)' = Pending(c)
  BY <1>1, <1>2, <1>5, <1>6 DEF Pending
<1>8. Linked(c)'
  BY <1>2, <1>5 DEF Linked
<1>9. QED
  BY <1>2, <1>5, <1>7, <1>8

(* ... and the handler is given it. *)
LEMMA DrainHandleEffect ==
    ASSUME TypeOK, NEW c \in Conns, Linked(c), DrainHandle(c)
    PROVE  /\ \E i \in 1..Len(Pending(c)) :
                 /\ delivered' = [delivered EXCEPT ![c] = Append(@, Pending(c)[i])]
                 /\ Pending(c)' = RemoveAt(Pending(c), i)
           /\ owner[c] = "handle" /\ owner'[c] = "drain"
           /\ Ended(c)' = Ended(c) /\ Linked(c)'
           /\ UNCHANGED <<fd, sent, reset>>
<1>1. PICK e \in Received : e = omsg[c]
  BY DEF TypeOK
<1>2. /\ owner[c] = "handle" /\ owner'[c] = "drain"
      /\ delivered' = [delivered EXCEPT ![c] = Append(@, e)]
      /\ UNCHANGED <<wire, part, peerOpen, fd, run, handler, messages, rpc, rmsg, sent, reset>>
  BY <1>1 DEF DrainHandle, Deliver, connVars, TypeOK
<1>3. /\ OwnerHand(c) = <<e>> /\ OwnerHand(c)' = <<>>
      /\ RecvHand(c)' = RecvHand(c) /\ Ended(c)' = Ended(c)
  BY <1>1, <1>2 DEF OwnerHand, RecvHand, Ended
<1>4. PICK w, m, h : /\ w = IF Gone(c) THEN <<>> ELSE wire[c]
                     /\ m = messages[c] /\ h = RecvHand(c)
  OBVIOUS
<1>5. /\ w \in Seq(Received) /\ m \in Seq(Received) /\ h \in Seq(Received)
      /\ <<>> \in Seq(Received) /\ <<e>> \in Seq(Received)
  BY <1>4, PendingParts
<1>6. PICK r : r = m \o h \o w
  OBVIOUS
<1>7. m \o h \in Seq(Received) /\ r \in Seq(Received)
  BY <1>5, <1>6, ConcatProperties
<1>8. Pending(c)' = r
  BY <1>2, <1>3, <1>4, <1>5, <1>6, ConcatEmptySeq DEF Pending, Gone
<1>9. Pending(c) = <<>> \o <<e>> \o r
  <2>1. <<e>> \o m \o h = <<e>> \o (m \o h)
    BY <1>5, ConcatAssociative
  <2>2. (<<e>> \o (m \o h)) \o w = <<e>> \o r
    BY <1>5, <1>6, <1>7, ConcatAssociative
  <2>3. <<>> \o <<e>> = <<e>>
    BY <1>5, ConcatEmptySeq
  <2>4. QED
    BY <1>3, <1>4, <2>1, <2>2, <2>3 DEF Pending, Gone
<1>10. PICK k, v, n : n = <<>> /\ k = Len(n) + 1 /\ v = Pending(c)
  OBVIOUS
<1>11. n \o r = r /\ k = 1
  BY <1>7, <1>10, ConcatEmptySeq
<1>12. RemoveAt(v, k) = r /\ v[k] = e /\ k \in 1..Len(v)
  <2>1. v = n \o <<e>> \o r /\ n \in Seq(Received)
    BY <1>5, <1>9, <1>10
  <2>2. k = Len(n) + 1 /\ r = n \o r
    BY <1>10, <1>11
  <2>3. QED
    <3>1. /\ SubSeq(v, 1, k - 1) = n /\ SubSeq(v, k + 1, Len(v)) = r
          /\ v[k] = e /\ k \in 1..Len(v)
      BY <1>7, <2>1, <2>2, PendingParted
    <3>2. RemoveAt(v, k) = SubSeq(v, 1, k - 1) \o SubSeq(v, k + 1, Len(v))
      BY <1>11, PendingRemoved
    <3>3. QED
      BY <2>2, <3>1, <3>2
<1>13. Linked(c)'
  BY <1>2, <1>3 DEF Linked
<1>14. QED
  BY <1>2, <1>3, <1>8, <1>10, <1>11, <1>12, <1>13

(* The rest of what the application does moves no message; disconnect() gives *)
(* up what was not read.                                                     *)
LEMMA OwnerEffect ==
    ASSUME TypeOK, NEW c \in Conns, Linked(c),
           SetHandler(c) \/ DrainDone(c) \/ Disconnect(c) \/ Destroy(c) \/ Join(c)
    PROVE  /\ Len(Pending(c)') \in 0..Len(Pending(c))
           /\ Pending(c)' = SubSeq(Pending(c), 1, Len(Pending(c)'))
           /\ fd' = fd \/ Ended(c) => Pending(c)' = Pending(c)
           /\ Ended(c)' = Ended(c) /\ Linked(c)'
           /\ fd[c] # "unset"
           /\ owner'[c] # "poll"
           /\ \/ fd' = fd /\ (SetHandler(c) \/ owner[c] # "poll")
              \/ fd' = [fd EXCEPT ![c] = "shut"]
           /\ UNCHANGED <<sent, delivered, reset>>
<1> DEFINE p == OwnerHand(c) \o messages[c] \o RecvHand(c)
<1>1. /\ UNCHANGED <<wire, part, peerOpen, run, messages, rmsg>>
      /\ UNCHANGED <<omsg, sent, delivered, reset>>
      /\ owner'[c] # "poll" /\ owner[c] # "handle" /\ owner'[c] # "handle"
  BY DEF SetHandler, DrainDone, Disconnect, Destroy, Join, InstallHandler, ShutSocket,
     RemoveHandler, JoinReceiver, connVars, TypeOK
<1>2. fd[c] # "unset"
  BY DEF SetHandler, DrainDone, Disconnect, Destroy, Join, Linked
<1>3. \/ fd' = fd /\ (SetHandler(c) \/ owner[c] # "poll")
      \/ fd' = [fd EXCEPT ![c] = "shut"] /\ fd[c] = "open"
  BY <1>2 DEF SetHandler, DrainDone, Disconnect, Destroy, Join, InstallHandler,
     ShutSocket, RemoveHandler, JoinReceiver, connVars, TypeOK, ConnTypeOK
<1>4. fd'[c] # "unset"
  BY <1>2, <1>3 DEF TypeOK, ConnTypeOK
<1>5. rpc' = rpc \/ (rpc[c] \in {"none", "exit"} /\ rpc'[c] = "none")
  BY DEF SetHandler, DrainDone, Disconnect, Destroy, Join, InstallHandler, ShutSocket,
     RemoveHandler, JoinReceiver, connVars, TypeOK, ConnTypeOK
<1>6. Ended(c)' = Ended(c) /\ OwnerHand(c)' = OwnerHand(c) /\ RecvHand(c)' = RecvHand(c)
  BY <1>1, <1>2, <1>4, <1>5 DEF Ended, OwnerHand, RecvHand
<1>7. p \in Seq(Received) /\ wire[c] \in Seq(Received) /\ Pending(c) \in Seq(Received)
  BY PendingParts
<1>8. p' = p
  BY <1>1, <1>6
<1>9. fd' = fd \/ Ended(c) => Pending(c)' = Pending(c)
  BY <1>1, <1>6 DEF Pending
<1>10. fd' # fd => Pending(c)' = p
  <2>1. fd' # fd => fd'[c] = "shut"
    BY <1>3 DEF TypeOK, ConnTypeOK
  <2>2. fd' # fd => Pending(c)' = p' \o <<>>
    BY <2>1 DEF Pending
  <2>3. QED
    BY <1>7, <1>8, <2>2, ConcatEmptySeq
<1>11. Pending(c) = p \/ Pending(c) = p \o wire[c]
  BY <1>7, ConcatEmptySeq DEF Pending
<1>12. /\ Len(Pending(c)') \in 0..Len(Pending(c))
       /\ Pending(c)' = SubSeq(Pending(c), 1, Len(Pending(c)'))
  <2> HIDE DEF p
  <2>1. PICK v, u : v = Pending(c) /\ u = Pending(c)'
    OBVIOUS
  <2>2. v \in Seq(Received) /\ (v = p \/ v = p \o wire[c]) /\ (u = v \/ u = p)
    BY <1>7, <1>9, <1>10, <1>11, <2>1
  <2>3. Len(v) \in 0..Len(v) /\ v = SubSeq(v, 1, Len(v))
    BY <2>2, SubSeqFull
  <2>4. v = p \o wire[c] => Len(p) \in 0..Len(v) /\ p = SubSeq(v, 1, Len(p))
    BY <1>7, PendingCut
  <2>5. Len(u) \in 0..Len(v) /\ u = SubSeq(v, 1, Len(u))
    BY <2>2, <2>3, <2>4
  <2>6. QED
    BY <2>1, <2>5
<1>13. Linked(c)'
  BY <1>1, <1>4, <1>5 DEF Linked
<1>14. QED
  BY <1>1, <1>2, <1>3, <1>6, <1>9, <1>12, <1>13

-----------------------------------------------------------------------------
(* The invariant holds. *)

(* Every connection starts with nothing in any of the places. *)
LEMMA InitInv == Init => Inv
<1> SUFFICES ASSUME Init
             PROVE  Inv
  OBVIOUS
<1>1. TypeOK
  BY InitType
<1>2. ASSUME NEW c \in Conns
      PROVE  /\ Linked(c) /\ ~Ended(c) /\ Pending(c) = <<>>
             /\ sent[c] = <<>> /\ delivered[c] = <<>>
  <2>1. /\ fd[c] = "unset" /\ rpc[c] = "none" /\ owner[c] = "poll" /\ ~peerOpen[c]
        /\ ~reset[c] /\ ~handler[c] /\ messages[c] = <<>> /\ wire[c] = <<>>
        /\ sent[c] = <<>> /\ delivered[c] = <<>>
    BY DEF Init, ConnInit
  <2>2. ~Ended(c) /\ OwnerHand(c) = <<>> /\ RecvHand(c) = <<>>
    BY <2>1 DEF Ended, OwnerHand, RecvHand
  <2>3. <<>> \o <<>> = <<>>
    OBVIOUS
  <2>4. Pending(c) = <<>>
    BY <2>1, <2>2, <2>3 DEF Pending
  <2>5. Linked(c)
    BY <2>1, <2>2 DEF Linked
  <2>6. QED
    BY <2>1, <2>2, <2>4, <2>5
<1>3. ASSUME NEW c \in Conns
      PROVE  Ordered(c)
  <2>1. SubSeq(<<>>, 1, 0) = <<>> /\ <<>> \o <<>> = <<>> /\ Len(<<>>) = 0
    OBVIOUS
  <2>2. 0 \in 0..Len(sent[c]) /\ 0 = Len(sent[c]) /\ ~Ended(c)
    BY <1>2, <2>1
  <2>3. delivered[c] \o Pending(c) = SubSeq(sent[c], 1, 0) \o <<>> \o <<>>
    BY <1>2, <2>1
  <2>4. QED
    BY <2>2, <2>3 DEF Ordered
<1>4. QED
  BY <1>1, <1>2, <1>3 DEF Inv

(* A step that leaves what was given and what is pending in line. *)
LEMMA OrderedStays ==
    ASSUME NEW c \in Conns, Ordered(c),
           delivered'[c] \o Pending(c)' = delivered[c] \o Pending(c),
           Ended(c)' = Ended(c), sent'[c] = sent[c], reset'[c] = reset[c],
           rpc'[c] = "inside" => rpc[c] = "inside" \/ ~reset[c]
    PROVE  Ordered(c)'
BY DEF Ordered

(* Writing puts the message at the end of both. *)
LEMMA OrderedSend ==
    ASSUME TypeOK, NEW c \in Conns, Linked(c), owner[c] = "poll", Ordered(c), Send(c)
    PROVE  Ordered(c)'
<1>1. PICK m \in Msgs \cup {Null} :
        /\ sent'[c] = Append(sent[c], m)
        /\ Pending(c)' = IF Gone(c) THEN Pending(c) ELSE Append(Pending(c), m)
  BY SendEffect
<1>2. /\ Ended(c)' = Ended(c) /\ peerOpen[c]
      /\ delivered'[c] = delivered[c] /\ reset'[c] = reset[c]
  BY SendEffect
<1>3. ~Ended(c) /\ ~Gone(c) /\ ~reset[c]
  BY <1>2 DEF Linked, Gone
<1>4. PICK d, p, s : d = delivered[c] /\ p = Pending(c) /\ s = sent[c]
  OBVIOUS
<1>5. d \in Seq(Received) /\ p \in Seq(Received)
  BY <1>4, PendingParts
<1>6. s \in Seq(Received) /\ m \in Received
  BY <1>4 DEF TypeOK, Received
<1>7. d \o p = s
  <2>1. d \o p = SubSeq(s, 1, Len(s)) \o <<>> \o <<>>
    BY <1>3, <1>4 DEF Ordered
  <2>2. SubSeq(s, 1, Len(s)) = s
    BY <1>6, SubSeqFull
  <2>3. QED
    BY <1>6, <2>1, <2>2, ConcatEmptySeq
<1>8. d \o Append(p, m) = Append(s, m)
  <2>1. d \o Append(p, m) = Append(d \o p, m)
    BY <1>5, <1>6, PendingWrite
  <2>2. QED
    BY <1>7, <2>1
<1>9. PICK t : t = Append(s, m)
  OBVIOUS
<1>10. t \in Seq(Received) /\ Len(t) \in Nat
  BY <1>6, <1>9
<1>11. SubSeq(t, 1, Len(t)) \o <<>> \o <<>> = t
  BY <1>10, SubSeqFull, ConcatEmptySeq
<1>12. sent'[c] = t /\ delivered'[c] \o Pending(c)' = t /\ ~Ended(c)'
  BY <1>1, <1>2, <1>3, <1>4, <1>8, <1>9
<1>13. Len(t) \in 0..Len(sent'[c]) /\ Len(t) = Len(sent'[c])
  BY <1>10, <1>12
<1>14. delivered'[c] \o Pending(c)' = SubSeq(sent'[c], 1, Len(t)) \o <<>> \o <<>>
  BY <1>11, <1>12
<1>15. QED
  BY <1>12, <1>13, <1>14 DEF Ordered

(* A reset leaves a shorter piece of what was sent. *)
LEMMA OrderedReset ==
    ASSUME TypeOK, NEW c \in Conns, Linked(c), owner[c] = "poll", Ordered(c), Reset(c)
    PROVE  Ordered(c)'
<1>1. PICK q \in Seq(Received) :
        /\ q = Pending(c)' /\ Len(q) \in 0..Len(Pending(c))
        /\ q = SubSeq(Pending(c), 1, Len(q))
        /\ ~reset'[c] => q = Pending(c)
  BY ResetEffect
<1>2. /\ Ended(c)' = Ended(c) /\ peerOpen[c]
      /\ delivered'[c] = delivered[c] /\ sent'[c] = sent[c]
  BY ResetEffect
<1>3. ~Ended(c) /\ ~reset[c]
  BY <1>2 DEF Linked
<1>4. PICK d, p, s : d = delivered[c] /\ p = Pending(c) /\ s = sent[c]
  OBVIOUS
<1>5. d \in Seq(Received) /\ p \in Seq(Received)
  BY <1>4, PendingParts
<1>6. s \in Seq(Received) /\ <<>> \in Seq(Received)
  BY <1>4 DEF TypeOK, Received
<1>7. d \o p = s
  <2>1. d \o p = SubSeq(s, 1, Len(s)) \o <<>> \o <<>>
    BY <1>3, <1>4 DEF Ordered
  <2>2. SubSeq(s, 1, Len(s)) = s
    BY <1>6, SubSeqFull
  <2>3. QED
    BY <1>6, <2>1, <2>2, ConcatEmptySeq
<1>8. PICK n : n = Len(d) + Len(q)
  OBVIOUS
<1>9. n \in 0..Len(s) /\ (~reset'[c] => n = Len(s))
  <2>1. Len(d \o p) = Len(d) + Len(p)
    BY <1>5, ConcatProperties
  <2>2. Len(d) \in Nat /\ Len(p) \in Nat /\ Len(q) \in 0..Len(p)
    BY <1>1, <1>4, <1>5
  <2>3. ~reset'[c] => q = p
    BY <1>1, <1>4
  <2>4. Len(s) = Len(d) + Len(p)
    BY <1>7, <2>1
  <2>5. n \in 0..Len(s)
    BY <1>8, <2>2, <2>4
  <2>6. q = p => n = Len(s)
    BY <1>8, <2>4
  <2>7. QED
    BY <2>3, <2>5, <2>6
<1>10. d \o q = SubSeq(s, 1, n)
  <2>1. PICK t, u : t = d \o q /\ u = SubSeq(s, 1, n)
    OBVIOUS
  <2>2. /\ t \in Seq(Received) /\ Len(t) = n
        /\ \A i \in 1..n : t[i] = IF i <= Len(d) THEN d[i] ELSE q[i - Len(d)]
    BY <1>1, <1>5, <1>8, <2>1, ConcatProperties
  <2>3. /\ Len(d \o p) = Len(d) + Len(p)
        /\ \A i \in 1..Len(d) + Len(p) :
              s[i] = IF i <= Len(d) THEN d[i] ELSE p[i - Len(d)]
    BY <1>5, <1>7, ConcatProperties
  <2>4. /\ u \in Seq(Received) /\ Len(u) = n
        /\ \A i \in 1..n : u[i] = s[i]
    <3>1. n \in Nat /\ \A i \in 1..n : s[i] \in Received
      BY <1>6, <1>9
    <3>2. /\ u \in Seq(Received)
          /\ Len(u) = IF 1 <= n THEN n - 1 + 1 ELSE 0
          /\ \A i \in 1..n - 1 + 1 : u[i] = s[1 + i - 1]
      BY <2>1, <3>1, SubSeqProperties
    <3>3. QED
      BY <3>1, <3>2
  <2>5. \A j \in 1..Len(q) : q[j] = p[j]
    <3>1. Len(q) \in Nat /\ \A j \in 1..Len(q) : p[j] \in Received
      BY <1>1, <1>4, <1>5
    <3>2. \A j \in 1..Len(q) - 1 + 1 : SubSeq(p, 1, Len(q))[j] = p[1 + j - 1]
      BY <3>1, SubSeqProperties
    <3>3. q = SubSeq(p, 1, Len(q))
      BY <1>1, <1>4
    <3>4. QED
      BY <3>1, <3>2, <3>3
  <2>6. Len(d) \in Nat /\ Len(q) \in Nat /\ Len(p) \in Nat /\ Len(q) <= Len(p)
    BY <1>1, <1>4, <1>5
  <2>7. ASSUME NEW i \in 1..n
        PROVE  t[i] = u[i]
    <3>1. CASE i <= Len(d)
      BY <1>8, <2>2, <2>3, <2>4, <2>6, <3>1
    <3>2. CASE ~(i <= Len(d))
      <4>1. i - Len(d) \in 1..Len(q) /\ i \in 1..Len(d) + Len(p)
        BY <1>8, <2>6, <3>2
      <4>2. t[i] = q[i - Len(d)] /\ u[i] = s[i] /\ s[i] = p[i - Len(d)]
        BY <2>2, <2>3, <2>4, <3>2, <4>1
      <4>3. q[i - Len(d)] = p[i - Len(d)]
        BY <2>5, <4>1
      <4>4. QED
        BY <4>2, <4>3
    <3>3. QED
      BY <3>1, <3>2
  <2>8. t = u
    BY <2>2, <2>4, <2>7, SeqEqual
  <2>9. QED
    BY <2>1, <2>8
<1>11. SubSeq(s, 1, n) \o <<>> \o <<>> = SubSeq(s, 1, n)
  <2>1. d \o q \in Seq(Received)
    BY <1>1, <1>5, ConcatProperties
  <2>2. QED
    BY <1>10, <2>1, ConcatEmptySeq
<1>12. delivered'[c] \o Pending(c)' = SubSeq(sent'[c], 1, n) \o <<>> \o <<>> /\ ~Ended(c)'
  BY <1>1, <1>2, <1>3, <1>4, <1>10, <1>11
<1>13. QED
  BY <1>2, <1>4, <1>9, <1>12 DEF Ordered

(* The end of the stream comes behind all that was sent, a null pointer        *)
(* behind what was not lost.                                                 *)
LEMMA OrderedReceive ==
    ASSUME TypeOK, NEW c \in Conns, Linked(c), owner[c] = "poll", Ordered(c), Receive(c)
    PROVE  Ordered(c)'
<1>1. delivered'[c] = delivered[c] /\ sent'[c] = sent[c] /\ reset'[c] = reset[c]
  BY ReceiveEffect
<1>2. PICK n \in 0..Len(sent[c]), torn \in {<<>>, <<Null>>} :
        /\ ~reset[c] => n = Len(sent[c]) /\ torn = <<>>
        /\ rpc[c] = "inside" => torn = <<>>
        /\ delivered[c] \o Pending(c)
              = SubSeq(sent[c], 1, n) \o torn
                    \o (IF Ended(c) THEN <<Closed>> ELSE <<>>)
  BY DEF Ordered
<1>3. PICK d, p, u, v : /\ d = delivered[c] /\ p = Pending(c)
                        /\ u = SubSeq(sent[c], 1, n) /\ v = u \o torn
  OBVIOUS
<1>4. d \in Seq(Received) /\ p \in Seq(Received)
  BY <1>3, PendingParts
<1>5. u \in Seq(Received) /\ torn \in Seq(Received) /\ v \in Seq(Received)
  <2>1. sent[c] \in Seq(Received)
    BY DEF TypeOK, Received
  <2>2. PICK s : s = sent[c]
    OBVIOUS
  <2>3. u \in Seq(Received)
    <3>1. s \in Seq(Received) /\ n \in 0..Len(s)
      BY <2>1, <2>2
    <3>2. n \in Int /\ \A i \in 1..n : s[i] \in Received
      BY <3>1
    <3>3. QED
      BY <1>3, <2>2, <3>1, <3>2, SubSeqProperties
  <2>4. Null \in Received
    BY DEF Received
  <2>5. torn \in Seq(Received)
    <3>1. <<>> \in Seq(Received) /\ <<Null>> \in Seq(Received)
      BY <2>4
    <3>2. torn = <<>> \/ torn = <<Null>>
      BY <1>2
    <3>3. QED
      BY <3>1, <3>2
  <2>6. QED
    BY <1>3, <2>3, <2>5, ConcatProperties
<1>6. ~Ended(c) => d \o p = v
  BY <1>2, <1>3, <1>5, ConcatEmptySeq
<1>7. ASSUME NEW m \in Received, ~Ended(c), Pending(c)' = Append(Pending(c), m)
      PROVE  delivered'[c] \o Pending(c)' = v \o <<m>>
  <2>1. d \o Append(p, m) = Append(d \o p, m)
    BY <1>4, PendingWrite
  <2>2. Append(v, m) = v \o <<m>>
    BY <1>5, AppendIsConcat
  <2>3. QED
    BY <1>1, <1>3, <1>6, <1>7, <2>1, <2>2
<1>8. CASE /\ Pending(c)' = Pending(c) /\ Ended(c)' = Ended(c)
           /\ rpc'[c] = "inside" => rpc[c] = "inside" \/ ~reset[c]
  BY <1>1, <1>8, OrderedStays
<1>9. CASE /\ ~Ended(c) /\ Ended(c)' /\ rpc'[c] # "inside"
           /\ Pending(c)' = Append(Pending(c), Closed)
  <2>1. delivered'[c] \o Pending(c)' = SubSeq(sent'[c], 1, n) \o torn \o <<Closed>>
    <3>1. Closed \in Received
      BY DEF Received
    <3>2. delivered'[c] \o Pending(c)' = v \o <<Closed>>
      BY <1>7, <1>9, <3>1
    <3>3. v = SubSeq(sent'[c], 1, n) \o torn
      BY <1>1, <1>3
    <3>4. QED
      BY <3>2, <3>3
  <2>2. QED
    BY <1>1, <1>2, <1>9, <2>1 DEF Ordered
<1>10. CASE /\ ~Ended(c) /\ Ended(c)' = Ended(c)
            /\ rpc[c] = "inside" /\ rpc'[c] # "inside"
            /\ fd[c] # "shut" => reset[c]
            /\ Pending(c)' = Append(Pending(c), Null)
  <2>1. reset[c] /\ torn = <<>>
    BY <1>2, <1>10 DEF Linked
  <2>2. v = u
    BY <1>3, <1>5, <2>1, ConcatEmptySeq
  <2>3. Null \in Received
    BY DEF Received
  <2>4. delivered'[c] \o Pending(c)' = u \o <<Null>>
    BY <1>7, <1>10, <2>2, <2>3
  <2>5. u \o <<Null>> \in Seq(Received)
    BY <1>5, <2>3, ConcatProperties
  <2>6. (u \o <<Null>>) \o <<>> = u \o <<Null>>
    BY <2>5, ConcatEmptySeq
  <2>7. delivered'[c] \o Pending(c)' = SubSeq(sent'[c], 1, n) \o <<Null>> \o <<>>
    BY <1>1, <1>3, <2>4, <2>6
  <2>8. QED
    BY <1>1, <1>2, <1>10, <2>1, <2>7 DEF Ordered
<1>11. QED
  BY <1>8, <1>9, <1>10, ReceiveEffect

(* getMsg() moves the first one over. *)
LEMMA OrderedGetMsg ==
    ASSUME TypeOK, NEW c \in Conns, Linked(c), Ordered(c), GetMsg(c)
    PROVE  Ordered(c)'
<1>1. PICK d, p : d = delivered[c] /\ p = Pending(c)
  OBVIOUS
<1>2. d \in Seq(Received) /\ p \in Seq(Received)
  BY <1>1, PendingParts
<1>3. /\ p # <<>> /\ Pending(c)' = Tail(p) /\ Head(p) \in Received
      /\ delivered'[c] = Append(d, Head(p))
      /\ Ended(c)' = Ended(c) /\ sent'[c] = sent[c] /\ reset'[c] = reset[c]
      /\ rpc'[c] = rpc[c]
  BY <1>1, GetMsgEffect DEF GetMsg, TakeQueued, TypeOK
<1>4. Append(d, Head(p)) \o Tail(p) = d \o p
  <2>1. Append(d, Head(p)) = d \o <<Head(p)>>
    BY <1>2, <1>3, AppendIsConcat
  <2>2. QED
    BY <1>2, <1>3, <2>1, PendingMove
<1>5. QED
  BY <1>1, <1>3, <1>4, OrderedStays

(* A step of a connection keeps what the invariant says of it ... *)
LEMMA StepInv ==
    ASSUME TypeOK, NEW c \in Conns, Linked(c), owner[c] = "poll" => Ordered(c), Step(c)
    PROVE  Linked(c)' /\ (owner'[c] = "poll" => Ordered(c)')
<1>1. CASE Open(c) \/ SendPart(c) \/ Close(c)
  <2>1. Pending(c)' = Pending(c) /\ Ended(c)' = Ended(c) /\ Linked(c)'
    BY <1>1, OpenEffect
  <2>2. /\ owner'[c] = owner[c] /\ delivered'[c] = delivered[c]
        /\ sent'[c] = sent[c] /\ reset'[c] = reset[c]
        /\ rpc'[c] = "inside" => rpc[c] = "inside"
    BY <1>1 DEF Open, SendPart, Close, OpenSocket, PeerSendPart, PeerClose, ownVars, TypeOK,
       ConnTypeOK
  <2>3. QED
    BY <2>1, <2>2, OrderedStays
<1>2. CASE Send(c)
  BY <1>2, SendEffect, OrderedSend
<1>3. CASE Reset(c)
  BY <1>3, ResetEffect, OrderedReset
<1>4. CASE Receive(c)
  BY <1>4, ReceiveEffect, OrderedReceive
<1>5. CASE Handle(c)
  BY <1>5, HandleEffect
<1>6. CASE GetMsg(c)
  BY <1>6, GetMsgEffect, OrderedGetMsg
<1>7. CASE DrainTake(c)
  BY <1>7, DrainTakeEffect
<1>8. CASE DrainHandle(c)
  BY <1>8, DrainHandleEffect
<1>9. CASE SetHandler(c) \/ DrainDone(c) \/ Disconnect(c) \/ Destroy(c) \/ Join(c)
  BY <1>9, OwnerEffect
<1>10. QED
  BY <1>1, <1>2, <1>3, <1>4, <1>5, <1>6, <1>7, <1>8, <1>9 DEF Step, PeerStep, OwnerStep

(* ... and what it says of the others. *)
LEMMA InvStep == Inv /\ [Next]_vars => Inv'
<1> SUFFICES ASSUME Inv, [Next]_vars
             PROVE  Inv'
  OBVIOUS
<1>1. CASE UNCHANGED vars
  <2>1. UNCHANGED <<connVars, ownVars>>
    BY <1>1 DEF vars
  <2>2. TypeOK'
    BY <2>1 DEF connVars, ownVars, Inv, TypeOK, ConnTypeOK
  <2>3. ASSUME NEW d \in Conns
        PROVE  Linked(d)' /\ (owner'[d] = "poll" => Ordered(d)')
    <3>1. Linked(d) /\ (owner[d] = "poll" => Ordered(d))
      BY DEF Inv
    <3>2. Linked(d)'
      BY <2>1, <3>1 DEF connVars, ownVars, Linked, Ended
    <3>3. Pending(d)' = Pending(d) /\ Ended(d)' = Ended(d)
      BY <2>1 DEF connVars, ownVars, Pending, Ended, OwnerHand, RecvHand
    <3>4. /\ owner'[d] = owner[d] /\ delivered'[d] = delivered[d]
          /\ sent'[d] = sent[d] /\ reset'[d] = reset[d] /\ rpc'[d] = rpc[d]
      BY <2>1 DEF connVars, ownVars
    <3>5. QED
      BY <3>1, <3>2, <3>3, <3>4, OrderedStays
  <2>4. QED
    BY <2>2, <2>3 DEF Inv
<1>2. CASE Next
  <2>1. PICK c \in Conns : Step(c)
    BY <1>2, NextCases
  <2>2. TypeOK'
    BY <2>1, PeerTypes, ReceiverTypes, OwnerTypes DEF Step, Inv
  <2>3. ASSUME NEW d \in Conns
        PROVE  Linked(d)' /\ (owner'[d] = "poll" => Ordered(d)')
    <3>1. Linked(d) /\ (owner[d] = "poll" => Ordered(d))
      BY DEF Inv
    <3>2. CASE d = c
      BY <2>1, <3>1, <3>2, StepInv DEF Inv
    <3>3. CASE d # c
      <4>1. /\ Pending(d)' = Pending(d) /\ Ended(d)' = Ended(d)
            /\ Linked(d)'
        BY <2>1, <3>1, <3>3, Elsewhere DEF Inv
      <4>2. /\ owner'[d] = owner[d] /\ sent'[d] = sent[d]
            /\ delivered'[d] = delivered[d] /\ reset'[d] = reset[d]
            /\ rpc'[d] = rpc[d]
        BY <2>1, <3>3, Frame DEF Inv
      <4>3. QED
        BY <3>1, <4>1, <4>2, OrderedStays
    <3>4. QED
      BY <3>2, <3>3
  <2>4. QED
    BY <2>2, <2>3 DEF Inv
<1>3. QED
  BY <1>1, <1>2

(* The peer, the socket, the two threads and the queue keep the invariant. *)
THEOREM HandoffInvariance == Spec => []Inv
BY InitInv, InvStep, PTL DEF Spec

(* Every variable of a connection and its owner keeps its type. *)
THEOREM HandoffTypeCorrect == Spec => []TypeOK
<1>1. Inv => TypeOK
  BY DEF Inv
<1>2. QED
  BY <1>1, HandoffInvariance, PTL

(* A poller gets every message in the order the peer wrote them, and then    *)
(* the end of the stream.                                                    *)
THEOREM PollFIFOHolds == Spec => []PollFIFO
<1>1. Inv => PollFIFO
  BY DEF Inv, Ordered, PollFIFO
<1>2. QED
  BY <1>1, HandoffInvariance, PTL

-----------------------------------------------------------------------------
(* The refinement. *)

(* What the mailbox of one connection is: messages pending, whether the       *)
(* application polls, and whether the stream was lost or given up.           *)
Polling(c) == owner[c] = "poll"
Broken(c) == reset[c] \/ fd[c] = "shut"

(* The mailboxes start empty. *)
LEMMA InitRefines == Init => Box!Init
<1> SUFFICES ASSUME Init
             PROVE  Box!Init
  OBVIOUS
<1>1. ASSUME NEW c \in Conns
      PROVE  Pending(c) = <<>> /\ Ended(c) = FALSE
  <2>1. /\ fd[c] = "unset" /\ rpc[c] = "none" /\ owner[c] = "poll"
        /\ messages[c] = <<>> /\ wire[c] = <<>>
    BY <1>1 DEF Init, ConnInit
  <2>2. Ended(c) = FALSE /\ OwnerHand(c) = <<>> /\ RecvHand(c) = <<>>
    BY <2>1 DEF Ended, OwnerHand, RecvHand
  <2>3. <<>> \o <<>> = <<>>
    OBVIOUS
  <2>4. QED
    BY <2>1, <2>2, <2>3 DEF Pending
<1>2. /\ delivered = [c \in Conns |-> <<>>]
      /\ \A c \in Conns : owner[c] = "poll" /\ reset[c] = FALSE /\ fd[c] = "unset"
  BY DEF Init, ConnInit
<1>3. [c \in Conns |-> owner[c] = "poll"] = [c \in Conns |-> TRUE]
  BY <1>2
<1>4. [c \in Conns |-> reset[c] \/ fd[c] = "shut"] = [c \in Conns |-> FALSE]
  BY <1>2
<1>5. [c \in Conns |-> Pending(c)] = [c \in Conns |-> <<>>]
  BY <1>1
<1>6. [c \in Conns |-> Ended(c)] = [c \in Conns |-> FALSE]
  BY <1>1
<1>7. QED
  BY <1>2, <1>3, <1>4, <1>5, <1>6 DEF Box!Init

(* A step of a connection changes its own mailbox only. *)
LEMMA OneMailbox ==
    ASSUME TypeOK, NEW c \in Conns, Step(c)
    PROVE  /\ [d \in Conns |-> Pending(d)]'
                 = [[d \in Conns |-> Pending(d)] EXCEPT ![c] = Pending(c)']
           /\ [d \in Conns |-> Ended(d)]'
                 = [[d \in Conns |-> Ended(d)] EXCEPT ![c] = Ended(c)']
           /\ [d \in Conns |-> owner[d] = "poll"]'
                 = [[d \in Conns |-> owner[d] = "poll"] EXCEPT ![c] = owner'[c] = "poll"]
           /\ [d \in Conns |-> reset[d] \/ fd[d] = "shut"]'
                 = [[d \in Conns |-> reset[d] \/ fd[d] = "shut"]
                        EXCEPT ![c] = reset'[c] \/ fd'[c] = "shut"]
<1>1. ASSUME NEW d \in Conns, d # c
      PROVE  /\ Pending(d)' = Pending(d) /\ Ended(d)' = Ended(d)
             /\ owner'[d] = owner[d] /\ reset'[d] = reset[d] /\ fd'[d] = fd[d]
  BY <1>1, Elsewhere, Frame
<1>2. [d \in Conns |-> Pending(d)]'
        = [[d \in Conns |-> Pending(d)] EXCEPT ![c] = Pending(c)']
  BY <1>1
<1>3. [d \in Conns |-> Ended(d)]' = [[d \in Conns |-> Ended(d)] EXCEPT ![c] = Ended(c)']
  BY <1>1
<1>4. [d \in Conns |-> owner[d] = "poll"]'
        = [[d \in Conns |-> owner[d] = "poll"] EXCEPT ![c] = owner'[c] = "poll"]
  BY <1>1
<1>5. [d \in Conns |-> reset[d] \/ fd[d] = "shut"]'
        = [[d \in Conns |-> reset[d] \/ fd[d] = "shut"]
               EXCEPT ![c] = reset'[c] \/ fd'[c] = "shut"]
  BY <1>1
<1>6. QED
  BY <1>2, <1>3, <1>4, <1>5

(* A step that changes none of the parts of a mailbox. *)
LEMMA BoxStutters ==
    ASSUME TypeOK, NEW c \in Conns, Step(c),
           Pending(c)' = Pending(c), Ended(c)' = Ended(c), delivered' = delivered,
           (owner'[c] = "poll") = (owner[c] = "poll"),
           (reset'[c] \/ fd'[c] = "shut") = (reset[c] \/ fd[c] = "shut")
    PROVE  UNCHANGED Box!vars
<1>1. [d \in Conns |-> Pending(d)]' = [d \in Conns |-> Pending(d)]
  BY OneMailbox
<1>2. [d \in Conns |-> Ended(d)]' = [d \in Conns |-> Ended(d)]
  BY OneMailbox
<1>3. [d \in Conns |-> owner[d] = "poll"]' = [d \in Conns |-> owner[d] = "poll"]
  BY OneMailbox
<1>4. [d \in Conns |-> reset[d] \/ fd[d] = "shut"]'
        = [d \in Conns |-> reset[d] \/ fd[d] = "shut"]
  BY OneMailbox
<1>5. QED
  BY <1>1, <1>2, <1>3, <1>4 DEF Box!vars

(* Both ways of giving a message to a handler are Handle. *)
LEMMA HandleRefines ==
    ASSUME TypeOK, NEW c \in Conns, Step(c),
           \E i \in 1..Len(Pending(c)) :
              /\ delivered' = [delivered EXCEPT ![c] = Append(@, Pending(c)[i])]
              /\ Pending(c)' = RemoveAt(Pending(c), i),
           owner[c] # "poll", owner'[c] # "poll", Ended(c)' = Ended(c),
           UNCHANGED <<fd, reset>>
    PROVE  Box!Handle(c)
<1>1. PICK i \in 1..Len(Pending(c)) :
        /\ delivered' = [delivered EXCEPT ![c] = Append(@, Pending(c)[i])]
        /\ Pending(c)' = RemoveAt(Pending(c), i)
  OBVIOUS
<1>2. /\ i \in 1..Len([d \in Conns |-> Pending(d)][c])
      /\ delivered' = [delivered EXCEPT ![c] = Append(@, [d \in Conns |-> Pending(d)][c][i])]
  BY <1>1
<1>3. [d \in Conns |-> Pending(d)]'
        = [[d \in Conns |-> Pending(d)] EXCEPT ![c] = RemoveAt(@, i)]
  BY <1>1, OneMailbox
<1>4. [d \in Conns |-> Ended(d)]' = [d \in Conns |-> Ended(d)]
  BY OneMailbox
<1>5. [d \in Conns |-> owner[d] = "poll"]' = [d \in Conns |-> owner[d] = "poll"]
  BY OneMailbox
<1>6. [d \in Conns |-> reset[d] \/ fd[d] = "shut"]'
        = [d \in Conns |-> reset[d] \/ fd[d] = "shut"]
  OBVIOUS
<1>7. ~[d \in Conns |-> owner[d] = "poll"][c]
  OBVIOUS
<1>8. ASSUME NEW q
      PROVE  Box!RemoveAt(q, i) = RemoveAt(q, i)
  BY DEF Box!RemoveAt, RemoveAt
<1>9. [d \in Conns |-> Pending(d)]'
        = [[d \in Conns |-> Pending(d)] EXCEPT ![c] = Box!RemoveAt(@, i)]
  BY <1>3, <1>8
<1>10. QED
  BY <1>2, <1>4, <1>5, <1>6, <1>7, <1>9 DEF Box!Handle

(* The steps of the peer are Write, Break or none. *)
LEMMA PeerRefines ==
    ASSUME TypeOK, NEW c \in Conns, Linked(c), PeerStep(c)
    PROVE  [Box!Next]_(Box!vars)
<1>1. Step(c)
  BY DEF Step
<1>2. CASE Open(c) \/ SendPart(c) \/ Close(c)
  <2>1. /\ owner' = owner /\ reset' = reset /\ delivered' = delivered
        /\ fd'[c] = "shut" <=> fd[c] = "shut"
    BY <1>2 DEF Open, SendPart, Close, ownVars, OpenSocket, PeerSendPart, PeerClose, TypeOK,
       ConnTypeOK
  <2>2. UNCHANGED Box!vars
    BY <1>1, <1>2, <2>1, OpenEffect, BoxStutters
  <2>3. QED
    BY <2>2
<1>3. CASE Send(c)
  <2>1. PICK m \in Msgs \cup {Null} :
          Pending(c)' = IF Gone(c) THEN Pending(c) ELSE Append(Pending(c), m)
    BY <1>3, SendEffect
  <2>2. /\ owner' = owner /\ reset' = reset /\ delivered' = delivered
        /\ fd' = fd /\ Ended(c)' = Ended(c)
    BY <1>3, SendEffect DEF Send, PeerSend
  <2>3. CASE Gone(c)
    <3>1. UNCHANGED Box!vars
      BY <1>1, <2>1, <2>2, <2>3, BoxStutters
    <3>2. QED
      BY <3>1
  <2>4. CASE ~Gone(c)
    <3>1. [d \in Conns |-> Pending(d)]'
            = [[d \in Conns |-> Pending(d)] EXCEPT ![c] = Append(@, m)]
      BY <1>1, <2>1, <2>4, OneMailbox
    <3>2. [d \in Conns |-> Ended(d)]' = [d \in Conns |-> Ended(d)]
      BY <1>1, <2>2, OneMailbox
    <3>3. /\ [d \in Conns |-> owner[d] = "poll"]' = [d \in Conns |-> owner[d] = "poll"]
          /\ [d \in Conns |-> reset[d] \/ fd[d] = "shut"]'
               = [d \in Conns |-> reset[d] \/ fd[d] = "shut"]
      BY <2>2
    <3>4. Box!Write(c, m)
      BY <2>2, <2>4, <3>1, <3>2, <3>3 DEF Box!Write, Gone
    <3>5. QED
      BY <3>4 DEF Box!Next
  <2>5. QED
    BY <2>3, <2>4
<1>4. CASE Reset(c)
  <2>1. /\ Len(Pending(c)') \in 0..Len(Pending(c))
        /\ Pending(c)' = SubSeq(Pending(c), 1, Len(Pending(c)'))
        /\ ~reset'[c] \/ Ended(c) => Pending(c)' = Pending(c)
    BY <1>4, ResetEffect DEF Gone
  <2>2. /\ owner' = owner /\ delivered' = delivered
        /\ fd' = fd /\ Ended(c)' = Ended(c) /\ ~reset[c]
    BY <1>4, ResetEffect DEF Linked
  <2>3. CASE ~reset'[c]
    <3>1. (reset'[c] \/ fd'[c] = "shut") = (reset[c] \/ fd[c] = "shut")
      BY <2>2, <2>3
    <3>2. UNCHANGED Box!vars
      BY <1>1, <2>1, <2>2, <2>3, <3>1, BoxStutters
    <3>3. QED
      BY <3>2
  <2>4. CASE reset'[c]
    <3>1. PICK n : n = Len(Pending(c)')
      OBVIOUS
    <3>2. /\ n \in 0..Len([d \in Conns |-> Pending(d)][c])
          /\ [d \in Conns |-> Ended(d)][c] => n = Len([d \in Conns |-> Pending(d)][c])
      BY <2>1, <3>1
    <3>3. [d \in Conns |-> Pending(d)]'
            = [[d \in Conns |-> Pending(d)] EXCEPT ![c] = SubSeq(@, 1, n)]
      BY <1>1, <2>1, <3>1, OneMailbox
    <3>4. [d \in Conns |-> Ended(d)]' = [d \in Conns |-> Ended(d)]
      BY <1>1, <2>2, OneMailbox
    <3>5. [d \in Conns |-> owner[d] = "poll"]' = [d \in Conns |-> owner[d] = "poll"]
      BY <2>2
    <3>6. [d \in Conns |-> reset[d] \/ fd[d] = "shut"]'
            = [[d \in Conns |-> reset[d] \/ fd[d] = "shut"] EXCEPT ![c] = TRUE]
      BY <1>1, <2>4, OneMailbox
    <3>7. Box!Break(c)
      BY <2>2, <3>2, <3>3, <3>4, <3>5, <3>6 DEF Box!Break, Box!Lose
    <3>8. QED
      BY <3>7 DEF Box!Next
  <2>5. QED
    BY <2>3, <2>4
<1>5. QED
  BY <1>2, <1>3, <1>4 DEF PeerStep

(* The receive thread's are End, Handle or none. *)
LEMMA ReceiverRefines ==
    ASSUME TypeOK, NEW c \in Conns, Linked(c), Receive(c) \/ Handle(c)
    PROVE  [Box!Next]_(Box!vars)
<1>1. Step(c)
  BY DEF Step
<1>2. CASE Receive(c)
  <2>1. UNCHANGED <<fd, owner, sent, delivered, reset>>
    BY <1>2, ReceiveEffect
  <2>2. CASE Pending(c)' = Pending(c) /\ Ended(c)' = Ended(c)
    <3>1. UNCHANGED Box!vars
      BY <1>1, <2>1, <2>2, BoxStutters
    <3>2. QED
      BY <3>1
  <2>3. /\ [d \in Conns |-> owner[d] = "poll"]' = [d \in Conns |-> owner[d] = "poll"]
        /\ [d \in Conns |-> reset[d] \/ fd[d] = "shut"]'
             = [d \in Conns |-> reset[d] \/ fd[d] = "shut"]
    BY <2>1
  <2>4. CASE ~Ended(c) /\ Ended(c)' /\ Pending(c)' = Append(Pending(c), Closed)
    <3>1. [d \in Conns |-> Pending(d)]'
            = [[d \in Conns |-> Pending(d)] EXCEPT ![c] = Append(@, Closed)]
      BY <1>1, <2>4, OneMailbox
    <3>2. [d \in Conns |-> Ended(d)]' = [[d \in Conns |-> Ended(d)] EXCEPT ![c] = TRUE]
      <4>1. Ended(c)' = TRUE
        BY <2>4 DEF Ended
      <4>2. QED
        BY <1>1, <4>1, OneMailbox
    <3>3. Box!End(c)
      BY <2>1, <2>3, <2>4, <3>1, <3>2 DEF Box!End
    <3>4. QED
      BY <3>3 DEF Box!Next
  <2>5. CASE ~Ended(c) /\ Ended(c)' = Ended(c) /\ Pending(c)' = Append(Pending(c), Null)
    <3>1. [d \in Conns |-> Pending(d)]'
            = [[d \in Conns |-> Pending(d)] EXCEPT ![c] = Append(@, Null)]
      BY <1>1, <2>5, OneMailbox
    <3>2. [d \in Conns |-> Ended(d)]' = [d \in Conns |-> Ended(d)]
      BY <1>1, <2>5, OneMailbox
    <3>3. Box!Write(c, Null)
      BY <2>1, <2>3, <2>5, <3>1, <3>2 DEF Box!Write
    <3>4. QED
      BY <3>3 DEF Box!Next
  <2>6. QED
    BY <1>2, <2>2, <2>4, <2>5, ReceiveEffect
<1>3. CASE Handle(c)
  <2>1. /\ \E i \in 1..Len(Pending(c)) :
              /\ delivered' = [delivered EXCEPT ![c] = Append(@, Pending(c)[i])]
              /\ Pending(c)' = RemoveAt(Pending(c), i)
        /\ owner[c] # "poll" /\ Ended(c)' = Ended(c)
        /\ UNCHANGED <<fd, owner, sent, reset>>
    BY <1>3, HandleEffect
  <2>2. Box!Handle(c)
    BY <1>1, <2>1, HandleRefines
  <2>3. QED
    BY <2>2 DEF Box!Next
<1>4. QED
  BY <1>2, <1>3

(* The application's are Poll, Attach, Handle, HangUp or none. *)
LEMMA OwnerRefines ==
    ASSUME TypeOK, NEW c \in Conns, Linked(c), OwnerStep(c)
    PROVE  [Box!Next]_(Box!vars)
<1>1. Step(c)
  BY DEF Step
<1>2. CASE GetMsg(c)
  <2>1. /\ owner[c] = "poll" /\ Pending(c) # <<>>
        /\ delivered' = [delivered EXCEPT ![c] = Append(@, Head(Pending(c)))]
        /\ Pending(c)' = Tail(Pending(c)) /\ Ended(c)' = Ended(c)
        /\ UNCHANGED <<fd, owner, sent, reset>>
    BY <1>2, GetMsgEffect
  <2>2. /\ [d \in Conns |-> owner[d] = "poll"][c]
        /\ [d \in Conns |-> Pending(d)][c] # <<>>
        /\ delivered'
             = [delivered EXCEPT ![c] = Append(@, Head([d \in Conns |-> Pending(d)][c]))]
    BY <2>1
  <2>3. [d \in Conns |-> Pending(d)]'
          = [[d \in Conns |-> Pending(d)] EXCEPT ![c] = Tail(@)]
    BY <1>1, <2>1, OneMailbox
  <2>4. [d \in Conns |-> Ended(d)]' = [d \in Conns |-> Ended(d)]
    BY <1>1, <2>1, OneMailbox
  <2>5. /\ [d \in Conns |-> owner[d] = "poll"]' = [d \in Conns |-> owner[d] = "poll"]
        /\ [d \in Conns |-> reset[d] \/ fd[d] = "shut"]'
             = [d \in Conns |-> reset[d] \/ fd[d] = "shut"]
    BY <2>1
  <2>6. Box!Poll(c)
    BY <2>2, <2>3, <2>4, <2>5 DEF Box!Poll
  <2>7. QED
    BY <2>6 DEF Box!Next
<1>3. CASE DrainTake(c)
  <2>1. UNCHANGED Box!vars
    BY <1>1, <1>3, DrainTakeEffect, BoxStutters
  <2>2. QED
    BY <2>1
<1>4. CASE DrainHandle(c)
  <2>1. Box!Handle(c)
    BY <1>1, <1>4, DrainHandleEffect, HandleRefines
  <2>2. QED
    BY <2>1 DEF Box!Next
<1>5. CASE SetHandler(c) \/ DrainDone(c) \/ Disconnect(c) \/ Destroy(c) \/ Join(c)
  <2>1. /\ Len(Pending(c)') \in 0..Len(Pending(c))
        /\ Pending(c)' = SubSeq(Pending(c), 1, Len(Pending(c)'))
        /\ fd' = fd \/ Ended(c) => Pending(c)' = Pending(c)
        /\ Ended(c)' = Ended(c) /\ owner'[c] # "poll"
        /\ fd' = fd \/ fd' = [fd EXCEPT ![c] = "shut"]
        /\ UNCHANGED <<sent, delivered, reset>>
    BY <1>5, OwnerEffect
  <2>2. [d \in Conns |-> Ended(d)]' = [d \in Conns |-> Ended(d)]
    BY <1>1, <2>1, OneMailbox
  <2>3. [d \in Conns |-> owner[d] = "poll"]'
          = [[d \in Conns |-> owner[d] = "poll"] EXCEPT ![c] = FALSE]
    BY <1>1, <2>1, OneMailbox
  <2>4. CASE fd' = fd
    <3>1. [d \in Conns |-> reset[d] \/ fd[d] = "shut"]'
            = [d \in Conns |-> reset[d] \/ fd[d] = "shut"]
      BY <2>1, <2>4
    <3>2. [d \in Conns |-> Pending(d)]' = [d \in Conns |-> Pending(d)]
      <4>1. Pending(c)' = Pending(c)
        BY <2>1, <2>4
      <4>2. QED
        BY <1>1, <4>1, OneMailbox
    <3>3. Box!Attach(c)
      BY <2>1, <2>2, <2>3, <3>1, <3>2 DEF Box!Attach
    <3>4. QED
      BY <3>3 DEF Box!Next
  <2>5. CASE fd' = [fd EXCEPT ![c] = "shut"]
    <3>1. fd'[c] = "shut"
      BY <2>5 DEF TypeOK, ConnTypeOK
    <3>2. [d \in Conns |-> reset[d] \/ fd[d] = "shut"]'
            = [[d \in Conns |-> reset[d] \/ fd[d] = "shut"] EXCEPT ![c] = TRUE]
      BY <1>1, <3>1, OneMailbox
    <3>3. PICK n : n = Len(Pending(c)')
      OBVIOUS
    <3>4. /\ n \in 0..Len([d \in Conns |-> Pending(d)][c])
          /\ [d \in Conns |-> Ended(d)][c] => n = Len([d \in Conns |-> Pending(d)][c])
      BY <2>1, <3>3
    <3>5. [d \in Conns |-> Pending(d)]'
            = [[d \in Conns |-> Pending(d)] EXCEPT ![c] = SubSeq(@, 1, n)]
      BY <1>1, <2>1, <3>3, OneMailbox
    <3>6. Box!HangUp(c)
      BY <2>1, <2>2, <2>3, <3>2, <3>4, <3>5 DEF Box!HangUp, Box!Lose
    <3>7. QED
      BY <3>6 DEF Box!Next
  <2>6. QED
    BY <2>1, <2>4, <2>5
<1>6. QED
  BY <1>2, <1>3, <1>4, <1>5 DEF OwnerStep

(* Every step of the connection is a step of the mailbox or leaves it alone. *)
LEMMA StepRefines == Inv /\ [Next]_vars => [Box!Next]_(Box!vars)
<1> SUFFICES ASSUME Inv, [Next]_vars
             PROVE  [Box!Next]_(Box!vars)
  OBVIOUS
<1>1. CASE Next
  <2>1. PICK c \in Conns : Step(c)
    BY <1>1, NextCases
  <2>2. TypeOK /\ Linked(c)
    BY DEF Inv
  <2>3. QED
    BY <2>1, <2>2, PeerRefines, ReceiverRefines, OwnerRefines DEF Step
<1>2. CASE UNCHANGED vars
  <2>1. \A d \in Conns : Pending(d)' = Pending(d) /\ Ended(d)' = Ended(d)
    BY <1>2 DEF vars, connVars, ownVars, Pending, Ended, OwnerHand, RecvHand
  <2>2. UNCHANGED <<delivered, owner, reset, fd>>
    BY <1>2 DEF vars, connVars, ownVars
  <2>3. /\ [d \in Conns |-> Pending(d)]' = [d \in Conns |-> Pending(d)]
        /\ [d \in Conns |-> Ended(d)]' = [d \in Conns |-> Ended(d)]
    BY <2>1
  <2>4. UNCHANGED Box!vars
    BY <2>2, <2>3 DEF Box!vars
  <2>5. QED
    BY <2>4
<1>3. QED
  BY <1>1, <1>2

(* Queue, socket and both threads together are one mailbox: whatever steps   *)
(* they take, the application gets each message once, in order as long as it *)
(* polls, and only a lost stream loses any.                                  *)
THEOREM HandoffImplementsMailbox == Spec => ImplementsMailbox
<1>1. Spec => Box!Init /\ [][Box!Next]_(Box!vars)
  BY InitRefines, StepRefines, HandoffInvariance, PTL DEF Spec
<1>2. QED
  BY <1>1 DEF ImplementsMailbox, Box!Spec

-----------------------------------------------------------------------------
(* Exactly once. *)

(* What is in one place at a time: a message of a connection, and its end.    *)
(* The numbers sent are below the next, the end is only there when the loop   *)
(* of the receive thread is over, and a connection without a socket has      *)
(* nothing.                                                                  *)
Single(c) ==
    /\ Apart(Line(c), Received \ {Null})
    /\ Range(Line(c)) \subseteq Range(sent[c]) \cup {Null, Closed}
    /\ ~reset[c] => Range(sent[c]) \subseteq Range(Line(c)) \cup {Null}
    /\ \A m \in Range(sent[c]) : m = Null \/ m < NextNumber(c)
    /\ Closed \in Range(Line(c)) => ~run[c]
    /\ fd[c] = "unset" => Line(c) = <<>>

OnceInv == Inv /\ \A c \in Conns : Single(c)

(* Function t has the values of u and one more, at n: f leads from the places *)
(* of u to the others of t.                                                  *)
Widens(u, t, n, f) ==
    /\ n \in DOMAIN t
    /\ \A i \in DOMAIN u : f[i] \in DOMAIN t /\ f[i] # n /\ t[f[i]] = u[i]
    /\ \A i, j \in DOMAIN u : f[i] = f[j] => i = j
    /\ \A j \in DOMAIN t : j # n => \E i \in DOMAIN u : f[i] = j

LEMMA OneMore ==
    ASSUME NEW T, NEW u, NEW t, NEW n, NEW f, Widens(u, t, n, f)
    PROVE  /\ Apart(t, T) <=> Apart(u, T) /\ (t[n] \in T => t[n] \notin Range(u))
           /\ Range(t) = Range(u) \cup {t[n]}
<1> DEFINE D == DOMAIN u
           E == DOMAIN t
<1>1. /\ DOMAIN u = D /\ DOMAIN t = E /\ n \in E
      /\ \A i \in D : f[i] \in E /\ f[i] # n /\ t[f[i]] = u[i]
      /\ \A i, j \in D : f[i] = f[j] => i = j
      /\ \A j \in E : j # n => \E i \in D : f[i] = j
  BY DEF Widens
<1> HIDE DEF D, E
<1> USE <1>1
<1>2. \A j \in E : j # n => t[j] \in Range(u)
  BY DEF Range
<1>3. Range(t) = Range(u) \cup {t[n]}
  <2>1. \A j \in E : t[j] \in Range(u) \cup {t[n]}
    BY <1>2
  <2>2. \A i \in D : u[i] \in Range(t)
    BY DEF Range
  <2>3. QED
    BY <2>1, <2>2 DEF Range
<1>4. ASSUME Apart(t, T)
      PROVE  Apart(u, T) /\ (t[n] \in T => t[n] \notin Range(u))
  <2>1. \A i, j \in D : u[i] = u[j] /\ u[i] \in T => f[i] = f[j]
    BY <1>4 DEF Apart
  <2>2. ASSUME t[n] \in T, NEW i \in D, u[i] = t[n]
        PROVE  FALSE
    <3>1. f[i] \in E /\ f[i] # n /\ t[f[i]] = t[n]
      BY <2>2
    <3>2. QED
      BY <1>4, <2>2, <3>1 DEF Apart
  <2>3. QED
    BY <2>1, <2>2 DEF Apart, Range
<1>5. ASSUME Apart(u, T), t[n] \in T => t[n] \notin Range(u)
      PROVE  Apart(t, T)
  <2>1. SUFFICES ASSUME NEW i \in E, NEW j \in E, t[i] = t[j], t[i] \in T
                 PROVE  i = j
    BY DEF Apart
  <2>2. CASE i = n \/ j = n
    BY <1>2, <1>5, <2>1, <2>2
  <2>3. CASE i # n /\ j # n
    <3>1. PICK a \in D : f[a] = i
      BY <2>3
    <3>2. PICK b \in D : f[b] = j
      BY <2>3
    <3>3. u[a] = u[b] /\ u[a] \in T
      BY <2>1, <3>1, <3>2
    <3>4. a = b
      BY <1>5, <3>3 DEF Apart
    <3>5. QED
      BY <3>1, <3>2, <3>4
  <2>4. QED
    BY <2>2, <2>3
<1>6. QED
  BY <1>3, <1>4, <1>5

(* Sequence t is u with x put in between. *)
Inserts(t, u, x) ==
    \E p, r \in Seq(Received) : x \in Received /\ u = p \o r /\ t = p \o <<x>> \o r

(* A message put in between adds itself, and nothing else. *)
LEMMA Inserted ==
    ASSUME NEW t, NEW u, NEW x, NEW T, Inserts(t, u, x)
    PROVE  /\ Apart(t, T) <=> Apart(u, T) /\ (x \in T => x \notin Range(u))
           /\ Range(t) = Range(u) \cup {x}
<1>1. PICK S, p, r : /\ S = Received /\ p \in Seq(S) /\ r \in Seq(S) /\ x \in S
                     /\ u = p \o r /\ t = p \o <<x>> \o r
  BY DEF Inserts
<1>2. PICK n, k : n = Len(p) + 1 /\ k = Len(p) + Len(r)
  OBVIOUS
<1>3. n \in Nat /\ k \in Nat /\ n \in 1..k + 1 /\ <<x>> \in Seq(S)
  BY <1>1, <1>2
<1>4. /\ DOMAIN u = 1..k
      /\ \A i \in 1..k : u[i] = IF i < n THEN p[i] ELSE r[i - Len(p)]
  BY <1>1, <1>2, ConcatProperties
<1>5. PICK v : v = p \o <<x>>
  OBVIOUS
<1>6. v \in Seq(S) /\ Len(v) = n /\ v[n] = x /\ \A i \in 1..n : i < n => v[i] = p[i]
  BY <1>1, <1>2, <1>3, <1>5, ConcatProperties
<1>7. /\ DOMAIN t = 1..k + 1
      /\ \A i \in 1..k + 1 : t[i] = IF i <= n THEN v[i] ELSE r[i - n]
  BY <1>1, <1>2, <1>5, <1>6, ConcatProperties
<1>8. PICK f : f = [i \in 1..k |-> IF i < n THEN i ELSE i + 1]
  OBVIOUS
<1>9. /\ \A i \in 1..k : f[i] \in 1..k + 1 /\ f[i] # n
      /\ \A i, j \in 1..k : f[i] = f[j] => i = j
  BY <1>3, <1>8
<1>10. \A j \in 1..k + 1 : j # n => \E i \in 1..k : f[i] = j
  <2>1. ASSUME NEW j \in 1..k + 1, j # n
        PROVE  \E i \in 1..k : f[i] = j
    <3>1. CASE j < n
      <4>1. j \in 1..k /\ f[j] = j
        BY <1>3, <1>8, <3>1
      <4>2. QED
        BY <4>1
    <3>2. CASE ~(j < n)
      <4>1. j - 1 \in 1..k /\ f[j - 1] = j
        BY <1>3, <1>8, <2>1, <3>2
      <4>2. QED
        BY <4>1
    <3>3. QED
      BY <3>1, <3>2
  <2>2. QED
    BY <2>1
<1>11. ASSUME NEW i \in 1..k
       PROVE  t[f[i]] = u[i]
  <2>1. CASE i < n
    <3>1. f[i] = i /\ i \in 1..k + 1 /\ i \in 1..n
      BY <1>3, <1>8, <2>1
    <3>2. QED
      BY <1>3, <1>4, <1>6, <1>7, <2>1, <3>1
  <2>2. CASE ~(i < n)
    <3>1. PICK j : j = i + 1
      OBVIOUS
    <3>2. f[i] = j /\ j \in 1..k + 1 /\ ~(j <= n) /\ j - n = i - Len(p)
      BY <1>1, <1>2, <1>3, <1>8, <2>2, <3>1
    <3>3. t[j] = r[j - n]
      BY <1>7, <3>2
    <3>4. QED
      BY <1>4, <2>2, <3>2, <3>3
  <2>3. QED
    BY <2>1, <2>2
<1>12. t[n] = x
  BY <1>3, <1>6, <1>7
<1>13. Widens(u, t, n, f)
  BY <1>3, <1>4, <1>7, <1>9, <1>10, <1>11 DEF Widens
<1>14. QED
  BY <1>12, <1>13, OneMore

(* The places of a line, and what they make together. *)
LEMMA LineParts ==
    ASSUME TypeOK, NEW c \in Conns
    PROVE  /\ delivered[c] \in Seq(Received) /\ OwnerHand(c) \in Seq(Received)
           /\ messages[c] \in Seq(Received) /\ RecvHand(c) \in Seq(Received)
           /\ wire[c] \in Seq(Received)
           /\ delivered[c] \o OwnerHand(c) \in Seq(Received)
           /\ delivered[c] \o OwnerHand(c) \o messages[c] \in Seq(Received)
           /\ Read(c) \in Seq(Received) /\ Line(c) \in Seq(Received)
<1>1. /\ delivered[c] \in Seq(Received) /\ OwnerHand(c) \in Seq(Received)
      /\ messages[c] \in Seq(Received) /\ RecvHand(c) \in Seq(Received)
      /\ wire[c] \in Seq(Received)
  BY PendingParts
<1>2. delivered[c] \o OwnerHand(c) \in Seq(Received)
  BY <1>1, ConcatProperties
<1>3. delivered[c] \o OwnerHand(c) \o messages[c] \in Seq(Received)
  BY <1>1, <1>2, ConcatProperties
<1>4. Read(c) \in Seq(Received)
  BY <1>1, <1>3, ConcatProperties DEF Read
<1>5. Line(c) \in Seq(Received)
  BY <1>1, <1>4, ConcatProperties DEF Line
<1>6. QED
  BY <1>1, <1>2, <1>3, <1>4, <1>5

(* The thread that reads moves a message along, ... *)
LEMMA LineReceive ==
    ASSUME TypeOK, NEW c \in Conns,
           ReceivePart(c) \/ ReceiveMessage(c) \/ TestHandler(c) \/ PushMessage(c),
           UNCHANGED ownVars
    PROVE  Line(c)' = Line(c)
<1>1. PICK p, w, h, m : /\ p = delivered[c] \o OwnerHand(c) /\ m = messages[c]
                        /\ h = RecvHand(c) /\ w = wire[c]
  OBVIOUS
<1>2. /\ p \in Seq(Received) /\ m \in Seq(Received) /\ w \in Seq(Received)
      /\ p \o m \in Seq(Received)
  BY <1>1, LineParts
<1>3. Line(c) = p \o m \o h \o w
  BY <1>1 DEF Line, Read
<1>4. (delivered[c] \o OwnerHand(c))' = p
  BY <1>1 DEF ownVars, OwnerHand
<1>5. CASE ReceiveMessage(c)
  <2>1. /\ w # <<>> /\ h = <<>> /\ RecvHand(c)' = <<Head(w)>>
        /\ messages'[c] = m /\ wire'[c] = Tail(w)
    BY <1>1, <1>5 DEF ReceiveMessage, RecvHand, TypeOK, ConnTypeOK
  <2>2. Line(c)' = p \o m \o <<Head(w)>> \o Tail(w)
    BY <1>4, <2>1 DEF Line, Read
  <2>3. (p \o m) \o <<Head(w)>> \o Tail(w) = (p \o m) \o w
    BY <1>2, <2>1, PendingMove
  <2>4. (p \o m) \o <<>> = p \o m
    BY <1>2, ConcatEmptySeq
  <2>5. QED
    BY <1>3, <2>1, <2>2, <2>3, <2>4
<1>6. CASE ReceivePart(c) \/ TestHandler(c)
  <2>1. RecvHand(c)' = h /\ messages'[c] = m /\ wire'[c] = w
    BY <1>1, <1>6 DEF ReceivePart, TestHandler, RecvHand, TypeOK, ConnTypeOK
  <2>2. QED
    BY <1>3, <1>4, <2>1 DEF Line, Read
<1>7. CASE PushMessage(c)
  <2>1. PICK e \in Received : e = rmsg[c]
    BY DEF TypeOK, ConnTypeOK
  <2>2. /\ h = <<e>> /\ RecvHand(c)' = <<>>
        /\ messages'[c] = Append(m, e) /\ wire'[c] = w
    BY <1>1, <1>7, <2>1 DEF PushMessage, NextRound, RecvHand, TypeOK, ConnTypeOK
  <2>3. Line(c)' = p \o Append(m, e) \o <<>> \o w
    BY <1>4, <2>2 DEF Line, Read
  <2>4. p \o Append(m, e) = Append(p \o m, e)
    BY <1>2, PendingWrite
  <2>5. Append(p \o m, e) = (p \o m) \o <<e>> /\ (p \o m) \o <<e>> \in Seq(Received)
    BY <1>2, AppendIsConcat, ConcatProperties
  <2>6. ((p \o m) \o <<e>>) \o <<>> = (p \o m) \o <<e>>
    BY <2>5, ConcatEmptySeq
  <2>7. QED
    BY <1>3, <2>2, <2>3, <2>4, <2>5, <2>6
<1>8. QED
  BY <1>5, <1>6, <1>7

(* ... and so does the application's. *)
LEMMA LineOwner ==
    ASSUME TypeOK, NEW c \in Conns, GetMsg(c) \/ DrainTake(c) \/ DrainHandle(c)
    PROVE  Line(c)' = Line(c)
<1>1. PICK d, o, m : d = delivered[c] /\ o = OwnerHand(c) /\ m = messages[c]
  OBVIOUS
<1>2. d \in Seq(Received) /\ o \in Seq(Received) /\ m \in Seq(Received)
  BY <1>1, LineParts
<1>3. UNCHANGED <<wire, rpc, rmsg>>
  BY DEF GetMsg, DrainTake, DrainHandle, TakeQueued, connVars
<1>4. SUFFICES delivered'[c] \o OwnerHand(c)' \o messages'[c] = d \o o \o m
  BY <1>1, <1>3 DEF Line, Read, RecvHand
<1>5. m # <<>> => d \o <<Head(m)>> \o Tail(m) = d \o m /\ Head(m) \in Received
  BY <1>2, PendingMove, HeadTailProperties
<1>6. d \o <<>> = d
  BY <1>2, ConcatEmptySeq
<1>7. CASE GetMsg(c)
  <2>1. /\ m # <<>> /\ o = <<>> /\ OwnerHand(c)' = <<>> /\ messages'[c] = Tail(m)
        /\ delivered'[c] = Append(d, Head(m))
    BY <1>1, <1>7 DEF GetMsg, TakeQueued, Deliver, OwnerHand, TypeOK, ConnTypeOK
  <2>2. Append(d, Head(m)) = d \o <<Head(m)>> /\ d \o <<Head(m)>> \in Seq(Received)
    BY <1>2, <1>5, <2>1, AppendIsConcat, ConcatProperties
  <2>3. (d \o <<Head(m)>>) \o <<>> = d \o <<Head(m)>>
    BY <2>2, ConcatEmptySeq
  <2>4. QED
    BY <1>5, <1>6, <2>1, <2>2, <2>3
<1>8. CASE DrainTake(c)
  <2>1. /\ m # <<>> /\ o = <<>> /\ OwnerHand(c)' = <<Head(m)>> /\ messages'[c] = Tail(m)
        /\ delivered'[c] = d
    BY <1>1, <1>8 DEF DrainTake, TakeQueued, OwnerHand, TypeOK, ConnTypeOK
  <2>2. QED
    BY <1>5, <1>6, <2>1
<1>9. CASE DrainHandle(c)
  <2>1. PICK e \in Received : e = omsg[c]
    BY DEF TypeOK
  <2>2. /\ o = <<e>> /\ OwnerHand(c)' = <<>> /\ messages'[c] = m
        /\ delivered'[c] = Append(d, e)
    BY <1>1, <1>9, <2>1 DEF DrainHandle, Deliver, OwnerHand, connVars, TypeOK
  <2>3. Append(d, e) = d \o <<e>> /\ d \o <<e>> \in Seq(Received)
    BY <1>2, AppendIsConcat, ConcatProperties
  <2>4. (d \o <<e>>) \o <<>> = d \o <<e>>
    BY <2>3, ConcatEmptySeq
  <2>5. QED
    BY <2>2, <2>3, <2>4
<1>10. QED
  BY <1>7, <1>8, <1>9

(* A step that moves messages along at most. *)
LEMMA SingleStays ==
    ASSUME NEW c \in Conns, Single(c), Line(c)' = Line(c),
           sent'[c] = sent[c], reset[c] => reset'[c],
           run'[c] => run[c] \/ fd[c] = "unset", fd'[c] = "unset" => fd[c] = "unset"
    PROVE  Single(c)'
<1>1. NextNumber(c)' = NextNumber(c)
  BY DEF NextNumber
<1>2. fd[c] = "unset" => Closed \notin Range(Line(c))
  BY DEF Single, Range
<1>3. QED
  BY <1>1, <1>2 DEF Single

(* The next number goes up with every message that has one. *)
LEMMA NextNumberSteps ==
    ASSUME TypeOK, NEW c \in Conns, NEW m \in Msgs \cup {Null},
           sent'[c] = Append(sent[c], m)
    PROVE  /\ NextNumber(c) \in Nat
           /\ NextNumber(c)' = IF m = Null THEN NextNumber(c) ELSE NextNumber(c) + 1
           /\ Range(sent[c])' = Range(sent[c]) \cup {m}
<1>1. PICK s, t, n : s = sent[c] /\ t = Append(s, m) /\ n = Len(s) + 1
  OBVIOUS
<1>2. s \in Seq(Msgs \cup {Null})
  BY <1>1 DEF TypeOK
<1>3. /\ n \in Nat /\ DOMAIN s = 1..n - 1 /\ DOMAIN t = 1..n
      /\ t[n] = m /\ \A i \in 1..n - 1 : t[i] = s[i]
  BY <1>1, <1>2
<1>4. PICK A, B : /\ A = {i \in DOMAIN s : s[i] # Null}
                  /\ B = {i \in DOMAIN t : t[i] # Null}
  OBVIOUS
<1>5. n \notin A /\ B = IF m = Null THEN A ELSE A \cup {n}
  <2>1. n \notin A /\ A \subseteq 1..n - 1 /\ \A i \in 1..n : i = n \/ i \in 1..n - 1
    BY <1>3, <1>4
  <2>2. \A i \in 1..n - 1 : i \in 1..n /\ i # n
    BY <1>3
  <2>3. \A i \in 1..n - 1 : i \in B <=> i \in A
    BY <1>3, <1>4, <2>2
  <2>4. n \in B <=> m # Null
    BY <1>1, <1>2, <1>3, <1>4
  <2>5. B \subseteq 1..n
    BY <1>3, <1>4
  <2>6. CASE m = Null
    <3>1. B \subseteq A
      BY <2>1, <2>3, <2>4, <2>5, <2>6
    <3>2. A \subseteq B
      BY <2>1, <2>3
    <3>3. QED
      BY <2>1, <2>6, <3>1, <3>2
  <2>7. CASE m # Null
    <3>1. B \subseteq A \cup {n}
      BY <2>1, <2>3, <2>5
    <3>2. A \cup {n} \subseteq B
      BY <2>1, <2>3, <2>4, <2>7
    <3>3. QED
      BY <2>1, <2>7, <3>1, <3>2
  <2>8. QED
    BY <2>6, <2>7
<1>6. IsFiniteSet(A) /\ Cardinality(A) \in Nat
  <2>1. IsFiniteSet(1..n - 1)
    BY <1>3, FS_Interval
  <2>2. A \subseteq 1..n - 1
    BY <1>3, <1>4
  <2>3. IsFiniteSet(A)
    BY <2>1, <2>2, FS_Subset
  <2>4. QED
    BY <2>3, FS_CardinalityType
<1>7. Cardinality(A \cup {n}) = Cardinality(A) + 1
  BY <1>5, <1>6, FS_AddElement
<1>8. NextNumber(c) = Cardinality(A) + 1 /\ NextNumber(c)' = Cardinality(B) + 1
  BY <1>1, <1>4 DEF NextNumber
<1>9. Range(t) = Range(s) \cup {m}
  <2>1. Range(t) \subseteq Range(s) \cup {m}
    BY <1>3 DEF Range
  <2>2. Range(s) \subseteq Range(t)
    <3>1. \A i \in 1..n - 1 : i \in 1..n
      BY <1>3
    <3>2. QED
      BY <1>3, <3>1 DEF Range
  <2>3. m \in Range(t)
    <3>1. n \in 1..n
      BY <1>3, <1>1, <1>2
    <3>2. QED
      BY <1>3, <3>1 DEF Range
  <2>4. QED
    BY <2>1, <2>2, <2>3
<1>10. NextNumber(c) \in Nat
  BY <1>6, <1>8
<1>11. NextNumber(c)' = IF m = Null THEN NextNumber(c) ELSE NextNumber(c) + 1
  BY <1>5, <1>7, <1>8
<1>12. Range(sent[c])' = Range(sent[c]) \cup {m}
  BY <1>1, <1>9
<1>13. QED
  BY <1>10, <1>11, <1>12

(* What is sent is new. *)
LEMMA SingleSend ==
    ASSUME TypeOK, NEW c \in Conns, Linked(c), Single(c), Send(c)
    PROVE  Single(c)'
<1>1. PICK m \in {NextNumber(c)} \cup (IF Undecodable THEN {Null} ELSE {}) :
        PeerSend(c, m) /\ sent' = [sent EXCEPT ![c] = Append(@, m)]
  BY DEF Send
<1>2. m \in Msgs \cup {Null} /\ (m = Null \/ m = NextNumber(c))
  BY <1>1, NextNumberType DEF Send
<1>3. /\ UNCHANGED <<fd, run, messages, rpc, rmsg, owner, omsg, delivered, reset>>
      /\ peerOpen[c]
      /\ wire'[c] = Append(wire[c], m) /\ sent'[c] = Append(sent[c], m)
  BY <1>1 DEF Send, PeerSend, TypeOK, ConnTypeOK
<1>4. PICK l : l = Line(c)
  OBVIOUS
<1>5. l \in Seq(Received) /\ m \in Received /\ <<>> \in Seq(Received)
  BY <1>2, <1>4, LineParts DEF Received
<1>6. Line(c)' = l \o <<m>> \o <<>>
  <2>1. Read(c)' = Read(c)
    BY <1>3 DEF Read, OwnerHand, RecvHand
  <2>2. Read(c) \o Append(wire[c], m) = Append(Read(c) \o wire[c], m)
    BY <1>5, LineParts, PendingWrite
  <2>3. Line(c)' = Append(l, m)
    BY <1>3, <1>4, <2>1, <2>2 DEF Line
  <2>4. Append(l, m) = l \o <<m>> /\ l \o <<m>> \in Seq(Received)
    BY <1>5, AppendIsConcat, ConcatProperties
  <2>5. (l \o <<m>>) \o <<>> = l \o <<m>>
    BY <2>4, ConcatEmptySeq
  <2>6. QED
    BY <2>3, <2>4, <2>5
<1>7. PICK T : T = Received \ {Null}
  OBVIOUS
<1>8. l \o <<>> = l
  BY <1>5, ConcatEmptySeq
<1>9. /\ Apart(Line(c)', T) <=> Apart(l, T) /\ (m \in T => m \notin Range(l))
      /\ Range(Line(c)') = Range(l) \cup {m}
  <2>1. Inserts(Line(c)', l, m)
    BY <1>5, <1>6, <1>8 DEF Inserts
  <2>2. QED
    BY <2>1, Inserted
<1>10. /\ NextNumber(c) \in Nat
       /\ NextNumber(c)' = IF m = Null THEN NextNumber(c) ELSE NextNumber(c) + 1
       /\ Range(sent[c])' = Range(sent[c]) \cup {m}
  BY <1>2, <1>3, NextNumberSteps
<1>11. m \in T => m \notin Range(l)
  <2>1. m # Closed
    BY <1>2, MessageAssumption
  <2>2. m = NextNumber(c) /\ m # Null => m \notin Range(sent[c])
    BY <1>10 DEF Single
  <2>3. QED
    BY <1>2, <1>4, <1>7, <2>1, <2>2 DEF Single
<1>12. Apart(Line(c)', T)
  BY <1>4, <1>7, <1>9, <1>11 DEF Single
<1>13. \A x \in Range(sent[c])' : x = Null \/ x < NextNumber(c)'
  <2>1. ASSUME NEW x \in Range(sent[c]), x # Null
        PROVE  x < NextNumber(c)'
    <3>1. x < NextNumber(c) /\ x \in Msgs
      BY <2>1 DEF Single, Range, TypeOK
    <3>2. x \in Int
      BY <3>1, HandoffAssumption
    <3>3. QED
      BY <1>10, <3>1, <3>2
  <2>2. m # Null => m < NextNumber(c)'
    BY <1>2, <1>10
  <2>3. QED
    BY <1>10, <2>1, <2>2
<1>14. Closed \in Range(Line(c)') => ~run'[c]
  BY <1>2, <1>3, <1>4, <1>9, MessageAssumption DEF Single
<1>15. fd'[c] # "unset"
  BY <1>3 DEF Linked
<1>16. Range(Line(c)') \subseteq Range(sent[c])' \cup {Null, Closed}
  BY <1>4, <1>9, <1>10 DEF Single
<1>17. ~reset'[c] => Range(sent[c])' \subseteq Range(Line(c)') \cup {Null}
  BY <1>3, <1>4, <1>9, <1>10 DEF Single
<1>18. QED
  BY <1>7, <1>12, <1>13, <1>14, <1>15, <1>16, <1>17 DEF Single

(* The first part of a line has nothing the line has not. *)
LEMMA ReadApart ==
    ASSUME TypeOK, NEW c \in Conns, NEW T
    PROVE  /\ Apart(Line(c), T) => Apart(Read(c), T)
           /\ Range(Read(c)) \subseteq Range(Line(c))
<1>1. PICK p, w, l : p = Read(c) /\ w = wire[c] /\ l = Line(c)
  OBVIOUS
<1>2. p \in Seq(Received) /\ w \in Seq(Received)
  BY <1>1, LineParts
<1>3. /\ DOMAIN p \subseteq DOMAIN l
      /\ \A i \in DOMAIN p : p[i] = l[i]
  <2>1. /\ p \o w \in Seq(Received) /\ Len(p \o w) = Len(p) + Len(w)
        /\ \A i \in 1..Len(p) + Len(w) : (p \o w)[i] = IF i <= Len(p) THEN p[i] ELSE w[i - Len(p)]
    BY <1>2, ConcatProperties
  <2>2. l = p \o w
    BY <1>1 DEF Line
  <2>3. DOMAIN p = 1..Len(p) /\ Len(p) \in Nat /\ Len(w) \in Nat /\ DOMAIN l = 1..Len(l)
    BY <1>2, <2>1, <2>2
  <2>4. QED
    BY <2>1, <2>2, <2>3
<1>4. QED
  BY <1>1, <1>3 DEF Apart, Range

(* What a reset takes away was not read. *)
LEMMA SingleReset ==
    ASSUME TypeOK, NEW c \in Conns, Linked(c), Single(c), Reset(c)
    PROVE  Single(c)'
<1>1. /\ UNCHANGED <<fd, run, messages, rpc, rmsg, owner, omsg, sent, delivered>>
      /\ peerOpen[c] /\ wire'[c] = <<>> /\ reset'[c] = (wire[c] # <<>> \/ part[c])
  BY DEF Reset, PeerReset, TypeOK, ConnTypeOK
<1>2. ~reset[c] /\ fd[c] # "unset"
  BY <1>1 DEF Linked
<1>3. Line(c)' = Read(c)
  <2>1. Read(c)' = Read(c)
    BY <1>1 DEF Read, OwnerHand, RecvHand
  <2>2. Read(c) \in Seq(Received)
    BY LineParts
  <2>3. Read(c) \o <<>> = Read(c)
    BY <2>2, ConcatEmptySeq
  <2>4. QED
    BY <1>1, <2>1, <2>3 DEF Line
<1>4. CASE wire[c] = <<>>
  <2>1. Line(c) = Read(c)
    BY <1>4, LineParts, ConcatEmptySeq DEF Line
  <2>2. QED
    BY <1>1, <1>2, <1>3, <2>1, SingleStays
<1>5. CASE wire[c] # <<>>
  <2>1. Apart(Line(c)', Received \ {Null}) /\ Range(Line(c)') \subseteq Range(Line(c))
    BY <1>3, ReadApart DEF Single
  <2>2. NextNumber(c)' = NextNumber(c)
    BY <1>1 DEF NextNumber
  <2>3. QED
    BY <1>1, <1>2, <1>5, <2>1, <2>2 DEF Single
<1>6. QED
  BY <1>4, <1>5

(* The end of the stream is put between what was read and what was not. *)
LEMMA SingleClosed ==
    ASSUME TypeOK, NEW c \in Conns, Linked(c), Single(c), ReceiveClosed(c), UNCHANGED ownVars
    PROVE  Single(c)'
<1>1. /\ rpc[c] = "recv" /\ rpc'[c] = "test" /\ run[c] /\ ~run'[c] /\ rmsg'[c] = Closed
      /\ UNCHANGED <<wire, fd, messages, owner, omsg, sent, delivered, reset>>
  BY DEF ReceiveClosed, ownVars, TypeOK, ConnTypeOK
<1>2. PICK p, w, T : /\ p = delivered[c] \o OwnerHand(c) \o messages[c] /\ w = wire[c]
                     /\ T = Received \ {Null}
  OBVIOUS
<1>3. p \in Seq(Received) /\ w \in Seq(Received) /\ Closed \in Received
  BY <1>2, LineParts DEF Received
<1>4. Line(c) = p \o w
  <2>1. RecvHand(c) = <<>>
    BY <1>1 DEF RecvHand
  <2>2. p \o <<>> = p
    BY <1>3, ConcatEmptySeq
  <2>3. QED
    BY <1>2, <2>1, <2>2 DEF Line, Read
<1>5. Line(c)' = p \o <<Closed>> \o w
  BY <1>1, <1>2 DEF Line, Read, OwnerHand, RecvHand
<1>6. /\ Apart(Line(c)', T) <=> Apart(Line(c), T) /\ (Closed \in T => Closed \notin Range(Line(c)))
      /\ Range(Line(c)') = Range(Line(c)) \cup {Closed}
  <2>1. Inserts(Line(c)', Line(c), Closed)
    BY <1>3, <1>4, <1>5 DEF Inserts
  <2>2. QED
    BY <2>1, Inserted
<1>7. Closed \notin Range(Line(c)) /\ fd[c] # "unset"
  BY <1>1 DEF Single, Linked
<1>8. NextNumber(c)' = NextNumber(c)
  BY <1>1 DEF NextNumber
<1>9. Apart(Line(c)', T)
  BY <1>2, <1>6, <1>7 DEF Single
<1>10. QED
  BY <1>1, <1>2, <1>6, <1>7, <1>8, <1>9 DEF Single

(* So is the null pointer of a torn message, of which there may be many. *)
LEMMA SingleTorn ==
    ASSUME TypeOK, NEW c \in Conns, Linked(c), Single(c), ReceiveTorn(c), UNCHANGED ownVars
    PROVE  Single(c)'
<1>1. /\ rpc[c] = "inside" /\ rpc'[c] = "test" /\ rmsg'[c] = Null
      /\ UNCHANGED <<wire, fd, run, messages, owner, omsg, sent, delivered, reset>>
  BY DEF ReceiveTorn, ownVars, TypeOK, ConnTypeOK
<1>2. PICK p, w, T : /\ p = delivered[c] \o OwnerHand(c) \o messages[c] /\ w = wire[c]
                     /\ T = Received \ {Null}
  OBVIOUS
<1>3. p \in Seq(Received) /\ w \in Seq(Received) /\ Null \in Received
  BY <1>2, LineParts DEF Received
<1>4. Line(c) = p \o w
  <2>1. RecvHand(c) = <<>>
    BY <1>1 DEF RecvHand
  <2>2. p \o <<>> = p
    BY <1>3, ConcatEmptySeq
  <2>3. QED
    BY <1>2, <2>1, <2>2 DEF Line, Read
<1>5. Line(c)' = p \o <<Null>> \o w
  BY <1>1, <1>2 DEF Line, Read, OwnerHand, RecvHand
<1>6. /\ Apart(Line(c)', T) <=> Apart(Line(c), T) /\ (Null \in T => Null \notin Range(Line(c)))
      /\ Range(Line(c)') = Range(Line(c)) \cup {Null}
  <2>1. Inserts(Line(c)', Line(c), Null)
    BY <1>3, <1>4, <1>5 DEF Inserts
  <2>2. QED
    BY <2>1, Inserted
<1>7. fd[c] # "unset" /\ Null # Closed
  BY <1>1, MessageAssumption DEF Linked
<1>8. NextNumber(c)' = NextNumber(c)
  BY <1>1 DEF NextNumber
<1>9. Apart(Line(c)', T)
  BY <1>2, <1>6 DEF Single
<1>10. QED
  BY <1>1, <1>2, <1>6, <1>7, <1>8, <1>9 DEF Single

(* A handler is given its message before what is queued: it moves up front. *)
LEMMA SingleHandle ==
    ASSUME TypeOK, NEW c \in Conns, Linked(c), Single(c), Handle(c)
    PROVE  Single(c)'
<1>1. PICK e \in Received : e = rmsg[c]
  BY DEF TypeOK, ConnTypeOK
<1>2. /\ rpc[c] = "call" /\ rpc'[c] = IF run[c] THEN "recv" ELSE "exit"
      /\ UNCHANGED <<wire, fd, run, messages, owner, omsg, sent, reset>>
      /\ delivered'[c] = Append(delivered[c], e)
  BY <1>1 DEF Handle, HandlerReturns, NextRound, Deliver, TypeOK, ConnTypeOK
<1>3. PICK d, o, m, w, T : /\ d = delivered[c] /\ o = OwnerHand(c) /\ m = messages[c]
                           /\ w = wire[c] /\ T = Received \ {Null}
  OBVIOUS
<1>4. /\ d \in Seq(Received) /\ o \in Seq(Received) /\ m \in Seq(Received)
      /\ w \in Seq(Received) /\ d \o o \in Seq(Received) /\ d \o o \o m \in Seq(Received)
      /\ <<e>> \in Seq(Received)
  BY <1>1, <1>3, LineParts
<1>5. /\ o \o m \in Seq(Received) /\ o \o m \o w \in Seq(Received)
      /\ d \o <<e>> \in Seq(Received) /\ d \o <<e>> \o o \in Seq(Received)
  <2>1. o \o m \in Seq(Received) /\ d \o <<e>> \in Seq(Received)
    BY <1>4, ConcatProperties
  <2>2. QED
    BY <1>4, <2>1, ConcatProperties
<1>6. Line(c) = d \o o \o m \o <<e>> \o w
  <2>1. RecvHand(c) = <<e>>
    BY <1>1, <1>2 DEF RecvHand
  <2>2. QED
    BY <1>3, <2>1 DEF Line, Read
<1>7. Line(c)' = d \o <<e>> \o (o \o m \o w)
  <2>1. RecvHand(c)' = <<>> /\ OwnerHand(c)' = o
    BY <1>2, <1>3 DEF RecvHand, OwnerHand
  <2>2. Append(d, e) = d \o <<e>>
    BY <1>4, AppendIsConcat
  <2>3. Line(c)' = d \o <<e>> \o o \o m \o <<>> \o w
    BY <1>2, <1>3, <2>1, <2>2 DEF Line, Read
  <2>4. d \o <<e>> \o o \o m \in Seq(Received)
    BY <1>4, <1>5, ConcatProperties
  <2>5. d \o <<e>> \o o \o m \o <<>> = d \o <<e>> \o o \o m
    BY <2>4, ConcatEmptySeq
  <2>6. PICK q \in Seq(Received), s \in Seq(Received) : q = d \o <<e>> /\ s = o \o m
    BY <1>5
  <2>7. q \o o \o m = q \o s
    BY <1>4, <1>5, <2>6, ConcatAssociative
  <2>8. (q \o s) \o w = q \o (s \o w)
    <3>1. q \in Seq(Received) /\ s \in Seq(Received) /\ w \in Seq(Received)
      BY <1>4, <2>6
    <3>2. QED
      BY ONLY <3>1, ConcatAssociative
  <2>9. QED
    BY <2>3, <2>5, <2>6, <2>7, <2>8
<1>8. d \o o \o m \o w = d \o (o \o m \o w)
  <2>1. d \o o \o m = d \o (o \o m)
    BY <1>4, ConcatAssociative
  <2>2. d \o (o \o m) \o w = d \o (o \o m \o w)
    BY <1>4, <1>5, ConcatAssociative
  <2>3. QED
    BY <2>1, <2>2
<1>9. PICK u : u = d \o o \o m \o w
  OBVIOUS
<1>10. /\ Apart(Line(c), T) <=> Apart(u, T) /\ (e \in T => e \notin Range(u))
       /\ Range(Line(c)) = Range(u) \cup {e}
  <2>1. Inserts(Line(c), u, e)
    BY <1>4, <1>6, <1>9 DEF Inserts
  <2>2. QED
    BY <2>1, Inserted
<1>11. /\ Apart(Line(c)', T) <=> Apart(u, T) /\ (e \in T => e \notin Range(u))
       /\ Range(Line(c)') = Range(u) \cup {e}
  <2>1. Inserts(Line(c)', u, e)
    BY <1>4, <1>5, <1>7, <1>8, <1>9 DEF Inserts
  <2>2. QED
    BY <2>1, Inserted
<1>12. Apart(Line(c)', T) /\ Range(Line(c)') = Range(Line(c)) /\ fd'[c] # "unset"
  BY <1>2, <1>3, <1>10, <1>11 DEF Single, Linked
<1>13. NextNumber(c)' = NextNumber(c)
  BY <1>2 DEF NextNumber
<1>14. QED
  BY <1>2, <1>3, <1>12, <1>13 DEF Single

(* A step of a connection keeps each message in one place, ... *)
LEMMA SingleStep ==
    ASSUME TypeOK, NEW c \in Conns, Linked(c), Single(c), Step(c)
    PROVE  Single(c)'
<1>1. CASE Open(c) \/ SendPart(c) \/ Close(c)
  <2>1. /\ UNCHANGED <<wire, messages, rmsg, owner, omsg, sent, delivered, reset>>
        /\ run'[c] => run[c] \/ fd[c] = "unset"
        /\ fd'[c] = "unset" => fd[c] = "unset"
        /\ RecvHand(c)' = RecvHand(c)
    BY <1>1 DEF Open, SendPart, Close, OpenSocket, PeerSendPart, PeerClose, ownVars,
       RecvHand, Linked, TypeOK, ConnTypeOK
  <2>2. Line(c)' = Line(c)
    BY <2>1 DEF Line, Read, OwnerHand
  <2>3. QED
    BY <2>1, <2>2, SingleStays
<1>2. CASE Receive(c)
  <2>1. CASE ReceivePart(c) \/ ReceiveMessage(c) \/ TestHandler(c) \/ PushMessage(c)
    <3>1. UNCHANGED <<sent, reset, run, fd>>
      BY <1>2, <2>1 DEF Receive, ReceivePart, ReceiveMessage, TestHandler, PushMessage, ownVars
    <3>2. Line(c)' = Line(c)
      BY <1>2, <2>1, LineReceive DEF Receive
    <3>3. QED
      BY <3>1, <3>2, SingleStays
  <2>2. CASE ReceiveClosed(c)
    BY <1>2, <2>2, SingleClosed DEF Receive
  <2>3. CASE ReceiveTorn(c)
    BY <1>2, <2>3, SingleTorn DEF Receive
  <2>4. QED
    BY <1>2, <2>1, <2>2, <2>3 DEF Receive, ReceiveStep
<1>3. CASE GetMsg(c) \/ DrainTake(c) \/ DrainHandle(c)
  <2>1. UNCHANGED <<sent, reset, run, fd>>
    BY <1>3 DEF GetMsg, DrainTake, DrainHandle, TakeQueued, connVars
  <2>2. QED
    BY <1>3, <2>1, LineOwner, SingleStays
<1>4. CASE SetHandler(c) \/ DrainDone(c) \/ Disconnect(c) \/ Destroy(c) \/ Join(c)
  <2>1. /\ UNCHANGED <<wire, messages, rmsg, omsg, sent, delivered, reset, run>>
        /\ OwnerHand(c)' = OwnerHand(c) /\ RecvHand(c)' = RecvHand(c)
        /\ fd'[c] = "unset" => fd[c] = "unset"
    BY <1>4 DEF SetHandler, DrainDone, Disconnect, Destroy, Join, InstallHandler, ShutSocket,
       RemoveHandler, JoinReceiver, connVars, OwnerHand, RecvHand, TypeOK, ConnTypeOK
  <2>2. Line(c)' = Line(c)
    BY <2>1 DEF Line, Read
  <2>3. QED
    BY <2>1, <2>2, SingleStays
<1>5. QED
  BY <1>1, <1>2, <1>3, <1>4, SingleSend, SingleReset, SingleHandle
     DEF Step, PeerStep, OwnerStep

(* ... and so in all of them. *)
LEMMA OnceStep == OnceInv /\ [Next]_vars => OnceInv'
<1> SUFFICES ASSUME OnceInv, [Next]_vars
             PROVE  OnceInv'
  OBVIOUS
<1>1. Inv'
  BY InvStep DEF OnceInv
<1>2. CASE UNCHANGED vars
  BY <1>1, <1>2 DEF vars, connVars, ownVars, OnceInv, Single, Line, Read, OwnerHand, RecvHand,
     NextNumber
<1>3. CASE Next
  <2>1. PICK c \in Conns : Step(c)
    BY <1>3, NextCases
  <2>2. ASSUME NEW d \in Conns
        PROVE  Single(d)'
    <3>1. TypeOK /\ Linked(d) /\ Single(d)
      BY DEF OnceInv, Inv
    <3>2. CASE d = c
      BY <2>1, <3>1, <3>2, SingleStep
    <3>3. CASE d # c
      <4>1. /\ wire'[d] = wire[d] /\ fd'[d] = fd[d] /\ run'[d] = run[d]
            /\ messages'[d] = messages[d] /\ rpc'[d] = rpc[d] /\ rmsg'[d] = rmsg[d]
            /\ owner'[d] = owner[d] /\ omsg'[d] = omsg[d] /\ sent'[d] = sent[d]
            /\ delivered'[d] = delivered[d] /\ reset'[d] = reset[d]
        BY <2>1, <3>1, <3>3, Frame
      <4>2. Line(d)' = Line(d)
        BY <4>1 DEF Line, Read, OwnerHand, RecvHand
      <4>3. QED
        BY <3>1, <4>1, <4>2, SingleStays
    <3>4. QED
      BY <3>2, <3>3
  <2>3. QED
    BY <1>1, <2>2 DEF OnceInv
<1>4. QED
  BY <1>2, <1>3

LEMMA InitOnce == Init => OnceInv
<1> SUFFICES ASSUME Init
             PROVE  OnceInv
  OBVIOUS
<1>1. ASSUME NEW c \in Conns
      PROVE  Single(c)
  <2>1. /\ fd[c] = "unset" /\ rpc[c] = "none" /\ owner[c] = "poll" /\ ~run[c]
        /\ messages[c] = <<>> /\ wire[c] = <<>> /\ sent[c] = <<>> /\ delivered[c] = <<>>
    BY <1>1 DEF Init, ConnInit
  <2>2. <<>> \o <<>> = <<>> /\ DOMAIN <<>> = {}
    OBVIOUS
  <2>3. Line(c) = <<>>
    BY <2>1, <2>2 DEF Line, Read, OwnerHand, RecvHand
  <2>4. Range(<<>>) = {} /\ Apart(<<>>, Received \ {Null})
    BY <2>2 DEF Range, Apart
  <2>5. QED
    BY <2>1, <2>3, <2>4 DEF Single
<1>2. QED
  BY <1>1, InitInv DEF OnceInv

(* Messages and the end of the stream stay apart, in one place each.          *)
THEOREM OnceInvariance == Spec => []OnceInv
BY InitOnce, OnceStep, PTL DEF Spec

(* However setHandler(), the receive thread and disconnect() interleave, no   *)
(* message is given twice, and none is missing that was not lost with its     *)
(* stream.                                                                   *)
THEOREM ExactlyOnceHolds == Spec => []ExactlyOnce
<1>1. OnceInv => ExactlyOnce
  <2> SUFFICES ASSUME OnceInv
               PROVE  ExactlyOnce
    OBVIOUS
  <2> SUFFICES ASSUME NEW c \in Conns
               PROVE  /\ Apart(Line(c), Msgs)
                      /\ Range(Line(c)) \cap Msgs \subseteq Range(sent[c])
                      /\ ~reset[c] => Range(sent[c]) \cap Msgs \subseteq Range(Line(c))
    BY DEF ExactlyOnce
  <2>1. Single(c)
    BY DEF OnceInv
  <2>2. Msgs \subseteq Received \ {Null} /\ Null \notin Msgs /\ Closed \notin Msgs
    BY MessageAssumption DEF Received
  <2>3. Apart(Line(c), Msgs)
    BY <2>1, <2>2 DEF Single, Apart
  <2>4. QED
    BY <2>1, <2>2, <2>3 DEF Single
<1>2. QED
  BY <1>1, OnceInvariance, PTL

(* The closed message is made once, and is the last thing the receive thread  *)
(* makes.                                                                    *)
THEOREM ClosedOnceHolds == Spec => []ClosedOnce
<1>1. OnceInv => ClosedOnce
  <2> SUFFICES ASSUME OnceInv
               PROVE  ClosedOnce
    OBVIOUS
  <2> SUFFICES ASSUME NEW c \in Conns
               PROVE  /\ Apart(Read(c), {Closed})
                      /\ Closed \in Range(Read(c)) => ~run[c]
    BY DEF ClosedOnce
  <2>1. Single(c) /\ TypeOK
    BY DEF OnceInv, Inv
  <2>2. Closed \in Received \ {Null}
    BY MessageAssumption DEF Received
  <2>3. Apart(Line(c), {Closed})
    BY <2>1, <2>2 DEF Single, Apart
  <2>4. QED
    BY <2>1, <2>3, ReadApart DEF Single
<1>2. QED
  BY <1>1, OnceInvariance, PTL

===============================================================================
