-------------------------------- MODULE Session --------------------------------
(***************************************************************************)
(* The session of one aircraft on the server of src/src/server.cpp: the    *)
(* commands it is sent and the round trips that are timed.                 *)
(*                                                                         *)
(* Two threads run sendCommand() of the same fss_client without a lock:    *)
(* the main thread in every turn of its loop, and the client's receive     *)
(* thread once, when the aircraft has identified itself.  The main thread  *)
(* sends round trip requests and lists them, the receive thread takes      *)
(* answered ones off the list.                                             *)
(*                                                                         *)
(* The client is registered and stays, unless the name it gives is not in  *)
(* its certificate.  Settings, server lists and reports are left out: they *)
(* touch nothing that is read here.  Time is counted in turns of the main  *)
(* loop and kept relative to the present.                                  *)
(***************************************************************************)
EXTENDS Naturals, Sequences, FiniteSets

CONSTANTS
    Main, Receiver,   \* the two threads
    Timeout,          \* timeout_time of sendCommand()
    MaxLag,           \* bound: time a call of sendCommand() may take
    MaxCommand,       \* bound: commands entered into the database
    MaxRequests,      \* bound: round trip requests
    MaxOut            \* bound: messages in the socket, in either direction

ASSUME SessionAssumption ==
    /\ Main # Receiver
    /\ Timeout \in Nat /\ MaxLag \in Nat /\ MaxCommand \in Nat
    /\ MaxRequests \in Nat /\ MaxOut \in Nat

VARIABLES
    since,               \* time since last_command_send_ts, up to Long
    slept,               \* sleep(1) of the main loop is over
    pc,                  \* where each thread is
    lag,                 \* time since the thread took its ts
    command,             \* the command the thread read, 0 for none
    latest,              \* the newest command in the database
    named,               \* the name is set
    identified,
    listed,              \* on the registry's list of clients
    last_command_dbid,
    requests,            \* history: round trip requests sent; the last one's id
    outstanding,         \* outstanding_rtt_requests
    recorded,            \* history: the round trips in the database
    toClient, toServer,  \* the socket
    greeted,             \* the aircraft has sent its identity
    held, heldEver       \* the command the aircraft holds; history: all it got

commandVars == <<since, lag, command, last_command_dbid>>
tripVars == <<requests, outstanding, recorded>>
identityVars == <<named, identified, listed>>
peerVars == <<greeted, held, heldEver>>
vars == <<slept, pc, latest, identityVars, toClient, toServer, commandVars, tripVars,
          peerVars>>

Threads == {Main, Receiver}

Long == Timeout + MaxLag + 1

Commands == 0..MaxCommand

Command(c) == [type |-> "command", n |-> c]
Request(n) == [type |-> "request", n |-> n]
Response(n) == [type |-> "response", n |-> n]
Identity == [type |-> "identity", n |-> 0]

ToClient == {Command(c) : c \in Commands} \cup {Request(n) : n \in 1..MaxRequests}

ToServer == {Identity} \cup {Response(n) : n \in 1..MaxRequests}

(***************************************************************************)
(* A thread: "idle"; the main thread about to "request" and to "list" what *)
(* it requested; in sendCommand(), about to read the "clock" and the       *)
(* "database", to "test", to store the time ("stamp") and the id           *)
(* ("remember"), and to "send"; the receive thread about to "check" the    *)
(* name it has set.                                                        *)
(***************************************************************************)
PCs == {"idle", "request", "list", "clock", "database", "test", "stamp", "remember",
        "send", "check"}

TypeOK ==
    /\ since \in 0..Long
    /\ slept \in BOOLEAN
    /\ pc \in [Threads -> PCs]
    /\ lag \in [Threads -> 0..MaxLag]
    /\ command \in [Threads -> Commands]
    /\ latest \in Commands
    /\ named \in BOOLEAN /\ identified \in BOOLEAN /\ listed \in BOOLEAN
    /\ last_command_dbid \in Commands
    /\ requests \in 0..MaxRequests
    /\ outstanding \subseteq 1..requests
    /\ recorded \subseteq 1..requests
    /\ toClient \in Seq(ToClient)
    /\ toServer \in Seq(ToServer)
    /\ greeted \in BOOLEAN
    /\ held \in Commands
    /\ heldEver \subseteq Commands

(* last_command_send_ts is 0: long ago. *)
Init ==
    /\ since = Long
    /\ slept = FALSE
    /\ pc = [t \in Threads |-> "idle"]
    /\ lag = [t \in Threads |-> 0]
    /\ command = [t \in Threads |-> 0]
    /\ latest = 0
    /\ named = FALSE
    /\ identified = FALSE
    /\ listed = TRUE
    /\ last_command_dbid = 0
    /\ requests = 0
    /\ outstanding = {}
    /\ recorded = {}
    /\ toClient = <<>>
    /\ toServer = <<>>
    /\ greeted = FALSE
    /\ held = 0
    /\ heldEver = {}

GoTo(t, where) == pc' = [pc EXCEPT ![t] = where]

-----------------------------------------------------------------------------
(* The surroundings: time, the database, the aircraft. *)

InSendCommand(t) == pc[t] \in {"database", "test", "stamp", "remember", "send"}

Later(n, limit) == IF n < limit THEN n + 1 ELSE n

Tick ==
    /\ \A t \in Threads : InSendCommand(t) => lag[t] < MaxLag
    /\ since' = Later(since, Long)
    /\ lag' = [t \in Threads |-> IF InSendCommand(t) THEN lag[t] + 1 ELSE 0]
    /\ slept' = TRUE
    /\ UNCHANGED <<pc, command, latest, identityVars, last_command_dbid, toClient,
                   toServer, tripVars, peerVars>>

(* Someone enters a command for the aircraft. *)
NewCommand ==
    /\ latest < MaxCommand
    /\ latest' = latest + 1
    /\ UNCHANGED <<slept, pc, identityVars, toClient, toServer, commandVars, tripVars,
                   peerVars>>

(* sendIdentify(); the receive thread of the client is answering already. *)
Greet ==
    /\ ~greeted
    /\ Len(toServer) < MaxOut
    /\ greeted' = TRUE
    /\ toServer' = Append(toServer, Identity)
    /\ UNCHANGED <<slept, pc, latest, identityVars, toClient, commandVars, tripVars,
                   held, heldEver>>

(* fss_server::processMessage() of the client library. *)
ClientReceives ==
    /\ toClient # <<>>
    /\ toClient' = Tail(toClient)
    /\ IF Head(toClient).type = "command"
       THEN /\ held' = Head(toClient).n
            /\ heldEver' = heldEver \cup {Head(toClient).n}
            /\ UNCHANGED toServer
       ELSE /\ Len(toServer) < MaxOut
            /\ toServer' = Append(toServer, Response(Head(toClient).n))
            /\ UNCHANGED <<held, heldEver>>
    /\ UNCHANGED <<slept, pc, latest, identityVars, commandVars, tripVars, greeted>>

-----------------------------------------------------------------------------
(* sendRTTRequest(), and the turn of the main loop it starts. *)

StartTurn ==
    /\ pc[Main] = "idle"
    /\ slept
    /\ listed
    /\ slept' = FALSE
    /\ GoTo(Main, IF requests < MaxRequests THEN "request" ELSE "clock")
    /\ UNCHANGED <<latest, identityVars, toClient, toServer, commandVars, tripVars,
                   peerVars>>

SendRequest ==
    /\ pc[Main] = "request"
    /\ Len(toClient) < MaxOut
    /\ requests' = requests + 1
    /\ toClient' = Append(toClient, Request(requests'))
    /\ GoTo(Main, "list")
    /\ UNCHANGED <<slept, latest, identityVars, toServer, outstanding, recorded,
                   commandVars, peerVars>>

(* Broken: the id is taken before sendMsg() has set it. *)
ListUnsetId ==
    /\ pc[Main] = "list"
    /\ outstanding' = outstanding \cup {0}
    /\ GoTo(Main, "clock")
    /\ UNCHANGED <<slept, latest, identityVars, toClient, toServer, requests, recorded,
                   commandVars, peerVars>>

ListRequest ==
    /\ pc[Main] = "list"
    /\ outstanding' = outstanding \cup {requests}
    /\ GoTo(Main, "clock")
    /\ UNCHANGED <<slept, latest, identityVars, toClient, toServer, requests, recorded,
                   commandVars, peerVars>>

-----------------------------------------------------------------------------
(* sendCommand(), on either thread. *)

ReadClock(t) ==
    /\ pc[t] = "clock"
    /\ lag' = [lag EXCEPT ![t] = 0]
    /\ GoTo(t, "database")
    /\ UNCHANGED <<slept, latest, identityVars, toClient, toServer, since, command,
                   last_command_dbid, tripVars, peerVars>>

(* asset_get_command(): no asset has the empty name. *)
ReadCommand(t) ==
    /\ pc[t] = "database"
    /\ command' = [command EXCEPT ![t] = IF named THEN latest ELSE 0]
    /\ GoTo(t, "test")
    /\ UNCHANGED <<slept, latest, identityVars, toClient, toServer, since, lag,
                   last_command_dbid, tripVars, peerVars>>

(* ts > last_command_send_ts + timeout_time *)
TimeToResend(t) == since > lag[t] + Timeout

(* Broken: a command is sent once. *)
TestOnce(t) ==
    /\ pc[t] = "test"
    /\ GoTo(t, IF command[t] \notin {0, last_command_dbid} THEN "stamp" ELSE "idle")
    /\ UNCHANGED <<slept, latest, identityVars, toClient, toServer, commandVars,
                   tripVars, peerVars>>

Test(t) ==
    /\ pc[t] = "test"
    /\ GoTo(t, IF command[t] # 0 /\ (command[t] # last_command_dbid \/ TimeToResend(t))
               THEN "stamp" ELSE "idle")
    /\ UNCHANGED <<slept, latest, identityVars, toClient, toServer, commandVars,
                   tripVars, peerVars>>

Stamp(t) ==
    /\ pc[t] = "stamp"
    /\ since' = lag[t]
    /\ GoTo(t, "remember")
    /\ UNCHANGED <<slept, latest, identityVars, toClient, toServer, lag, command,
                   last_command_dbid, tripVars, peerVars>>

(* Broken: remembers the newest command, not the one it sends. *)
RememberNewest(t) ==
    /\ pc[t] = "remember"
    /\ last_command_dbid' = latest
    /\ GoTo(t, "send")
    /\ UNCHANGED <<slept, latest, identityVars, toClient, toServer, since, lag, command,
                   tripVars, peerVars>>

Remember(t) ==
    /\ pc[t] = "remember"
    /\ last_command_dbid' = command[t]
    /\ GoTo(t, "send")
    /\ UNCHANGED <<slept, latest, identityVars, toClient, toServer, since, lag, command,
                   tripVars, peerVars>>

SendCommand(t) ==
    /\ pc[t] = "send"
    /\ Len(toClient) < MaxOut
    /\ toClient' = Append(toClient, Command(command[t]))
    /\ GoTo(t, "idle")
    /\ UNCHANGED <<slept, latest, identityVars, toServer, commandVars, tripVars,
                   peerVars>>

SendCommandStep(t) ==
    \/ ReadClock(t) \/ ReadCommand(t) \/ Test(t) \/ Stamp(t) \/ Remember(t)
    \/ SendCommand(t)

MainStep == StartTurn \/ SendRequest \/ ListRequest \/ SendCommandStep(Main)

-----------------------------------------------------------------------------
(* processMessage() on the receive thread. *)

Takes(type) ==
    /\ pc[Receiver] = "idle"
    /\ toServer # <<>>
    /\ Head(toServer).type = type
    /\ toServer' = Tail(toServer)

(* The name is stored first, so that the main thread can already read it, ... *)
SetName ==
    /\ Takes("identity")
    /\ named' = TRUE
    /\ GoTo(Receiver, "check")
    /\ UNCHANGED <<slept, latest, identified, listed, toClient, commandVars, tripVars,
                   peerVars>>

(* ... and then looked for in the certificate, which has it or no name at all *)
AcceptName ==
    /\ pc[Receiver] = "check"
    /\ identified' = TRUE
    /\ GoTo(Receiver, "clock")
    /\ UNCHANGED <<slept, latest, named, listed, toClient, toServer, commandVars,
                   tripVars, peerVars>>

(* ... or somebody else: clientDisconnected() takes it off the list.  A turn  *)
(* of the main thread that has begun goes on with it.                        *)
RejectName ==
    /\ pc[Receiver] = "check"
    /\ listed' = FALSE
    /\ GoTo(Receiver, "idle")
    /\ UNCHANGED <<slept, latest, named, identified, toClient, toServer, commandVars,
                   tripVars, peerVars>>

(* Broken: the round trip stays on the list. *)
RecordTripKeeps ==
    /\ Takes("response")
    /\ IF identified /\ Head(toServer).n \in outstanding
       THEN recorded' = recorded \cup {Head(toServer).n}
       ELSE UNCHANGED recorded
    /\ UNCHANGED <<slept, pc, latest, identityVars, toClient, commandVars, requests,
                   outstanding, peerVars>>

(* An answer that no listed request fits is dropped, as is any before the    *)
(* aircraft identified itself.                                               *)
RecordTrip ==
    /\ Takes("response")
    /\ IF identified /\ Head(toServer).n \in outstanding
       THEN /\ outstanding' = outstanding \ {Head(toServer).n}
            /\ recorded' = recorded \cup {Head(toServer).n}
       ELSE UNCHANGED <<outstanding, recorded>>
    /\ UNCHANGED <<slept, pc, latest, identityVars, toClient, commandVars, requests,
                   peerVars>>

ReceiverStep ==
    \/ SetName \/ AcceptName \/ RejectName
    \/ RecordTrip
    \/ SendCommandStep(Receiver)

-----------------------------------------------------------------------------
Next ==
    \/ Tick \/ NewCommand \/ Greet \/ ClientReceives
    \/ MainStep
    \/ ReceiverStep

Spec == Init /\ [][Next]_vars

(* Time passes, both threads run, and the aircraft identifies itself and     *)
(* reads.  Nothing makes a command be entered.                               *)
FairSpec ==
    /\ Spec
    /\ WF_vars(Tick)
    /\ WF_vars(Greet)
    /\ WF_vars(ClientReceives)
    /\ WF_vars(MainStep)
    /\ WF_vars(ReceiverStep)

-----------------------------------------------------------------------------
(* Properties. *)

(* What last_command_dbid says was sent has been, or is about to be: the two *)
(* threads' stores and sends interleave, but neither forgets a command.      *)
RememberedIsSent ==
    LET onItsWay(c) ==
            \/ \E i \in DOMAIN toClient : toClient[i] = Command(c)
            \/ \E t \in Threads : pc[t] = "send" /\ command[t] = c
    IN  last_command_dbid \in {0} \cup heldEver \/ onItsWay(last_command_dbid)

(* A round trip is timed once: a request is on the list, recorded, or about  *)
(* to be listed, and never two of these, whenever its answer comes in.       *)
TripsAccounted ==
    LET inHand == IF pc[Main] = "list" THEN {requests} ELSE {}
    IN  /\ outstanding \cup recorded \cup inHand = 1..requests
        /\ outstanding \cap recorded = {}
        /\ inHand \cap (outstanding \cup recorded) = {}

(* The aircraft holds the newest command in the end, though an older one may *)
(* be sent after it by the other thread: it is sent again when it is time,   *)
(* as long as the client is on the list.                                     *)
LatestIsHeld ==
    \A c \in 1..MaxCommand : <>[](latest = c) /\ []listed => []<>(held = c)

===============================================================================
