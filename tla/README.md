# Flight Safety System in TLA+

Flight Safety System keeps remotely piloted aircraft under control: a server
(`src/src/server.cpp`) hands commands to aircraft and records where they are,
and a client library (`src/src/client-ssl.cpp`) keeps an aircraft connected to
several servers. Both stand on a transport library (`src/src/transport*.cpp`)
that runs one receive thread per connection. The program is small; what is hard
in it is that threads share objects with few locks, that receive threads call
into objects another thread destroys, and that connections come and go at any
moment.

These modules model that core as state machines, check it with TLC on small
instances, and prove their safety properties with TLAPS for any number of
connections, servers, messages and commands. Paths like `server.cpp` below are under `src/src/`.

## Inventory

| Component | State | Operations | Properties that make it correct |
|---|---|---|---|
| **Connection** `transport.cpp`: `fss_connection` | socket `fd`, loop flag `run`, `handler`, queue `messages`, `recv_thread`, `send_lock`, `last_msg_id` | `processMessages()` on the receive thread; `setHandler()`, `getMsg()`, `sendMsg()`, `disconnect()`, destructor by the owner | every message handed over once, in order to a poller; the end reported once; `disconnect()` returns |
| **Wire format** `transport-messages.cpp` | none | `getPacked()`, `decode()`, `packData()`/`unpackData()` of 11 types | decoding gives back what was packed |
| **Framing** `transport.cpp`: `recvMsg()`, `sendMsg()` | bytes received of a message | `recvMsg()` | never loses its place in the stream; waits for no byte too many |
| **TLS** `transport-ssl.cpp` | session, `usable`, names in the certificate | `setupSSL()`, `connectTo()`, `newConnection()` | a connection that is used has been set up |
| **Listener** `transport.cpp`: `fss_listen`; `server.cpp`: `new_client_connect()` | listening socket, its thread | accept, handshake, make the client, register it | every accepted client is registered and can leave |
| **Registry** `server.cpp`: `server_clients` | `lock`, `clients`, `disconnected`, `total_clients`, `shutting_down` | `clientConnected()`, `clientDisconnected()`, `cleanupRemovableClients()`, the walks, destructor | counts; one owner per client; destroyed once, after it left, with no thread in it |
| **Client session** `server.cpp`: `fss_client` | `name`, `identified`, `aircraft`, last command, outstanding round trips | `processMessage()`, `sendCommand()`, `sendRTTRequest()`, `sendSMMSettings()` | commands arrive and are repeated; round trips are matched |
| **Main loop** `server.cpp`: `main()` | `running`, `counter` | cleanup, walks, exit on SIGINT | goes on turning; comes to an end |
| **Client library** `client-ssl.cpp`: `fss_client`, `fss_server` | lists `servers`, `reconnect_servers`; per server the connection, `last_tried`, `retry_delay` | `attemptReconnect()`, `connectTo()`, `updateServers()`, `serverRequiresReconnect()`, `disconnect()` | no server is lost or listed twice; what is down is retried, ever more rarely but in bounded time; what is announced is learnt |
| **Database** `db.cpp`, `server-db.pgc` | one SQL session with its autocommit and cursor, `db_lock` | reads of commands, settings and the server list; inserts of reports | a report whose call returned is stored; what is read was true during the call; every call returns |
| Helpers, timestamps, configuration, packaging | none | | |

How they interact. A receive thread calls `handler->processMessage()`, which is
`fss_client::processMessage()` in the server and `fss_server::processMessage()`
in the client library. In the server that call reaches the registry
(`clientDisconnected()`, the relay of position reports) and the database. The
listener's thread builds clients and registers them. The main thread destroys
clients, which joins their receive threads, and walks the registry without its
lock. In the client library the application's thread moves servers between two
unlocked lists while receive threads move them back.

Hard behaviours: interleavings of the receive threads with whoever installs or
destroys a handler; joins under a lock; a last reference dropped by the thread it
joins; list iterators that outlive their node; connections that close before they
are registered; failing handshakes; partial reads; sends that block. Nothing is persisted by the program itself, and TCP neither repeats nor
reorders, so crash recovery and duplication of messages are no subject here.
`PROJECT.json` lists each hazard at its line.

## Modules

| Module | Models | Composes |
|---|---|---|
| `Connection` | one end of a connection and its receive thread; actions only, no `Next` | |
| `Handoff` | a connection and the application that polls it or installs a handler | extends `Connection`; instance of `Mailbox` |
| `Mailbox` | what a connection promises its application | |
| `Server` | listener, receive threads, registry, main thread, SIGINT | extends `Connection`; instance of `Membership` |
| `Membership` | what the registry promises: join, leave, be destroyed, once each and in this order | |
| `Session` | one aircraft's commands and round trips, on the two server threads that handle them | |
| `Database` | the server's threads on one SQL session, with the web application that edits the same tables | |
| `ClientPool` | the client library: two lists, reconnecting application, receive threads | extends `Connection` |
| `Backoff` | when one server of the client library is tried again, in numbers | |
| `Codec` | packing and decoding on bytes, as operators | |
| `Framing` | `sendMsg()` and `recvMsg()` on a byte stream | extends `Codec` |
| `MCServer`, `MCFraming` | the symmetry set and the message sets for TLC | |
| `ConnectionProofs`, `HandoffProofs`, `ServerProofs`, `SessionProofs`, `DatabaseProofs`, `PoolProofs`, `BackoffProofs`, `FramingProofs` | theorems and lemmas, each about the module it is named for; `FramingProofs` also about `Codec` | |

### Connection

`wire[c]` holds the whole messages the peer wrote and this end did not read, and
`part[c]` says that the peer wrote the beginning of one more, at least its length;
`Framing` shows that bytes and messages agree in this, and has the header cut in
half, which is left out here. `fd` is `"unset"`, `"open"` or `"shut"` (both
ends of the range are -1 in the code). `rpc[c]` is where the receive thread is;
its steps end where the code reads or writes what another thread can change:

| Step | Code |
|---|---|
| `ReceivePart` | `recvMsg()` has a length and waits for the rest (`rpc[c] = "inside"`) |
| `ReceiveMessage`, `ReceiveClosed` | `recvMsg()`; `run = false` on the closed message |
| `ReceiveTorn` | an error inside a message: `recvMsg()` returns a null pointer, and the loop goes on |
| `TestHandler` | `if (this->handler != nullptr)` |
| `PushMessage` | `messages.push(msg)`, and the loop test |
| `HandlerReturns` | `handler->processMessage(msg)` returns, and the loop test |

After `shutdown()` nothing more is read: a read that races it is the same as
one ordered before it. Where the peer closes inside a message, `recv()` returns 0,
which `recvMsg()` adds to what it has and tries again: the thread spins, and no
step is enabled until this end disconnects. Over TLS a message is one record and
comes whole, so `Server` and `ClientPool`, whose connections are TLS, leave
`PeerSendPart`, `ReceivePart` and `ReceiveTorn` out. `Handoff` adds the owner's thread, with the drain loop of
`setHandler()` as three steps. `Mailbox` says what all this amounts to for the
application, without threads, queue or socket: messages are pending until they
are taken, in order by a poller, once each by a handler, the end last, and only
a broken stream loses any (and has a null pointer for one that was torn). `ImplementsMailbox` maps its `pending` to what lies in
the application's hand, the queue, the receive thread's hand and the socket, end
to end. The application of `Handoff` holds the last pointer to the connection when
it destroys its handler (`Destroy`, then `Disconnect`); one that does not is in
`Server`. `std::queue` operations are one step each: what
two of them at the same instant may do to the queue is undefined in C++ and not
modelled.

### Server

Threads: `Listener` (`lpc`), one receive thread per connection (`rpc`, and
`stage` inside `processMessage()`), `Main` (`mpc`). `obj[c]` is the life of the
`fss_client`: alive from its constructor, dying while its destructor runs, then
freed. `lock` is held across steps by the main thread only; the locked parts of
`clientConnected()` and `clientDisconnected()` are one step each, taken when
`~lock`. `clientDisconnected()` is two: the test of `shutting_down`, and the
rest. The five loops over the list use no lock and are one kind of walk:
`cursor[t]` is the client in use. A cursor whose node has gone continues with
what is left or ends, since the outcome is undefined; the properties
`MainWalkOnList` and `RelayTargetAlive` say when that happens. The main loop's
three or four walks of a turn are one. After SIGINT the main thread destroys
`listen`, then the registry.

The connection belongs to the client's `conn` member, but `getConnection()`
returns a copy of that pointer, and `processMessage()` works on such copies
(`server.cpp:251, 283, 323, 351, 378`). `stage[t] = "hold"` is a thread with one
(`HoldConnection`, `ReleaseConnection`). `conn.reset()` (`transport.cpp:410`) is
two actions, therefore. Without a copy in the thread's hands (`DetachClient`) it
destroys the connection: `bye()`, then shutdown (`HangUp`) and the join
(`JoinClient`). With one (`DetachHeldClient`) nothing is shut or joined and the
client is freed under its thread; the copy is then the last pointer, and when the
thread lets go of it (`LastReference`) the connection's destructor runs on the
connection's own thread, whose join of itself throws out of a destructor. A thread
that asks for the connection after the member was cleared uses a null pointer
(`UseCleared`). Both end the process (`aborted`). They need a mismatching
identity: without one a client's thread is past its last message when the client
is destroyed, which `NeverAborts` proves.

Sends have no timeout. `SendsTo(t)` is the peer a thread is writing to: the client
under the cursor of a walk (`sendRTTRequest()`, `sendCommand()`,
`sendSMMSettings()`, the relay), the thread's own client (`stage[t]` is `"reply"`
or `"hold"`), or the client that is told `bye()`. While that peer is there
(`MayBlock`) the step that ends the send may never come: see Fairness.
`fss_message_cb::sendMsg()`, which answers a client that is not identified yet,
tests `conn` and uses it without a copy; the test and the use are one step.
`aircraft`, which decides only who is sent a report, is not kept: a relay may be
held up at any client of the list.

Abstracted: what messages make the server send or store (they change neither
the registry nor a lifetime). A peer acts when its receive thread is about to
read, because what it wrote earlier would only wait in the socket. Each element
of `Conns` is used for one connection.

### Session

One registered client. Its identity message sets `name` first (`SetName`), which
the main thread can read at once; only then is the certificate asked
(`AcceptName`, or `RejectName`, which takes the client off the list: a turn that
has begun goes on with it). The main thread runs a turn per second (`StartTurn`): `sendRTTRequest()` as two steps, `SendRequest`
(the message goes out and has its id) and `ListRequest` (`push_back`), then
`sendCommand()`. The receive thread runs `sendCommand()` too when the aircraft
identifies itself. It takes no lock, so each of its reads and stores is a step:
`ReadClock`, `ReadCommand`, `Test`, `Stamp`, `Remember`, `SendCommand`. The
database is `latest`, the newest command; `NewCommand` is the web application
that enters one. The aircraft answers and obeys (`ClientReceives`).

Timestamps are kept relative: `since` is the time since `last_command_send_ts`,
`lag[t]` the time since thread `t` took its `ts`, so that
`ts > last_command_send_ts + timeout_time` reads `since > lag[t] + Timeout`.
`Tick` is a turn of the main loop, so `Timeout` stands for the 10 s in turns.
A call of `sendCommand()` takes at most `MaxLag` turns; without a bound the
thread that waits longest would decide what time means. Left out: settings,
server lists and reports, which touch nothing `Session` reads.

### ClientPool

An element of `Conns` is an `fss_server` with the connection it currently has;
`ConnectSucceeds` gives it a fresh one. The application's thread (`apc`) runs
`attemptReconnect()`, `connectTo()` and, at the end, `disconnect()`, as
`examples/fake_client.cpp` does. `remove` and `push_back` are separate steps on
both sides. A list is kept as how often each server is on it: a server that
was added twice would count two. A message is the address of a one-entry server
list, or `Null` for everything that leaves the pool alone. Time is the Boolean
`due`: whether `last_tried + retry_delay` has passed.

### Backoff

One `fss_server` with the numbers `ClientPool` leaves out. `reconnect()` is the
steps `ReadClock` (`ts` and `elapsed_time`), `Clear` (the join of the old receive
thread), `NotYet` or `Attempt` (the delay doubles, `last_tried = ts`),
`ConnectFails` or `ConnectSucceeds`, `Install`, `Drain`, `Forget`; then `Move` or
`Add` to a list. The receive thread may find the end of the stream at any moment
after the connection is made; it calls the handler or queues the message, puts
the server back (`RequireReconnect`) and stores `last_tried = 0` (`ResetTried`).
Times are relative and saturate at `Long`, which also stands for a `last_tried`
of 0. `Period` bounds a step of the application and the pause between two calls
for this server. The histories `wait` (what a doubling delay with a cap asks for after
the failures so far) and `down` (how long nobody has tried) are kept apart from
the program's own variables, so that the properties can compare the two.

### Database

A call of `db_connection` takes `db_lock` (`Lock`), runs its SQL statements one
step each (`FindAsset`, then `Insert` or `Select`; for the server list `Open`,
`Fetch` per row, `EndFetch`) and unlocks. A statement is a transaction of its own
while `autocommit` is on; between `Open` and `EndFetch` it is off, and what the
session inserts would stay in `pending`. The web application writes the same
tables at any moment (`Edit`), the session may be lost at any moment (`Lose`) and
is never made again; statements then fail and the calls return nothing. Commands
and settings are numbered in the order they are entered; `during` records every
answer that would have been right at some moment of a call.

### Codec and Framing

Bytes are integers 0..255. `Layout(type)` gives the fields in wire order in
the groups that `unpackData()` reads under one length test. Multi-byte integers
are big-endian: what is left of an integer after division by 256, again and
again (`Quotients`), and for a signed one in two's complement, as division rounds
down. Everything else runs along a sequence, and is a `Fold` over its indices.
Degrees and volts are taken as the fixed-point integers that go on the wire.
`WellFormed(m)` says which messages a program can make: all the members of the
class, integers that fit their width on the wire, strings of less than 65536
bytes, a name without a zero byte, and no more than 65535 bytes in all. The last
is not tested in the code, which would keep the length modulo 65536; TLC
evaluates `WellFormed` for every message `Framing` is given.

`Framing` cuts the stream after `"message"`, in the
`"body"` (after 13 bytes) or byte by byte from the `"header"` on; the last, and
`Die`, only while all that was sent is in `Frail`, for size. TLS hands
over whole records and `session.send()` writes one per message, so a header cut
can only occur on the plain connections of `transport.cpp`. `Die` is a sender
whose bytes under way never arrive. After a header was read in half the receiver
is out of step; its further reading is not modelled. An error (rather than the
end) in the middle of a message, which ends `recvMsg()` with a null message, is in
`Connection` (`ReceiveTorn`) and not here.

`Expected(m)` is what decoding gives: equal to `m` but for two things the code
does, a lost `tslc` and the type of `identity_required`.

## Runs

All runs but `backoff` set `CHECK_DEADLOCK FALSE`: peers may stay silent for
ever, and calls and messages are bounded, so these systems may stop.

| Run | Instance | Shows |
|---|---|---|
| `handoff` | 1 connection, up to 3 messages, undecodable and incomplete ones among them, polled or with a handler | `PollFIFO`: nothing lost, repeated or reordered for a poller, the end last, a null pointer only where a message was torn; `ImplementsMailbox`: the refinement; `PollSeesClosed`; `ExactlyOnce`, `ClosedOnce`, `ArrivalsAreHandled` with a handler; `DisconnectFinishes` |
| `server_safety` | 2 connections, all messages but requests for a round trip, handshakes fail, SIGINT | `Accounting`, `Ownership`, `MainWalkAlive`; `FreedIsQuiet`: no thread is left in a freed client but one about to abort; `RegistrySpec`: the refinement of `Membership` |
| `server_liveness` | 2 connections, no SIGINT, no mismatching identity, peers that read or leave | `ClosedWhenListed`, `RegistryLive`, `MainLoopTurns`, `NoCallbackAfterDestroy` |
| `session` | 2 commands, 2 round trips, repetition after 1 turn, name accepted or not | `RememberedIsSent`, `TripsAccounted`, `LatestIsHeld` |
| `database` | 2 threads of 2 calls, 2 edits, 2 servers of which one cannot be read | `ReturnedIsStored`, `ReadsAreCurrent`, `CallsReturn` |
| `pool` | 2 servers, 2 addresses of which one is configured, the application may quit | `InOnePlace`, `ListedHasConnection`, `ClearedIsQuiet`; `Reconnects`, `LearnsServers`, `DisconnectFinishes` |
| `backoff` | delays 2, 4, 8 with cap 5, steps of up to 2 | `AttemptsSpaced`: the delay is kept from call to call, not more and not less; `RetriedInTime` |
| `framing` | streams of up to 2 of some 65 messages, cut in the body; 3 of them cut anywhere, with a sender that may vanish | `InSync`: packing, framing and decoding agree and nothing partial is handed on; `AllReceived`, `EndReported` |

Bounds. Two connections give every race of two clients, which is all the
registry ever relates at once, and the proofs hold for any number;
`server_safety` takes connections as interchangeable, as its properties name none and none is
about liveness. Messages in
`handoff` can be in each of the three places a message can be (socket, receive
thread, queue); `MaxQueue` bounds what is queued before a handler is there. In
`session` two commands make an older and a newer one, one for each thread, and
`Timeout = MaxLag = 1` lets a call outlast the repetition; `MaxOut` bounds the
socket. In `database` two threads are enough for one to wait for the other and
to share its transaction, and two edits for the tables to change twice within a
call. In `pool` one server starts unconnected and one is learnt, so both lists
change on both sides; that the same holds of any number is proved. In `backoff` the delay is doubled twice before it passes
the cap, and `Period` equals the first delay. `MaxSent` bounds a stream: the second message finds the stream where the
first left it, and the string lengths 0 to 9 pass every residue of the 8-byte
alignment; a message of each way to end (`SomeMessages`) is cut anywhere. The
longest runs take two to four minutes: `server_safety` has 1.7 million states and
`server_liveness` 150,000 with four temporal properties; the others have less
than a million.

`server_liveness` leaves out mismatching identities, and `PollSeesClosed` is
claimed for streams without undecodable or torn messages that do not end inside a
message: the next section says why. Requests for a round trip take the same copy
of the connection as an identity does; the proofs include them.

### Disagreements with the code's own documents

Each of these runs checks one property that a comment or a test states and the
code does not keep; `PROJECT.json` quotes the line.

| Run | Property | What happens |
|---|---|---|
| `handoff_stranded` | `HandlerGetsAll` | a message tested before and pushed after `setHandler()` stays in the queue |
| `server_mismatch` | `MainLoopTurns` | cleanup joins, under the lock, a thread that waits for the lock |
| `server_zombie` | `ClosedIsCleaned` | a client that closes before it is registered stays listed |
| `pool_lost_close` | `ClosedIsRetried` | a connection that closes before it is listed is never retried |

Others were met while modelling and are stated without a run of their own:

- `getMsg()` never gets past the null pointer of an undecodable or torn message at the front of the queue (`transport.cpp:121`); hence the first premise of `PollSeesClosed`.
- At the end of the stream inside a message `recvMsg()` reads for ever (`transport.cpp:278-287`), and nobody is told of the end; hence the second premise of `PollSeesClosed` (`CutOff`), and `Truncated` in `EndReported`.
- After a mismatching identity the process may abort: the client is destroyed while its thread holds a copy of the connection's pointer, or before it takes one (`LastReference` and `UseCleared` in `Server`, `transport.cpp:410` with `server.cpp:323, 378`).
- One peer that does not read stops the server: the main thread's sends have no timeout, so no client is destroyed and no other is sent a command (`MainLoopTurns`, `ClosedWhenListed` and `RegistryLive` fail without `PeersRead`).
- The server's destructor can deadlock as cleanup does (`ShutdownFinishes` in `Server`).
- A failed handshake is registered as a client and never leaves (`ListedIsServed` in `Server`).
- The node under the main thread's unlocked walk can be removed (`MainWalkOnList`), and a relay can use a destroyed client (`RelayTargetAlive`), both in `Server`.
- A header of which one byte arrives is dropped and the receiver is out of step (`transport.cpp:307`); hence the premise of `InSync` and `~InStep` in `EndReported`.
- `tslc` is not packed, and `identity_required` is decoded as `identity` (`Expected` in `Framing`).
- `sendCommand()` may send a command twice, or an older one after a newer, when both threads run it; `LatestIsHeld` says that this does not last.
- Between `SetName` and `RejectName` the main thread may send a command under a name that is then rejected.
- Once the session with the database is lost, reports are dropped and reads find nothing, silently and for good: nothing connects again (`server-db.pgc:25`; `Lose` in `Database`).
- A server that accepts connections and closes them at once is tried in every call of `attemptReconnect()`: only failures to connect make the delay grow.
- A round trip that is answered before `push_back` stays on `outstanding_rtt_requests` and is never recorded; `TripsAccounted` counts it as outstanding.

## Fairness

Weak fairness of every thread's own steps: the operating system runs threads
that can run. `clientDisconnected()` and the listener get strong fairness where
they wait for the registry's lock: it is free for a second in every turn of the
main loop (`sleep(1)`), which no waiter misses for ever. Nothing makes a peer
connect, answer a handshake, send or leave; nothing makes SIGINT arrive.

In `Server` this is `CodeRuns`, and it covers a step that ends a send only when
the send cannot block (`~MayBlock`). That blocking sends return is an assumption on
the peers and stands apart: `PeersRead` says that a peer the server writes to reads
it or goes away. The code does not see to that, with a timeout or otherwise, so the
three liveness properties of `server_liveness` are claimed under `PeersRead` and
each of them fails in TLC without it: the main thread stays in a walk.
`MainLoopTurns` asks for the walks and for the end of them, so that a thread that
stays in one does not count as turning.

`ClientPool` assumes that the application calls `attemptReconnect()` again and
again, that clocks advance, and that connecting comes to an end: the resolver,
the handshake, and the writes of `bye()` and `sendIdentify()` to a server that
reads. `ReachableSpec` adds that a server tried again
and again answers at some point, without which no reconnection could be
expected. In `Framing`, what was written arrives and the receive thread reads;
its fairness is written with the enabling condition `CanReceive` spelled out. In
`Database` statements come back, and a thread that waits for the mutex gets it at
some point when it is free again and again (strong fairness of `Lock`); nothing
makes a thread call. `Backoff` needs no fairness: it bounds the time by
`Period` and says how long things take. In
`Session` time passes, both threads run, and the aircraft identifies itself and
reads what it is sent; nobody need enter a command.

## Proofs

`ServerProofs` proves, for any set of connections and any messages:

| Theorem | States |
|---|---|
| `Invariance` | `Spec => []Inv` |
| `TypeCorrect`, `AccountingHolds`, `OwnershipHolds`, `FreedIsQuietHolds`, `MainWalkAliveHolds` | the invariants of `server_safety` |
| `RegistryImplementsMembership` | `Spec => RegistrySpec` |
| `NoCallbackHolds` | `"mismatch" \notin Received` implies `Spec => []NoCallbackAfterDestroy` |
| `NeverAborts` | `"mismatch" \notin Received` implies `Spec => []~aborted` |

`SessionProofs` proves, for any number of commands and requests and any bound on
the delays:

| Theorem | States |
|---|---|
| `SessionInvariance` | `Spec => []SessionInv` |
| `SessionTypeCorrect`, `TripsAccountedHolds`, `RememberedIsSentHolds` | the invariants of `session` |

`HandoffProofs`, for any set of connections and any number of messages:

| Theorem | States |
|---|---|
| `HandoffInvariance` | `Spec => []Inv` |
| `OnceInvariance` | `Spec => []OnceInv` |
| `HandoffTypeCorrect`, `PollFIFOHolds`, `ExactlyOnceHolds`, `ClosedOnceHolds` | the invariants of `handoff` |
| `HandoffImplementsMailbox` | `Spec => ImplementsMailbox` |

`PoolProofs`, for any servers and addresses:

| Theorem | States |
|---|---|
| `PoolInvariance` | `Spec => []Inv` |
| `PoolTypeCorrect`, `InOnePlaceHolds`, `ListedHasConnectionHolds`, `ClearedIsQuietHolds` | the invariants of `pool` |

`BackoffProofs`, for any first delay, cap and bound on the application's steps:

| Theorem | States |
|---|---|
| `BackoffInvariance` | `Spec => []Inv` |
| `BackoffTypeCorrect`, `RetriedInTimeHolds`, `AttemptsSpacedHolds` | the properties of `backoff`, the last an action property |

`DatabaseProofs`, for any threads, names, servers, calls and edits:

| Theorem | States |
|---|---|
| `DatabaseInvariance` | `Spec => []Inv` |
| `DatabaseTypeCorrect`, `ReturnedIsStoredHolds`, `ReadsAreCurrentHolds` | the invariants of `database` |

`FramingProofs`, for any messages that are well-formed, any number of them, and
streams cut in the places of `Cut`:

| Theorem | States |
|---|---|
| `CodecRoundTrip` | `WellFormed(m)` implies that `Decode` of as many of the bytes `GetPacked(m)` as the first two of them say is `Expected(m)`, and that the rest is the padding |
| `FramingInvariance` | `Spec => []FramingInv` |
| `FramingTypeCorrect`, `InSyncHolds` | the invariants of `framing` |

Assumptions: the named ones of each module (`SessionAssumption`,
`MessageAssumption`, `ServerAssumption`, `PoolAssumption`, `BackoffAssumption`,
`DatabaseAssumption`, `FramingAssumption`), which say what the constants are and keep threads,
connections and the special values apart. TLC evaluates all of them.
`NoCallbackHolds` and `NeverAborts` assume in addition that no mismatching identity
is received: with one both are false.

The argument. None of the properties is inductive alone. That a destroyed
client is quiet needs to know which threads may still run on it. There are three
ways to `"freed"`: `JoinClient`, after the thread was joined; `DestroyListed` at
shutdown, when every listed connection has been shut and joined (`ThreadInv`); and
`DetachHeldClient`, which leaves the thread in `processMessage()` with the last
pointer, the case `FreedIsQuiet` excepts: every other action of such a thread asks
that its client is not freed, so the only step it has left is `LastReference`. Ownership needs to know where the listener is with the client it
carries and that it is not on a list yet (`ListenerInv`), and which client the
main thread is destroying (`MainInv`). `MainWalkAlive` follows from ownership
once the main thread's cursor is known to be set only while it walks: it
destroys nothing then, and nobody else destroys. `Accounting` needs that the
list is finite and that only a listed client is queued. `Inv` is the conjunction;
TLC checked it before it was proved. `ConnectionProofs` holds the lemmas about
the shared actions: each keeps the types and the relation of `run` to `rpc`.
The refinement proof maps each action of `Server` to `Connect`, `Disconnect`,
`Destroy`, `StopServing` or a stutter, with `Inv` as an assumption on the step.

`SessionInv` adds to the properties only that a turn which requests a round trip
has one left within the bound, and one which lists it has requested it
(`TurnInv`). `RememberedIsSent` survives every interleaving because `Remember`
leaves its own thread about to send the id it stores, whichever thread stores
last, and a command in the socket leaves it only into the aircraft's hands.

`NoCallbackAfterDestroy` rests on `CloseInv`: without mismatches a client is
queued for destruction only by its own thread on its closed message, after which
the thread leaves its loop, so nothing but the return is left of the callback
(the unlock and that return are one step of the model). `NeverAborts` follows: a
client that is being destroyed has no thread that could ask for its connection.

`Handoff`'s `Inv` is `TypeOK`, `Linked` and `Ordered`. `Linked` ties what each
thread holds in its hand to where it stands, and says that a thread inside a
message has more of it to read or lost it to a reset. `Ordered` is `PollFIFO` with
one thing more: a thread still inside a message has not reported it torn, so a
second null pointer never comes. The refinement is argued on
`Pending`, the concatenation of the four places a message can be in: each
step of a thread moves a message across the border of two neighbouring parts and
leaves the whole alone, takes one out (`Poll`, `Handle`), cuts the end
off (`Break`, `HangUp`) or adds to it (`Write`, `End`; the null pointer of a torn
message is a `Write`). The first lemmas of the module say
so of sequences in general. `ExactlyOnce` and `ClosedOnce` look at the same places
with what the application has been given in front: `Line(c)`. `Apart(s, T)` says
that no message of `T` stands in `s` twice, and `Single` adds what makes that
inductive: what stands in the line was sent, what was sent is numbered below the
next, and the end is only there when the receive thread's loop is over. A step
that moves a message leaves the line alone, one that takes the end off the stream
or writes a message widens it by one place (`OneMore`), and one that breaks the
stream cuts it.

In `PoolProofs` the hard part is `InOnePlace`: a server leaves one list and
enters the other in separate steps, on two sides. `Placed` counts the hands a
server can be in; `AppKnows` and `ReconnectedWait` say what the application holds
at each point of `attemptReconnect()` and that what it has reconnected is still
on the list it will be taken from; `StagesKnown` ties a call in progress to its
thread; `ConnectionsKnown` says that a server with a thread has a connection.

In `Backoff`, `AttemptsSpaced` is true because no receive thread is left when an
attempt is noted: `ThreadInv` says that without a connection there is none, so
nothing clears `last_tried` behind a failed attempt and `since = down` while it
lasts (`DelayInv`); `ElapsedInv` carries this over the call that read the clock,
and `TimeInv` adds up the steps for `RetriedInTime`.

`DatabaseProofs`: `TransactionInv` says that nothing is ever pending, since the
mutex keeps other threads out while autocommit is off; `SnapshotInv` that the
rows fetched and those the cursor still has are together the list of one moment.

`FramingProofs` has two parts. The codec is made of recursive functions, and what
they give is for every message and not for a bounded one. The provers have no
induction, but there are two facts from which it follows: a set of numbers has a
smallest one (`NatMin`, from the well-foundedness of `<`), so that a set with 0
and with the next of each of its numbers is all of them (`SetInduction`). With it
a recursive definition is shown to have a solution (`Recursion`) and no other
(`RecursionUnique`), after which each fold can be followed index by index:
`QuotientsSteps`, `PackGroupSteps`, `PackLayoutSteps`, `PackServersSteps`. On the
way out each step extends the bytes (`Extends`); on the way in the reader's offset
is where the packer stood, which is what the alignment of strings is about
(`ReadFieldBack`: both sides pad by the distance to the same boundary). So a
field, a group, a layout and a list of servers are read back
(`ReadGroupBack`, `ReadLayoutBack`, `ServersBack`), whatever overwrites the
header's first two bytes afterwards (`Agrees`), and `DecodeBack` finds the type
again from its code.

The stream: let `w` be the bytes of all messages sent, one after the other, and
`off[i]` where the first `i` of them end (`Wire`). `FramingInv` says that `data`,
`stream` and `written` are pieces of `w`, each beginning where the one before ends,
`data` where the last message handed on ended, and reaching no further than the
next message (`Reading`, `Pending`, with `Window` for a piece at its place). With
the first two bytes of a message in hand its length is known to be right
(`SyncedLength`, from `GetPackedType`), so `ReadRest` reads to the boundary and
`DecodeMsg` hands on the message. A header of which one byte came, or the end of
the stream, leaves the receiver with nothing (`Ended`), and nothing more is
claimed. TLC checked the invariant, for the one `w` that can be, before it
was proved.

Only model-checked: liveness, which is out of the prover's reach, as is
`ENABLED`. Every invariant the runs check is proved, and so are `AttemptsSpaced`,
the only action property, and the safety properties stated as refinements.

## Not modelled

- The contents of reports, settings and server lists; `malloc()` failing in `server-db.pgc`; `check_asset()`, which nothing calls.
- Doubles: degrees and volts are the fixed-point integers on the wire. A negative voltage, which would be read back unsigned, does not fit its field. `Bytes` keeps 16 bits of a length as the code does; what becomes of a message of 65536 bytes is not followed.
- A clock that is set back: `ts - last_tried` would wrap and the server be tried at once.
- The status callbacks of the client library: they change no state, and nothing says in which order they should come.
- GnuTLS, certificates, name resolution, the configuration file, packaging.
- Reuse of descriptor numbers, and the window in which the listener's thread runs before its derived class is constructed.
- Two standard library operations on one container at the same instant, or a `std::string` read while it is assigned: undefined, and taken as one after the other.

## Plan

1. (done) `Connection`, `Handoff`: the receive thread and the two ways messages reach an application; `Mailbox` and `HandoffProofs`.
2. (done) `Server` with `Membership`; `ServerProofs`.
3. (done) `ClientPool`, `PoolProofs`; `Backoff`, `BackoffProofs`; `Codec` and `Framing`.
4. (done) `Session` with identification, `SessionProofs`; `Database`, `DatabaseProofs`.
5. (done) `FramingProofs`; `ExactlyOnce` and `ClosedOnce` in `HandoffProofs`.
6. Models left: the listener's start and end in its base class; `Framing` refining the wire of `Connection`; conversions of degrees, altitudes and voltages.
