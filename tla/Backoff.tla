-------------------------------- MODULE Backoff --------------------------------
(***************************************************************************)
(* When fss_server::reconnect() of src/src/client-ssl.cpp tries again:     *)
(* last_tried and retry_delay of one fss_server, which the application's   *)
(* thread and the receive thread of its connection both write, without a   *)
(* lock.  ClientPool has all the servers and takes the delay to have       *)
(* passed at some point; here are the numbers.                             *)
(*                                                                         *)
(* Times are relative to the present and counted up to Long.  The clock is *)
(* taken to be steady.  retry_count is left out: nothing reads it.         *)
(***************************************************************************)
EXTENDS Integers

CONSTANTS
    Start,    \* retry_delay_start
    Cap,      \* retry_delay_cap
    Period    \* bound: time of one step of the application, and from one call of
              \* attemptReconnect() to the next

ASSUME BackoffAssumption ==
    /\ Start \in Nat \ {0} /\ Cap \in Nat /\ Period \in Nat
    /\ Start <= Cap

VARIABLES
    since,         \* time since last_tried; Long when that is 0
    retry_delay,
    list,          \* the list the server is on
    conn,          \* conn # nullptr
    handler,       \* setHandler() was called
    queued,        \* the closed message waits in the connection's queue
    rpc,           \* the receive thread
    apc,           \* the application
    elapsed,       \* the local elapsed_time
    lag,           \* time since the local ts was read
    pause,         \* time since the application's last step
    wait,          \* history: what the failed attempts ask for; 0 if there are none
    down           \* history: time since the last attempt or, if later, the close

threadVars == <<conn, handler, queued, rpc>>
callVars == <<elapsed, lag>>
vars == <<since, retry_delay, list, threadVars, apc, callVars, pause, wait, down>>

(* A server that is down is tried within this time, see RetriedInTime. *)
Limit == 2 * Cap + 6 * Period

Long == Limit + 1

(***************************************************************************)
(* The receive thread: none, or in "recv"; about to "push" the closed      *)
(* message, in the "call" of processMessage(), there about to "reset"      *)
(* last_tried; "done".  The application: "idle"; in reconnect() about to   *)
(* "clear" the old connection, to "test" the delay, in "connect", about to *)
(* "install" the handler, to "drain" the queue, to "forget" the failures;  *)
(* then to "move" the server, or to "add" a new one.                       *)
(***************************************************************************)
TypeOK ==
    /\ since \in 0..Long
    /\ retry_delay \in Start..(2 * Cap)
    /\ list \in {"none", "reconnect", "servers"}
    /\ conn \in BOOLEAN /\ handler \in BOOLEAN /\ queued \in BOOLEAN
    /\ rpc \in {"none", "recv", "push", "call", "reset", "done"}
    /\ apc \in {"idle", "clear", "test", "connect", "install", "drain", "forget",
                "move", "add"}
    /\ elapsed \in 0..Long
    /\ lag \in 0..(2 * Period)
    /\ pause \in 0..Period
    /\ wait \in 0..(2 * Cap)
    /\ down \in 0..Long

(* A server of the configuration file, or a new one that connectTo() has      *)
(* made and is about to try.                                                 *)
Init ==
    /\ \/ list = "reconnect" /\ apc = "idle"
       \/ list = "none" /\ apc = "test"
    /\ since = Long
    /\ retry_delay = Start
    /\ conn = FALSE
    /\ handler = FALSE
    /\ queued = FALSE
    /\ rpc = "none"
    /\ elapsed = Long
    /\ lag = 0
    /\ pause = 0
    /\ wait = 0
    /\ down = 0

-----------------------------------------------------------------------------
Later(n) == IF n < Long THEN n + 1 ELSE n

(* Time passes, but not more than Period without a step of the application:  *)
(* a join or an attempt that takes longer is given more steps of time only   *)
(* by a larger Period.                                                       *)
Tick ==
    /\ pause < Period
    /\ pause' = pause + 1
    /\ since' = Later(since)
    /\ down' = Later(down)
    /\ lag' = IF apc \in {"clear", "test"} THEN lag + 1 ELSE lag
    /\ UNCHANGED <<retry_delay, list, threadVars, apc, elapsed, wait>>

Step(from, to) ==
    /\ apc = from
    /\ apc' = to
    /\ pause' = 0

-----------------------------------------------------------------------------
(* The application: attemptReconnect() and reconnect(). *)

(* A call that does not find the server among the unconnected ones. *)
PassBy ==
    /\ Step("idle", "idle")
    /\ list = "servers"
    /\ UNCHANGED <<since, retry_delay, list, threadVars, callVars, wait, down>>

(* ts and elapsed_time are taken before the old connection is cleared. *)
ReadClock ==
    /\ Step("idle", IF conn THEN "clear" ELSE "test")
    /\ list = "reconnect"
    /\ elapsed' = since
    /\ lag' = 0
    /\ UNCHANGED <<since, retry_delay, list, threadVars, wait, down>>

(* Broken: the receive thread of the old connection is not waited for. *)
ClearDetached ==
    /\ Step("clear", "test")
    /\ conn' = FALSE
    /\ UNCHANGED <<since, retry_delay, list, handler, queued, rpc, callVars, wait, down>>

(* clearConnection(): the destructor of the connection joins its thread. *)
Clear ==
    /\ Step("clear", "test")
    /\ rpc = "done"
    /\ conn' = FALSE
    /\ rpc' = "none"
    /\ UNCHANGED <<since, retry_delay, list, handler, queued, callVars, wait, down>>

NotYet ==
    /\ Step("test", IF list = "none" THEN "add" ELSE "idle")
    /\ elapsed <= retry_delay
    /\ lag' = 0
    /\ UNCHANGED <<since, retry_delay, list, threadVars, elapsed, wait, down>>

Twice(delay) == IF delay < Cap THEN delay + delay ELSE delay

(* What the policy asks for after one more failure. *)
NextWait == Twice(IF wait = 0 THEN Start ELSE wait)

(* Broken: the last delay is doubled again and again. *)
AttemptUncapped ==
    /\ Step("test", "connect")
    /\ elapsed > retry_delay
    /\ retry_delay' = retry_delay + retry_delay
    /\ since' = lag
    /\ lag' = 0
    /\ wait' = NextWait
    /\ down' = lag
    /\ UNCHANGED <<list, threadVars, elapsed>>

(* The delay doubles and the attempt is noted, with the time of the call. *)
Attempt ==
    /\ Step("test", "connect")
    /\ elapsed > retry_delay
    /\ retry_delay' = Twice(retry_delay)
    /\ since' = lag
    /\ lag' = 0
    /\ wait' = NextWait
    /\ down' = lag
    /\ UNCHANGED <<list, threadVars, elapsed>>

ConnectFails ==
    /\ Step("connect", IF list = "none" THEN "add" ELSE "idle")
    /\ UNCHANGED <<since, retry_delay, list, threadVars, callVars, wait, down>>

ConnectSucceeds ==
    /\ Step("connect", "install")
    /\ conn' = TRUE
    /\ handler' = FALSE
    /\ queued' = FALSE
    /\ rpc' = "recv"
    /\ wait' = 0
    /\ UNCHANGED <<since, retry_delay, list, callVars, down>>

Install ==
    /\ Step("install", "drain")
    /\ handler' = TRUE
    /\ UNCHANGED <<since, retry_delay, list, conn, queued, rpc, callVars, wait, down>>

(* A closed message found in the queue is handled at once, by this thread. *)
Drain ==
    /\ Step("drain", "forget")
    /\ queued' = FALSE
    /\ since' = IF queued THEN Long ELSE since
    /\ UNCHANGED <<retry_delay, list, conn, handler, rpc, callVars, wait, down>>

(* After sendIdentify(): last_tried = 0, retry_delay = retry_delay_start. *)
Forget ==
    /\ Step("forget", IF list = "none" THEN "add" ELSE "move")
    /\ since' = Long
    /\ retry_delay' = Start
    /\ UNCHANGED <<list, threadVars, callVars, wait, down>>

(* From reconnect_servers to servers. *)
Move ==
    /\ Step("move", "idle")
    /\ list' = "servers"
    /\ UNCHANGED <<since, retry_delay, threadVars, callVars, wait, down>>

(* addServer() *)
Add ==
    /\ Step("add", "idle")
    /\ list' = IF conn THEN "servers" ELSE "reconnect"
    /\ UNCHANGED <<since, retry_delay, threadVars, callVars, wait, down>>

Application ==
    \/ PassBy \/ ReadClock \/ Clear \/ NotYet \/ Attempt \/ ConnectFails
    \/ ConnectSucceeds \/ Install \/ Drain \/ Forget \/ Move \/ Add

-----------------------------------------------------------------------------
(* The receive thread, from the end of the stream on. *)

ReceiveClosed ==
    /\ rpc = "recv"
    /\ rpc' = IF handler THEN "call" ELSE "push"
    /\ UNCHANGED <<since, retry_delay, list, conn, handler, queued, apc, callVars, pause,
                   wait, down>>

(* After setHandler() has drained the queue nobody takes the message. *)
PushClosed ==
    /\ rpc = "push"
    /\ rpc' = "done"
    /\ queued' = TRUE
    /\ UNCHANGED <<since, retry_delay, list, conn, handler, apc, callVars, pause, wait,
                   down>>

(* serverRequiresReconnect() moves a server that is on the list of the        *)
(* connected ones, ...                                                       *)
RequireReconnect ==
    /\ rpc = "call"
    /\ rpc' = "reset"
    /\ IF list = "servers"
       THEN list' = "reconnect" /\ down' = 0
       ELSE UNCHANGED <<list, down>>
    /\ UNCHANGED <<since, retry_delay, conn, handler, queued, apc, callVars, pause, wait>>

(* ... and after that processMessage() sets last_tried = 0. *)
ResetTried ==
    /\ rpc = "reset"
    /\ rpc' = "done"
    /\ since' = Long
    /\ UNCHANGED <<retry_delay, list, conn, handler, queued, apc, callVars, pause, wait,
                   down>>

Receiver == ReceiveClosed \/ PushClosed \/ RequireReconnect \/ ResetTried

-----------------------------------------------------------------------------
Next == Tick \/ Application \/ Receiver

Spec == Init /\ [][Next]_vars

-----------------------------------------------------------------------------
(* Properties. *)

(* reconnect() tries again when the delay since the failed attempt has       *)
(* passed, from call to call, not before and not after: the receive thread   *)
(* of an earlier connection does not clear last_tried behind a new attempt,  *)
(* and a server that closed is tried at once, however often it failed        *)
(* before it was connected.                                                  *)
AttemptsSpaced ==
    [][/\ Attempt => wait = 0 \/ down - lag > wait
       /\ NotYet  => wait > 0 /\ down - lag <= wait]_vars

(* A server that is down is not waited for longer than the doubled cap and   *)
(* some steps of the application, whichever thread put it on the list.       *)
RetriedInTime ==
    list = "reconnect" /\ apc \in {"idle", "clear", "test"} => down <= Limit

===============================================================================
