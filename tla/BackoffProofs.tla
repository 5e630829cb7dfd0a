----------------------------- MODULE BackoffProofs -----------------------------
(***************************************************************************)
(* Theorems about Backoff, for any first delay, any cap not below it and   *)
(* any bound on the application's steps.                                   *)
(***************************************************************************)
EXTENDS Backoff, TLAPS

(* Where the two threads can be: without a connection there is no receive     *)
(* thread, and one that is cleared is past serverRequiresReconnect().        *)
ThreadInv ==
    /\ conn <=> rpc # "none"
    /\ apc \in {"test", "connect"} => ~conn
    /\ apc \in {"install", "drain", "forget", "move"} => conn
    /\ list = "servers" => conn /\ apc = "idle"
    /\ list = "none" => apc \in {"test", "connect", "install", "drain", "forget", "add"}
    /\ apc = "clear" => list = "reconnect" /\ conn
    /\ apc \in {"idle", "clear"} /\ list = "reconnect" /\ conn => rpc \in {"reset", "done"}
    /\ apc = "move" => list = "reconnect"
    /\ apc = "add" => list = "none"

(* Nothing failed: the variables say so once reconnect() has returned.        *)
(* Something failed: they are what the policy says.                          *)
DelayInv ==
    /\ wait = 0 /\ apc \notin {"install", "drain", "forget"} =>
          since = Long /\ retry_delay = Start
    /\ wait > 0 => ~conn /\ retry_delay = wait /\ since = down
    /\ apc = "test" /\ list = "none" => wait = 0
    /\ apc = "connect" => wait > 0
    /\ apc = "add" /\ ~conn => wait > 0
    /\ apc \in {"install", "drain", "forget"} => wait = 0

(* elapsed_time of the call under way is what it was when ts was read.        *)
ElapsedInv ==
    /\ apc \in {"clear", "test"} /\ wait = 0 => elapsed = Long
    /\ apc = "test" /\ wait > 0 => down = elapsed + lag

(* How long it has been, step by step of the application.                    *)
TimeInv ==
    /\ apc = "clear" => lag <= pause
    /\ apc = "test" => lag <= Period + pause
    /\ apc = "test" /\ wait > 0 => lag <= pause
    /\ wait = 0 /\ apc = "idle" /\ list = "reconnect" => down <= pause
    /\ wait = 0 /\ apc = "clear" => down <= Period + pause
    /\ wait = 0 /\ apc = "test" /\ list = "reconnect" => down <= 2 * Period + pause
    /\ apc = "connect" => down <= 2 * Period + pause
    /\ apc = "add" /\ wait > 0 => down <= 3 * Period + pause
    /\ apc = "idle" /\ wait > 0 => down <= 2 * Cap + 4 * Period + pause
    /\ apc = "test" /\ wait > 0 => down <= 2 * Cap + 5 * Period + pause

Inv == TypeOK /\ ThreadInv /\ DelayInv /\ ElapsedInv /\ TimeInv

(* The first state. *)
LEMMA InitInv == Init => Inv
<1> SUFFICES ASSUME Init PROVE Inv
  OBVIOUS
<1> USE BackoffAssumption DEF Init, Long, Limit
<1>1. conn \in BOOLEAN /\ handler \in BOOLEAN /\ queued \in BOOLEAN
  BY Zenon
<1>2. TypeOK
  BY <1>1 DEF TypeOK
<1>3. ThreadInv /\ DelayInv /\ ElapsedInv /\ TimeInv
  BY DEF ThreadInv, DelayInv, ElapsedInv, TimeInv
<1> QED BY <1>2, <1>3 DEF Inv

(* The types, for each action.                                               *)
LEMMA TypeStep ==
    ASSUME Inv, [Next]_vars
    PROVE  TypeOK'
<1> USE BackoffAssumption DEF Inv, TypeOK, vars, threadVars, callVars, Step, Later, Long,
       Limit, DelayInv, TimeInv
<1>1. CASE UNCHANGED vars
  BY <1>1
<1>2. CASE Tick
  BY <1>2 DEF Tick
<1>3. CASE PassBy
  BY <1>3 DEF PassBy
<1>4. CASE ReadClock
  BY <1>4 DEF ReadClock
<1>5. CASE Clear
  <2>1. conn' \in BOOLEAN
    BY <1>5, Zenon DEF Clear
  <2> QED BY <1>5, <2>1 DEF Clear
<1>6. CASE NotYet
  BY <1>6 DEF NotYet
<1>7. CASE Attempt
  BY <1>7 DEF Attempt, Twice, NextWait
<1>8. CASE ConnectFails
  BY <1>8 DEF ConnectFails
<1>9. CASE ConnectSucceeds
  <2>1. conn' \in BOOLEAN /\ handler' \in BOOLEAN /\ queued' \in BOOLEAN
    BY <1>9, Zenon DEF ConnectSucceeds
  <2> QED BY <1>9, <2>1 DEF ConnectSucceeds
<1>10. CASE Install
  BY <1>10 DEF Install
<1>11. CASE Drain
  <2>1. queued' \in BOOLEAN
    BY <1>11, Zenon DEF Drain
  <2> QED BY <1>11, <2>1 DEF Drain
<1>12. CASE Forget
  BY <1>12 DEF Forget
<1>13. CASE Move
  BY <1>13 DEF Move
<1>14. CASE Add
  BY <1>14 DEF Add
<1>15. CASE ReceiveClosed
  BY <1>15 DEF ReceiveClosed
<1>16. CASE PushClosed
  BY <1>16 DEF PushClosed
<1>17. CASE RequireReconnect
  BY <1>17 DEF RequireReconnect
<1>18. CASE ResetTried
  BY <1>18 DEF ResetTried
<1> QED BY <1>1, <1>2, <1>3, <1>4, <1>5, <1>6, <1>7, <1>8, <1>9, <1>10, <1>11, <1>12, <1>13, <1>14, <1>15, <1>16, <1>17, <1>18
       DEF Next, Application, Receiver

(* Where the threads are.                                                    *)
LEMMA ThreadStep ==
    ASSUME Inv, [Next]_vars
    PROVE  ThreadInv'
<1> USE BackoffAssumption DEF Inv, TypeOK, vars, threadVars, callVars, Step, Later, Long,
       Limit, ThreadInv, DelayInv
<1>1. CASE UNCHANGED vars
  BY <1>1
<1>2. CASE Tick
  BY <1>2 DEF Tick
<1>3. CASE PassBy
  BY <1>3 DEF PassBy
<1>4. CASE ReadClock
  BY <1>4 DEF ReadClock
<1>5. CASE Clear
  BY <1>5 DEF Clear
<1>6. CASE NotYet
  BY <1>6 DEF NotYet
<1>7. CASE Attempt
  BY <1>7 DEF Attempt, Twice, NextWait
<1>8. CASE ConnectFails
  BY <1>8 DEF ConnectFails
<1>9. CASE ConnectSucceeds
  BY <1>9 DEF ConnectSucceeds
<1>10. CASE Install
  BY <1>10 DEF Install
<1>11. CASE Drain
  BY <1>11 DEF Drain
<1>12. CASE Forget
  BY <1>12 DEF Forget
<1>13. CASE Move
  BY <1>13 DEF Move
<1>14. CASE Add
  BY <1>14 DEF Add
<1>15. CASE ReceiveClosed
  BY <1>15 DEF ReceiveClosed
<1>16. CASE PushClosed
  BY <1>16 DEF PushClosed
<1>17. CASE RequireReconnect
  BY <1>17 DEF RequireReconnect
<1>18. CASE ResetTried
  BY <1>18 DEF ResetTried
<1> QED BY <1>1, <1>2, <1>3, <1>4, <1>5, <1>6, <1>7, <1>8, <1>9, <1>10, <1>11, <1>12, <1>13, <1>14, <1>15, <1>16, <1>17, <1>18
       DEF Next, Application, Receiver

(* What the delay says.                                                      *)
LEMMA DelayStep ==
    ASSUME Inv, [Next]_vars
    PROVE  DelayInv'
<1> USE BackoffAssumption DEF Inv, TypeOK, vars, threadVars, callVars, Step, Later, Long,
       Limit, ThreadInv, DelayInv, ElapsedInv, TimeInv
<1>1. CASE UNCHANGED vars
  BY <1>1
<1>2. CASE Tick
  BY <1>2 DEF Tick
<1>3. CASE PassBy
  BY <1>3 DEF PassBy
<1>4. CASE ReadClock
  BY <1>4 DEF ReadClock
<1>5. CASE Clear
  BY <1>5 DEF Clear
<1>6. CASE NotYet
  BY <1>6 DEF NotYet
<1>7. CASE Attempt
  BY <1>7 DEF Attempt, Twice, NextWait
<1>8. CASE ConnectFails
  BY <1>8 DEF ConnectFails
<1>9. CASE ConnectSucceeds
  BY <1>9 DEF ConnectSucceeds
<1>10. CASE Install
  BY <1>10 DEF Install
<1>11. CASE Drain
  BY <1>11 DEF Drain
<1>12. CASE Forget
  BY <1>12 DEF Forget
<1>13. CASE Move
  BY <1>13 DEF Move
<1>14. CASE Add
  BY <1>14 DEF Add
<1>15. CASE ReceiveClosed
  BY <1>15 DEF ReceiveClosed
<1>16. CASE PushClosed
  BY <1>16 DEF PushClosed
<1>17. CASE RequireReconnect
  BY <1>17 DEF RequireReconnect
<1>18. CASE ResetTried
  BY <1>18 DEF ResetTried
<1> QED BY <1>1, <1>2, <1>3, <1>4, <1>5, <1>6, <1>7, <1>8, <1>9, <1>10, <1>11, <1>12, <1>13, <1>14, <1>15, <1>16, <1>17, <1>18
       DEF Next, Application, Receiver

(* What the call under way has read.                                         *)
LEMMA ElapsedStep ==
    ASSUME Inv, [Next]_vars
    PROVE  ElapsedInv'
<1> USE BackoffAssumption DEF Inv, TypeOK, vars, threadVars, callVars, Step, Later, Long,
       Limit, ThreadInv, DelayInv, ElapsedInv, TimeInv
<1>1. CASE UNCHANGED vars
  BY <1>1
<1>2. CASE Tick
  BY <1>2 DEF Tick
<1>3. CASE PassBy
  BY <1>3 DEF PassBy
<1>4. CASE ReadClock
  BY <1>4 DEF ReadClock
<1>5. CASE Clear
  BY <1>5 DEF Clear
<1>6. CASE NotYet
  BY <1>6 DEF NotYet
<1>7. CASE Attempt
  BY <1>7 DEF Attempt, Twice, NextWait
<1>8. CASE ConnectFails
  BY <1>8 DEF ConnectFails
<1>9. CASE ConnectSucceeds
  BY <1>9 DEF ConnectSucceeds
<1>10. CASE Install
  BY <1>10 DEF Install
<1>11. CASE Drain
  BY <1>11 DEF Drain
<1>12. CASE Forget
  BY <1>12 DEF Forget
<1>13. CASE Move
  BY <1>13 DEF Move
<1>14. CASE Add
  BY <1>14 DEF Add
<1>15. CASE ReceiveClosed
  BY <1>15 DEF ReceiveClosed
<1>16. CASE PushClosed
  BY <1>16 DEF PushClosed
<1>17. CASE RequireReconnect
  BY <1>17 DEF RequireReconnect
<1>18. CASE ResetTried
  BY <1>18 DEF ResetTried
<1> QED BY <1>1, <1>2, <1>3, <1>4, <1>5, <1>6, <1>7, <1>8, <1>9, <1>10, <1>11, <1>12, <1>13, <1>14, <1>15, <1>16, <1>17, <1>18
       DEF Next, Application, Receiver

(* How long it has been.                                                     *)
LEMMA TimeStep ==
    ASSUME Inv, [Next]_vars
    PROVE  TimeInv'
<1> USE BackoffAssumption DEF Inv, TypeOK, vars, threadVars, callVars, Step, Later, Long,
       Limit, ThreadInv, DelayInv, ElapsedInv, TimeInv
<1>1. CASE UNCHANGED vars
  BY <1>1
<1>2. CASE Tick
  BY <1>2 DEF Tick
<1>3. CASE PassBy
  BY <1>3 DEF PassBy
<1>4. CASE ReadClock
  <2>1. CASE conn
    BY <1>4, <2>1 DEF ReadClock
  <2>2. CASE ~conn
    BY <1>4, <2>2 DEF ReadClock
  <2> QED BY <2>1, <2>2
<1>5. CASE Clear
  BY <1>5 DEF Clear
<1>6. CASE NotYet
  BY <1>6 DEF NotYet
<1>7. CASE Attempt
  BY <1>7 DEF Attempt, Twice, NextWait
<1>8. CASE ConnectFails
  BY <1>8 DEF ConnectFails
<1>9. CASE ConnectSucceeds
  BY <1>9 DEF ConnectSucceeds
<1>10. CASE Install
  BY <1>10 DEF Install
<1>11. CASE Drain
  BY <1>11 DEF Drain
<1>12. CASE Forget
  BY <1>12 DEF Forget
<1>13. CASE Move
  BY <1>13 DEF Move
<1>14. CASE Add
  <2>1. CASE conn
    BY <1>14, <2>1 DEF Add
  <2>2. CASE ~conn
    BY <1>14, <2>2 DEF Add
  <2> QED BY <2>1, <2>2
<1>15. CASE ReceiveClosed
  BY <1>15 DEF ReceiveClosed
<1>16. CASE PushClosed
  BY <1>16 DEF PushClosed
<1>17. CASE RequireReconnect
  BY <1>17 DEF RequireReconnect
<1>18. CASE ResetTried
  BY <1>18 DEF ResetTried
<1> QED BY <1>1, <1>2, <1>3, <1>4, <1>5, <1>6, <1>7, <1>8, <1>9, <1>10, <1>11, <1>12, <1>13, <1>14, <1>15, <1>16, <1>17, <1>18
       DEF Next, Application, Receiver

(* The inductive invariant of Backoff. *)
THEOREM BackoffInvariance == Spec => []Inv
<1>1. Inv /\ [Next]_vars => Inv'
  BY TypeStep, ThreadStep, DelayStep, ElapsedStep, TimeStep DEF Inv
<1> QED BY InitInv, <1>1, PTL DEF Spec

(* The delay stays between its first value and the doubled cap, and every     *)
(* variable has its type.                                                    *)
THEOREM BackoffTypeCorrect == Spec => []TypeOK
<1>1. Inv => TypeOK
  BY DEF Inv
<1> QED BY BackoffInvariance, <1>1, PTL

(* A server that is down is tried again within Limit, whichever thread put    *)
(* it on the list.                                                           *)
THEOREM RetriedInTimeHolds == Spec => []RetriedInTime
<1>1. Inv => RetriedInTime
  BY BackoffAssumption
     DEF Inv, TypeOK, TimeInv, ThreadInv, DelayInv, RetriedInTime, Limit
<1> QED BY BackoffInvariance, <1>1, PTL

(* Attempts at a server that fails keep the delay, from call to call, and no  *)
(* call waits for longer; the receive thread's store of last_tried disturbs  *)
(* neither.                                                                  *)
THEOREM AttemptsSpacedHolds == Spec => AttemptsSpaced
<1>1. ASSUME Inv, Attempt
      PROVE  wait = 0 \/ down - lag > wait
  BY <1>1 DEF Inv, TypeOK, DelayInv, ElapsedInv, Attempt, Step
<1>2. ASSUME Inv, NotYet
      PROVE  wait > 0 /\ down - lag <= wait
  BY <1>2, BackoffAssumption
     DEF Inv, TypeOK, DelayInv, ElapsedInv, NotYet, Step, Long, Limit
<1>3. Inv /\ [Next]_vars =>
         [/\ Attempt => wait = 0 \/ down - lag > wait
          /\ NotYet  => wait > 0 /\ down - lag <= wait]_vars
  BY <1>1, <1>2
<1> QED BY BackoffInvariance, <1>3, PTL DEF Spec, AttemptsSpaced

===============================================================================
