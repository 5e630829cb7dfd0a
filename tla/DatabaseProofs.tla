----------------------------- MODULE DatabaseProofs -----------------------------
(***************************************************************************)
(* Theorems about Database, for any set of threads, names and servers and  *)
(* any number of calls and edits.                                          *)
(***************************************************************************)
EXTENDS Database, TLAPS

(* The open transaction is that of one thread in its loop, and empty.        *)
TransactionInv ==
    /\ pending = {}
    /\ ~autocommit => \E t \in Threads : pc[t] = "fetch"

(* A call has read nothing before its statement, and what it has inserted is  *)
(* committed.                                                                *)
ResultInv ==
    \A t \in Threads :
        /\ pc[t] \in {"lock", "asset", "insert", "select", "open"} => result[t] = {}
        /\ pc[t] = "unlock" => Acknowledged(t) \subseteq stored

(* The tables of the present moment belong to every call under way, and a     *)
(* cursor and what was fetched from it are the list of one moment.           *)
SnapshotInv ==
    \A t \in Threads :
        /\ pc[t] # "idle" => Rows(call[t]) \in during[t]
        /\ pc[t] \in {"asset", "insert", "select"} => call[t].op # "servers"
        /\ pc[t] \in {"insert", "select"} => (call[t].op = "add" <=> pc[t] = "insert")
        /\ pc[t] \in {"open", "fetch"} => call[t].op = "servers"
        /\ pc[t] = "fetch" =>
              \E rows \in during[t] :
                  /\ result[t] \cup cursor \subseteq rows
                  /\ connected => result[t] \cup cursor = rows

Inv == TypeOK /\ TransactionInv /\ ResultInv /\ SnapshotInv /\ ReadsAreCurrent
       /\ ReturnedIsStored

(* The first state. *)
LEMMA InitInv == Init => Inv
<1> SUFFICES ASSUME Init PROVE Inv
  OBVIOUS
<1> USE DatabaseAssumption DEF Init
<1>1. (CHOOSE c \in Calls : TRUE) \in Calls
  <2>1. \E c \in Calls : TRUE
    <3>1. PICK n \in Names : TRUE
      OBVIOUS
    <3>2. [op |-> "get", name |-> n] \in Calls
      BY DEF Calls
    <3> QED BY <3>2
  <2> QED BY <2>1
<1>2. TypeOK
  BY <1>1 DEF TypeOK, PCs
<1>3. TransactionInv /\ ResultInv /\ SnapshotInv /\ ReadsAreCurrent /\ ReturnedIsStored
  BY DEF TransactionInv, ResultInv, SnapshotInv, ReadsAreCurrent, ReturnedIsStored
<1> QED BY <1>2, <1>3 DEF Inv

(* What the tables say is a set of numbers or of servers.                    *)
LEMMA RowsType ==
    ASSUME TypeOK, NEW c \in Calls
    PROVE  Rows(c) \in SUBSET (Nat \cup Servers)
BY DEF TypeOK, Rows, Calls

(* The types, for each action.                                               *)
LEMMA TypeStep ==
    ASSUME Inv, [Next]_vars
    PROVE  TypeOK'
<1> USE DatabaseAssumption DEF Inv, GoTo, PCs
<1>1. CASE UNCHANGED vars
  BY <1>1 DEF TypeOK, vars, sessionVars, webVars
<1>2. CASE Edit
  <2>1. assets' \subseteq Names /\ latest' \in [Names -> Nat] /\ active' \subseteq Servers
        /\ edits' \in Nat
    BY <1>2 DEF Edit, TypeOK
  <2>2. ASSUME NEW c \in Calls PROVE Rows(c)' \in SUBSET (Nat \cup Servers)
    BY <2>1 DEF Rows, Calls
  <2>3. \A t \in Threads : call[t] \in Calls /\ call'[t] = call[t]
    BY <1>2 DEF Edit, TypeOK
  <2>4. during' \in [Threads -> SUBSET SUBSET (Nat \cup Servers)]
    <3>1. ASSUME NEW t \in Threads
          PROVE  during[t] \cup (IF pc[t] = "idle" THEN {} ELSE {Rows(call[t])'})
                    \in SUBSET SUBSET (Nat \cup Servers)
      <4>1. Rows(call[t])' \in SUBSET (Nat \cup Servers)
        BY <2>1, <2>3 DEF Rows, Calls
      <4> QED BY <4>1 DEF TypeOK
    <3> QED BY <1>2, <3>1 DEF Edit
  <2> QED BY <1>2, <2>1, <2>4 DEF Edit, TypeOK, sessionVars
<1>3. CASE Lose
  BY <1>3 DEF Lose, TypeOK, webVars
<1>4. ASSUME NEW t \in Threads, Call(t) PROVE TypeOK'
  <2>1. PICK c \in Calls : /\ call' = [call EXCEPT ![t] = c]
                           /\ during' = [during EXCEPT ![t] = {Rows(c)}]
    BY <1>4 DEF Call
  <2>2. Rows(c) \in SUBSET (Nat \cup Servers)
    BY RowsType
  <2> QED BY <1>4, <2>1, <2>2 DEF Call, TypeOK, sessionVars, webVars
<1>5. ASSUME NEW t \in Threads, Lock(t) PROVE TypeOK'
  BY <1>5 DEF Lock, Entered, TypeOK, sessionVars, webVars
<1>6. ASSUME NEW t \in Threads, FindAsset(t) PROVE TypeOK'
  BY <1>6 DEF FindAsset, TypeOK, sessionVars, webVars
<1>7. ASSUME NEW t \in Threads, Insert(t) PROVE TypeOK'
  <2>1. Report(t) \in Reports
    BY DEF Report, Reports, TypeOK
  <2>2. stored' \subseteq Reports /\ pending' \subseteq Reports
    BY <1>7, <2>1 DEF Insert, TypeOK
  <2>3. result' \in [Threads -> SUBSET (Nat \cup Servers)]
    BY <1>7 DEF Insert, TypeOK
  <2> QED BY <1>7, <2>2, <2>3 DEF Insert, TypeOK, webVars
<1>8. ASSUME NEW t \in Threads, Select(t) PROVE TypeOK'
  <2>1. Rows(call[t]) \in SUBSET (Nat \cup Servers)
    BY RowsType DEF TypeOK
  <2> QED BY <1>8, <2>1 DEF Select, TypeOK, sessionVars, webVars
<1>9. ASSUME NEW t \in Threads, Open(t) PROVE TypeOK'
  BY <1>9 DEF Open, TypeOK, webVars
<1>10. ASSUME NEW t \in Threads, Fetch(t) PROVE TypeOK'
  <2>1. PICK s \in cursor \ Unreadable : /\ cursor' = cursor \ {s}
                                         /\ result' = [result EXCEPT ![t] = @ \cup {s}]
    BY <1>10 DEF Fetch
  <2>2. s \in Servers
    BY DEF TypeOK
  <2>3. result' \in [Threads -> SUBSET (Nat \cup Servers)]
    BY <2>1, <2>2 DEF TypeOK
  <2> QED BY <1>10, <2>1, <2>3 DEF Fetch, TypeOK, webVars
<1>11. ASSUME NEW t \in Threads, EndFetch(t) PROVE TypeOK'
  BY <1>11 DEF EndFetch, TypeOK, webVars
<1>12. ASSUME NEW t \in Threads, Unlock(t) PROVE TypeOK'
  <2>1. Acknowledged(t) \subseteq Reports
    BY DEF Acknowledged, Report, Reports, TypeOK
  <2> QED BY <1>12, <2>1 DEF Unlock, TypeOK, sessionVars, webVars
<1> QED
  BY <1>1, <1>2, <1>3, <1>4, <1>5, <1>6, <1>7, <1>8, <1>9, <1>10, <1>11, <1>12
  DEF Next, Statement

(* Only the thread in the loop has autocommit off, so no INSERT runs then.    *)
LEMMA TransactionStep ==
    ASSUME Inv, [Next]_vars
    PROVE  TransactionInv'
<1> USE DatabaseAssumption DEF Inv, TransactionInv, GoTo
<1>1. CASE UNCHANGED vars
  BY <1>1 DEF vars, sessionVars
<1>2. CASE Edit
  BY <1>2 DEF Edit, sessionVars
<1>3. CASE Lose
  BY <1>3 DEF Lose
<1>4. ASSUME NEW t \in Threads, Insert(t) PROVE TransactionInv'
  <2>1. autocommit
    BY <1>4 DEF Insert, TypeOK
  <2> QED BY <1>4, <2>1 DEF Insert, TypeOK
<1>5. ASSUME NEW t \in Threads, Open(t) PROVE TransactionInv'
  BY <1>5 DEF Open, TypeOK
<1>6. ASSUME NEW t \in Threads, EndFetch(t) PROVE TransactionInv'
  BY <1>6 DEF EndFetch
<1>7. ASSUME NEW t \in Threads, Fetch(t) PROVE TransactionInv'
  BY <1>7 DEF Fetch
<1>8. ASSUME NEW t \in Threads,
             Call(t) \/ Lock(t) \/ FindAsset(t) \/ Select(t) \/ Unlock(t)
      PROVE  TransactionInv'
  <2>1. autocommit' = autocommit /\ pending' = pending /\ pc[t] # "fetch"
    BY <1>8 DEF Call, Lock, FindAsset, Select, Unlock, sessionVars
  <2>2. \A u \in Threads : u # t => pc'[u] = pc[u]
    BY <1>8 DEF Call, Lock, Entered, FindAsset, Select, Unlock, TypeOK
  <2> QED BY <2>1, <2>2
<1> QED
  BY <1>1, <1>2, <1>3, <1>4, <1>5, <1>6, <1>7, <1>8 DEF Next, Statement

(* What a call has read or inserted so far.                                  *)
LEMMA ResultStep ==
    ASSUME Inv, [Next]_vars
    PROVE  ResultInv'
<1> USE DatabaseAssumption DEF Inv, ResultInv, GoTo, Acknowledged, Report
<1>1. CASE UNCHANGED vars
  BY <1>1 DEF vars, sessionVars
<1>2. CASE Edit
  BY <1>2 DEF Edit, sessionVars
<1>3. CASE Lose
  BY <1>3 DEF Lose
<1>4. ASSUME NEW t \in Threads, Call(t) PROVE ResultInv'
  BY <1>4 DEF Call, TypeOK
<1>5. ASSUME NEW t \in Threads, Lock(t) PROVE ResultInv'
  BY <1>5 DEF Lock, Entered, TypeOK
<1>6. ASSUME NEW t \in Threads, FindAsset(t) PROVE ResultInv'
  BY <1>6 DEF FindAsset, TypeOK
<1>7. ASSUME NEW t \in Threads, Insert(t) PROVE ResultInv'
  <2>1. autocommit
    BY <1>7 DEF TransactionInv, Insert, TypeOK
  <2>2. stored \subseteq stored' /\ (result'[t] = {} \/ Report(t) \in stored')
    BY <1>7, <2>1 DEF Insert, TypeOK
  <2>3. \A u \in Threads : u # t => pc'[u] = pc[u] /\ result'[u] = result[u]
    BY <1>7 DEF Insert, TypeOK
  <2>4. pc'[t] = "unlock" /\ calls' = calls /\ call' = call
    BY <1>7 DEF Insert, TypeOK
  <2> QED BY <2>2, <2>3, <2>4
<1>8. ASSUME NEW t \in Threads, Select(t) PROVE ResultInv'
  <2>1. call[t].op # "add"
    BY <1>8 DEF Select, SnapshotInv
  <2> QED BY <1>8, <2>1 DEF Select, TypeOK, sessionVars
<1>9. ASSUME NEW t \in Threads, Open(t) PROVE ResultInv'
  BY <1>9 DEF Open, TypeOK
<1>10. ASSUME NEW t \in Threads, Fetch(t) PROVE ResultInv'
  BY <1>10 DEF Fetch, TypeOK
<1>11. ASSUME NEW t \in Threads, EndFetch(t) PROVE ResultInv'
  <2>1. call[t].op # "add"
    BY <1>11 DEF EndFetch, SnapshotInv
  <2> QED BY <1>11, <2>1 DEF EndFetch, TypeOK
<1>12. ASSUME NEW t \in Threads, Unlock(t) PROVE ResultInv'
  BY <1>12 DEF Unlock, TypeOK
<1> QED
  BY <1>1, <1>2, <1>3, <1>4, <1>5, <1>6, <1>7, <1>8, <1>9, <1>10, <1>11, <1>12
  DEF Next, Statement

(* The list fetched so far and the cursor are the rows of one moment.        *)
LEMMA SnapshotStep ==
    ASSUME Inv, [Next]_vars
    PROVE  SnapshotInv'
<1> USE DatabaseAssumption DEF Inv, SnapshotInv, GoTo
<1>1. CASE UNCHANGED vars
  BY <1>1 DEF vars, sessionVars, webVars, Rows
<1>2. CASE Edit
  <2>1. \A t \in Threads : call'[t] = call[t] /\ pc'[t] = pc[t] /\ during[t] \subseteq during'[t]
    BY <1>2 DEF Edit
  <2>2. ASSUME NEW t \in Threads, pc[t] # "idle" PROVE Rows(call[t])' \in during'[t]
    BY <1>2, <2>2 DEF Edit
  <2> QED BY <1>2, <2>1, <2>2 DEF Edit, sessionVars
<1>3. CASE Lose
  BY <1>3 DEF Lose, webVars, Rows
<1>4. ASSUME NEW t \in Threads, Call(t) PROVE SnapshotInv'
  <2>1. PICK c \in Calls : /\ call' = [call EXCEPT ![t] = c]
                           /\ during' = [during EXCEPT ![t] = {Rows(c)}]
    BY <1>4 DEF Call
  <2>2. \A u \in Threads : u # t => /\ pc'[u] = pc[u] /\ call'[u] = call[u]
                                  /\ during'[u] = during[u] /\ result'[u] = result[u]
    BY <1>4, <2>1 DEF Call, TypeOK
  <2>3. pc'[t] = "lock" /\ call'[t] = c /\ during'[t] = {Rows(c)}
    BY <1>4, <2>1 DEF Call, TypeOK
  <2>4. ASSUME NEW d \in Calls PROVE Rows(d)' = Rows(d)
    BY <1>4 DEF Call, webVars, Rows
  <2>5. \A u \in Threads : call[u] \in Calls
    BY DEF TypeOK
  <2>6. cursor' = cursor /\ connected' = connected
    BY <1>4 DEF Call, sessionVars
  <2> QED BY <2>2, <2>3, <2>4, <2>5, <2>6
<1>5. ASSUME NEW t \in Threads, Lock(t) PROVE SnapshotInv'
  BY <1>5 DEF Lock, Entered, TypeOK, sessionVars, webVars, Rows
<1>6. ASSUME NEW t \in Threads, FindAsset(t) PROVE SnapshotInv'
  BY <1>6 DEF FindAsset, TypeOK, sessionVars, webVars, Rows
<1>7. ASSUME NEW t \in Threads, Insert(t) PROVE SnapshotInv'
  BY <1>7 DEF Insert, TypeOK, webVars, Rows
<1>8. ASSUME NEW t \in Threads, Select(t) PROVE SnapshotInv'
  BY <1>8 DEF Select, TypeOK, sessionVars, webVars, Rows
<1>9. ASSUME NEW t \in Threads, Open(t) PROVE SnapshotInv'
  <2>1. ~connected \/ (result'[t] \cup cursor' = Rows(call[t]))
    BY <1>9 DEF Open, ResultInv, TypeOK, Rows
  <2>2. result'[t] \cup cursor' \subseteq Rows(call[t]) /\ Rows(call[t]) \in during[t]
    BY <1>9 DEF Open, ResultInv, TypeOK, Rows
  <2>3. \A u \in Threads : u # t => pc'[u] = pc[u] /\ pc[u] # "fetch"
    BY <1>9 DEF Open, TypeOK
  <2>4. pc'[t] = "fetch" /\ pc[t] = "open" /\ call' = call /\ during' = during
        /\ connected' = connected
    BY <1>9 DEF Open, TypeOK
  <2>5. \A c \in Calls : Rows(c)' = Rows(c)
    BY <1>9 DEF Open, webVars, Rows
  <2>6. \A u \in Threads : call[u] \in Calls
    BY DEF TypeOK
  <2> QED BY <2>1, <2>2, <2>3, <2>4, <2>5, <2>6
<1>10. ASSUME NEW t \in Threads, Fetch(t) PROVE SnapshotInv'
  <2>1. PICK s \in cursor \ Unreadable : /\ cursor' = cursor \ {s}
                                         /\ result' = [result EXCEPT ![t] = @ \cup {s}]
    BY <1>10 DEF Fetch
  <2>2. result'[t] \cup cursor' = result[t] \cup cursor
    BY <2>1 DEF TypeOK
  <2>3. \A u \in Threads : u # t => pc[u] # "fetch" /\ result'[u] = result[u]
    BY <1>10, <2>1 DEF Fetch, TypeOK
  <2> QED BY <1>10, <2>2, <2>3 DEF Fetch, webVars, Rows
<1>11. ASSUME NEW t \in Threads, EndFetch(t) PROVE SnapshotInv'
  BY <1>11 DEF EndFetch, TypeOK, webVars, Rows
<1>12. ASSUME NEW t \in Threads, Unlock(t) PROVE SnapshotInv'
  BY <1>12 DEF Unlock, TypeOK, sessionVars, webVars, Rows
<1> QED
  BY <1>1, <1>2, <1>3, <1>4, <1>5, <1>6, <1>7, <1>8, <1>9, <1>10, <1>11, <1>12
  DEF Next, Statement

(* The loop over a cursor ends with all rows, or at one it cannot read.      *)
LEMMA CursorEnds ==
    ASSUME NEW found, NEW left, NEW rows, NEW up \in BOOLEAN,
           (found \cup left) \subseteq rows,
           up => (found \cup left) = rows,
           left = {} \/ left \cap Unreadable # {}
    PROVE  \/ found = rows
           \/ found \subseteq rows /\ (~up \/ rows \cap Unreadable # {})
<1>1. CASE left = {}
  <2>1. found \cup left = found
    BY <1>1
  <2> QED BY <2>1
<1>2. CASE left \cap Unreadable # {}
  BY <1>2
<1> QED BY <1>1, <1>2

(* What a call is about to return was so at one moment of it.                *)
LEMMA ReadsStep ==
    ASSUME Inv, [Next]_vars
    PROVE  ReadsAreCurrent'
<1> USE DatabaseAssumption DEF Inv, ReadsAreCurrent, GoTo
<1>1. CASE UNCHANGED vars
  BY <1>1 DEF vars, sessionVars
<1>2. CASE Edit
  <2>1. \A t \in Threads : during[t] \subseteq during'[t]
    BY <1>2 DEF Edit
  <2> QED BY <1>2, <2>1 DEF Edit, sessionVars
<1>3. CASE Lose
  BY <1>3 DEF Lose
<1>4. ASSUME NEW t \in Threads, Call(t) \/ Unlock(t) PROVE ReadsAreCurrent'
  <2>1. \A u \in Threads : u # t => /\ pc'[u] = pc[u] /\ call'[u] = call[u]
                                  /\ during'[u] = during[u] /\ result'[u] = result[u]
    BY <1>4 DEF Call, Unlock, TypeOK
  <2>2. pc'[t] \in {"lock", "idle"} /\ connected' = connected
    BY <1>4 DEF Call, Unlock, TypeOK, sessionVars
  <2> QED BY <2>1, <2>2
<1>5. ASSUME NEW t \in Threads, Lock(t) PROVE ReadsAreCurrent'
  BY <1>5 DEF Lock, Entered, TypeOK, sessionVars
<1>6. ASSUME NEW t \in Threads, FindAsset(t) PROVE ReadsAreCurrent'
  <2>1. call[t].op # "servers" /\ result[t] = {} /\ Rows(call[t]) \in during[t]
    BY <1>6 DEF FindAsset, SnapshotInv, ResultInv
  <2>2. ~connected \/ call[t].name \notin assets => ~connected \/ Rows(call[t]) = {}
    BY <2>1 DEF Rows
  <2>3. \A u \in Threads : u # t => pc'[u] = pc[u]
    BY <1>6 DEF FindAsset, TypeOK
  <2>4. pc'[t] = "unlock" => ~connected \/ call[t].name \notin assets
    BY <1>6 DEF FindAsset, TypeOK
  <2>5. UNCHANGED <<call, result, during, connected>>
    BY <1>6 DEF FindAsset, sessionVars
  <2> QED BY <2>1, <2>2, <2>3, <2>4, <2>5
<1>7. ASSUME NEW t \in Threads, Insert(t) PROVE ReadsAreCurrent'
  <2>1. call[t].op = "add"
    BY <1>7 DEF Insert, SnapshotInv
  <2>2. \A u \in Threads : u # t => pc'[u] = pc[u] /\ result'[u] = result[u]
    BY <1>7 DEF Insert, TypeOK
  <2>3. UNCHANGED <<call, during, connected>>
    BY <1>7 DEF Insert
  <2> QED BY <2>1, <2>2, <2>3
<1>8. ASSUME NEW t \in Threads, Select(t) PROVE ReadsAreCurrent'
  <2>1. Rows(call[t]) \in during[t]
    BY <1>8 DEF Select, SnapshotInv
  <2>2. \A u \in Threads : u # t => pc'[u] = pc[u] /\ result'[u] = result[u]
    BY <1>8 DEF Select, TypeOK
  <2>3. result'[t] = (IF connected THEN Rows(call[t]) ELSE {})
    BY <1>8 DEF Select, TypeOK
  <2>4. UNCHANGED <<call, during, connected>>
    BY <1>8 DEF Select, sessionVars
  <2> QED BY <2>1, <2>2, <2>3, <2>4
<1>9. ASSUME NEW t \in Threads, Open(t) \/ Fetch(t) PROVE ReadsAreCurrent'
  <2>1. \A u \in Threads : u # t => pc'[u] = pc[u] /\ result'[u] = result[u]
    BY <1>9 DEF Open, Fetch, TypeOK
  <2>2. pc'[t] = "fetch" /\ UNCHANGED <<call, during, connected>>
    BY <1>9 DEF Open, Fetch, TypeOK
  <2> QED BY <2>1, <2>2
<1>10. ASSUME NEW t \in Threads, EndFetch(t) PROVE ReadsAreCurrent'
  <2>1. PICK rows \in during[t] :
            /\ result[t] \cup cursor \subseteq rows
            /\ connected => result[t] \cup cursor = rows
    BY <1>10 DEF EndFetch, SnapshotInv
  <2>2. \/ result[t] = rows
        \/ result[t] \subseteq rows /\ (~connected \/ rows \cap Unreadable # {})
    BY <1>10, <2>1, CursorEnds DEF EndFetch, TypeOK
  <2>3. \A u \in Threads : u # t => pc'[u] = pc[u]
    BY <1>10 DEF EndFetch, TypeOK
  <2>4. UNCHANGED <<call, during, connected, result>>
    BY <1>10 DEF EndFetch
  <2> QED BY <2>2, <2>3, <2>4
<1> QED
  BY <1>1, <1>2, <1>3, <1>4, <1>5, <1>6, <1>7, <1>8, <1>9, <1>10 DEF Next, Statement

(* A call returns after its row is committed, and nothing is taken back.     *)
LEMMA ReturnedStep ==
    ASSUME Inv, [Next]_vars
    PROVE  ReturnedIsStored'
<1> USE DEF Inv, ReturnedIsStored
<1>1. stored \subseteq stored'
  BY DEF Next, vars, Edit, Lose, Call, Lock, Statement, FindAsset, Insert, Select, Open,
         Fetch, EndFetch, Unlock
<1>2. ASSUME NEW t \in Threads, Unlock(t) PROVE acked' \subseteq stored
  BY <1>2 DEF Unlock, ResultInv
<1>3. acked' = acked \/ \E t \in Threads : Unlock(t)
  BY DEF Next, vars, Edit, Lose, Call, Lock, Statement, FindAsset, Insert, Select, Open,
         Fetch, EndFetch
<1> QED BY <1>1, <1>2, <1>3

(* Database keeps its invariant (db_connection, every interleaving of calls). *)
THEOREM DatabaseInvariance == Spec => []Inv
<1>1. Init => Inv
  BY InitInv
<1>2. Inv /\ [Next]_vars => Inv'
  BY TypeStep, TransactionStep, ResultStep, SnapshotStep, ReadsStep, ReturnedStep DEF Inv
<1> QED BY <1>1, <1>2, PTL DEF Spec

(* The types, and that one thread at a time is in the database (db_lock).    *)
THEOREM DatabaseTypeCorrect == Spec => []TypeOK
<1>1. Inv => TypeOK
  BY DEF Inv
<1> QED BY <1>1, DatabaseInvariance, PTL

(* What asset_add_...() stored before it returned is committed.              *)
THEOREM ReturnedIsStoredHolds == Spec => []ReturnedIsStored
<1>1. Inv => ReturnedIsStored
  BY DEF Inv
<1> QED BY <1>1, DatabaseInvariance, PTL

(* What a call returns was true at one moment of it.                         *)
THEOREM ReadsAreCurrentHolds == Spec => []ReadsAreCurrent
<1>1. Inv => ReadsAreCurrent
  BY DEF Inv
<1> QED BY <1>1, DatabaseInvariance, PTL

===============================================================================
