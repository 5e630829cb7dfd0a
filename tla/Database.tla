-------------------------------- MODULE Database --------------------------------
(***************************************************************************)
(* The server's database: the class db_connection of src/src/db.cpp over   *)
(* the embedded SQL of src/src/server-db.pgc.                              *)
(*                                                                         *)
(* Every receive thread and the main thread share one SQL session, and one *)
(* mutex orders their calls.  A call is one or two statements, each a      *)
(* transaction of its own, except the one that lists the active servers:   *)
(* it switches autocommit off and walks a cursor, so that all that the     *)
(* session does meanwhile belongs to its transaction.                      *)
(*                                                                         *)
(* A web application writes the same tables in sessions of its own.  The   *)
(* session of the server may be lost; the code never connects again.       *)
(* Commands and settings are numbered in the order they are entered.       *)
(***************************************************************************)
EXTENDS Naturals, FiniteSets

CONSTANTS
    Threads,      \* the threads that call db_connection
    Nobody,       \* no thread
    Names,        \* asset names, in the database or not
    Servers,      \* rows of config_serverconfig
    Unreadable,   \* those of them whose FETCH raises an error or a warning
    MaxCalls,     \* bound: calls of a thread
    MaxEdits      \* bound: edits of the web application

ASSUME DatabaseAssumption ==
    /\ Nobody \notin Threads
    /\ Names # {}
    /\ Unreadable \subseteq Servers
    /\ MaxCalls \in Nat /\ MaxEdits \in Nat

VARIABLES
    lock,         \* db_lock
    pc,           \* where each thread is in its call
    call,         \* the call: what it does, and for which asset
    calls,        \* calls made so far, the last one's number
    result,       \* the rows read so far
    autocommit,   \* of the session
    cursor,       \* rows that cur1 has not returned yet
    pending,      \* rows inserted in the open transaction
    connected,    \* the session is there
    assets, latest, active, edits,   \* what the web application writes
    stored,       \* reports that other sessions see
    acked,        \* history: reports inserted by calls that have returned
    during        \* history: what each call could rightly have returned

sessionVars == <<autocommit, cursor, pending, connected>>
webVars == <<assets, latest, active, edits>>
vars == <<lock, pc, call, calls, result, sessionVars, webVars, stored, acked, during>>

(***************************************************************************)
(* A call: "idle"; about to "lock"; in db_get_asset_id() ("asset"); at the *)
(* "insert" or the "select" that follows; at the start of the server list  *)
(* ("open") and in its loop ("fetch"); about to "unlock".                  *)
(***************************************************************************)
PCs == {"idle", "lock", "asset", "insert", "select", "open", "fetch", "unlock"}

(* asset_add_...(); asset_get_command() and asset_get_smm_settings();        *)
(* get_active_fss_servers(), for which the name means nothing.               *)
Calls == [op : {"add", "get", "servers"}, name : Names]

Reports == Threads \X Nat

(* The types, and that the holder of the lock is the thread in the call.     *)
TypeOK ==
    /\ lock \in Threads \cup {Nobody}
    /\ pc \in [Threads -> PCs]
    /\ call \in [Threads -> Calls]
    /\ calls \in [Threads -> Nat]
    /\ result \in [Threads -> SUBSET (Nat \cup Servers)]
    /\ autocommit \in BOOLEAN /\ connected \in BOOLEAN
    /\ cursor \subseteq Servers
    /\ pending \subseteq Reports
    /\ assets \subseteq Names
    /\ latest \in [Names -> Nat]
    /\ active \subseteq Servers
    /\ edits \in Nat
    /\ stored \subseteq Reports
    /\ acked \subseteq Reports
    /\ during \in [Threads -> SUBSET SUBSET (Nat \cup Servers)]
    /\ \A t \in Threads : pc[t] \notin {"idle", "lock"} <=> lock = t

(* db_connect() has switched autocommit on. *)
Init ==
    /\ lock = Nobody
    /\ pc = [t \in Threads |-> "idle"]
    /\ call = [t \in Threads |-> CHOOSE c \in Calls : TRUE]
    /\ calls = [t \in Threads |-> 0]
    /\ result = [t \in Threads |-> {}]
    /\ autocommit = TRUE
    /\ cursor = {}
    /\ pending = {}
    /\ connected = TRUE
    /\ assets \in SUBSET Names
    /\ latest = [n \in Names |-> 0]
    /\ active \in SUBSET Servers
    /\ edits = 0
    /\ stored = {}
    /\ acked = {}
    /\ during = [t \in Threads |-> {}]

GoTo(t, where) == pc' = [pc EXCEPT ![t] = where]

Report(t) == <<t, calls[t]>>

-----------------------------------------------------------------------------
(* The web application, and the loss of the session. *)

(* What the tables say to call c. *)
Rows(c) ==
    IF c.op = "servers" THEN active
    ELSE IF c.name \in assets /\ latest[c.name] # 0 THEN {latest[c.name]} ELSE {}

Edit ==
    /\ edits < MaxEdits
    /\ edits' = edits + 1
    /\ \/ \E n \in assets :
             /\ latest' = [latest EXCEPT ![n] = edits']
             /\ UNCHANGED <<assets, active>>
       \/ \E n \in assets :
             /\ assets' = assets \ {n}
             /\ UNCHANGED <<latest, active>>
       \/ \E s \in Servers :
             /\ active' = IF s \in active THEN active \ {s} ELSE active \cup {s}
             /\ UNCHANGED <<assets, latest>>
    /\ UNCHANGED <<lock, pc, call, calls, result, sessionVars, stored, acked>>
    /\ during' = [t \in Threads |->
                    during[t] \cup IF pc[t] = "idle" THEN {} ELSE {Rows(call[t])'}]

(* What was not committed is gone. *)
Lose ==
    /\ connected
    /\ connected' = FALSE
    /\ pending' = {}
    /\ cursor' = {}
    /\ UNCHANGED <<lock, pc, call, calls, result, autocommit, webVars, stored, acked,
                   during>>

-----------------------------------------------------------------------------
(* The calls. *)

Call(t) ==
    /\ pc[t] = "idle"
    /\ calls[t] < MaxCalls
    /\ calls' = [calls EXCEPT ![t] = @ + 1]
    /\ \E c \in Calls :
          /\ call' = [call EXCEPT ![t] = c]
          /\ during' = [during EXCEPT ![t] = {Rows(c)}]
    /\ result' = [result EXCEPT ![t] = {}]
    /\ GoTo(t, "lock")
    /\ UNCHANGED <<lock, sessionVars, webVars, stored, acked>>

Entered(t) == GoTo(t, IF call[t].op = "servers" THEN "open" ELSE "asset")

(* Broken: the list of servers is read without the lock. *)
LockToWrite(t) ==
    /\ pc[t] = "lock"
    /\ lock = Nobody \/ call[t].op = "servers"
    /\ lock' = IF call[t].op = "servers" THEN lock ELSE t
    /\ Entered(t)
    /\ UNCHANGED <<call, calls, result, sessionVars, webVars, stored, acked, during>>

Lock(t) ==
    /\ pc[t] = "lock"
    /\ lock = Nobody
    /\ lock' = t
    /\ Entered(t)
    /\ UNCHANGED <<call, calls, result, sessionVars, webVars, stored, acked, during>>

(* db_get_asset_id(): 0 for an unknown name, and when the statement fails. *)
FindAsset(t) ==
    /\ pc[t] = "asset"
    /\ GoTo(t, IF ~connected \/ call[t].name \notin assets THEN "unlock"
               ELSE IF call[t].op = "add" THEN "insert" ELSE "select")
    /\ UNCHANGED <<lock, call, calls, result, sessionVars, webVars, stored, acked,
                   during>>

(* A deleted asset's row breaks the foreign key: the statement fails. *)
Insert(t) ==
    /\ pc[t] = "insert"
    /\ IF ~connected \/ call[t].name \notin assets
       THEN UNCHANGED <<stored, pending, result>>
       ELSE /\ result' = [result EXCEPT ![t] = {calls[t]}]
            /\ IF autocommit
               THEN stored' = stored \cup {Report(t)} /\ UNCHANGED pending
               ELSE pending' = pending \cup {Report(t)} /\ UNCHANGED stored
    /\ GoTo(t, "unlock")
    /\ UNCHANGED <<lock, call, calls, autocommit, cursor, connected, webVars, acked,
                   during>>

(* db_asset_command_get(), db_asset_smm_settings_get() *)
Select(t) ==
    /\ pc[t] = "select"
    /\ result' = [result EXCEPT ![t] = IF connected THEN Rows(call[t]) ELSE {}]
    /\ GoTo(t, "unlock")
    /\ UNCHANGED <<lock, call, calls, sessionVars, webVars, stored, acked, during>>

(* SET AUTOCOMMIT TO OFF, DECLARE, OPEN: the cursor keeps what it finds. *)
Open(t) ==
    /\ pc[t] = "open"
    /\ autocommit' = FALSE
    /\ cursor' = IF connected THEN active ELSE {}
    /\ GoTo(t, "fetch")
    /\ UNCHANGED <<lock, call, calls, result, pending, connected, webVars, stored,
                   acked, during>>

Fetch(t) ==
    /\ pc[t] = "fetch"
    /\ \E s \in cursor \ Unreadable :
          /\ cursor' = cursor \ {s}
          /\ result' = [result EXCEPT ![t] = @ \cup {s}]
    /\ UNCHANGED <<lock, pc, call, calls, autocommit, pending, connected, webVars,
                   stored, acked, during>>

(* Broken: the loop gives up while there are rows. *)
EndFetchEarly(t) ==
    /\ pc[t] = "fetch"
    /\ autocommit' = TRUE
    /\ cursor' = {}
    /\ stored' = stored \cup pending
    /\ pending' = {}
    /\ GoTo(t, "unlock")
    /\ UNCHANGED <<lock, call, calls, result, connected, webVars, acked, during>>

(* NOT FOUND, an error or a warning ends the loop; CLOSE; SET AUTOCOMMIT TO  *)
(* ON commits.                                                               *)
EndFetch(t) ==
    /\ pc[t] = "fetch"
    /\ cursor = {} \/ cursor \cap Unreadable # {}
    /\ autocommit' = TRUE
    /\ cursor' = {}
    /\ stored' = stored \cup pending
    /\ pending' = {}
    /\ GoTo(t, "unlock")
    /\ UNCHANGED <<lock, call, calls, result, connected, webVars, acked, during>>

Acknowledged(t) ==
    IF call[t].op = "add" /\ result[t] # {} THEN {Report(t)} ELSE {}

(* Broken: the return inside the branch that found a row keeps the lock. *)
UnlockIfNothing(t) ==
    /\ pc[t] = "unlock"
    /\ lock' = IF call[t].op = "get" /\ result[t] # {} THEN lock ELSE Nobody
    /\ acked' = acked \cup Acknowledged(t)
    /\ GoTo(t, "idle")
    /\ UNCHANGED <<call, calls, result, sessionVars, webVars, stored, during>>

(* Each path out of the function unlocks, then the call returns. *)
Unlock(t) ==
    /\ pc[t] = "unlock"
    /\ lock' = Nobody
    /\ acked' = acked \cup Acknowledged(t)
    /\ GoTo(t, "idle")
    /\ UNCHANGED <<call, calls, result, sessionVars, webVars, stored, during>>

Statement(t) ==
    \/ FindAsset(t) \/ Insert(t) \/ Select(t)
    \/ Open(t) \/ Fetch(t) \/ EndFetch(t)

Next ==
    \/ Edit \/ Lose
    \/ \E t \in Threads : Call(t) \/ Lock(t) \/ Statement(t) \/ Unlock(t)

Spec == Init /\ [][Next]_vars

(* A statement comes back, and a thread that waits for the mutex gets it at  *)
(* some point when it is free again and again.  Nothing makes a thread call. *)
FairSpec ==
    /\ Spec
    /\ \A t \in Threads : SF_vars(Lock(t)) /\ WF_vars(Statement(t) \/ Unlock(t))

-----------------------------------------------------------------------------
(* Properties. *)

(* A report whose asset_add_...() has returned after its INSERT is there to  *)
(* stay, whatever the other threads do with the shared session and whenever  *)
(* it is lost: it never is part of the transaction of the server list.       *)
ReturnedIsStored == acked \subseteq stored

(* What a call returns was true at one moment of the call: the list of       *)
(* servers is that of one moment though it is fetched row by row, the command*)
(* the newest one.  A list may end early at a row that cannot be read, or    *)
(* when the session is lost.                                                 *)
ReadsAreCurrent ==
    \A t \in Threads :
        pc[t] = "unlock" /\ call[t].op # "add" =>
            \E rows \in during[t] :
                \/ result[t] = rows
                \/ result[t] \subseteq rows /\ (~connected \/ rows \cap Unreadable # {})

(* Every call returns: whichever path it takes through the function, it      *)
(* unlocks, and the loop over the cursor ends.                               *)
CallsReturn == \A t \in Threads : pc[t] = "lock" ~> pc[t] = "idle"

===============================================================================
