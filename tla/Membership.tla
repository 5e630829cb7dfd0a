------------------------------ MODULE Membership ------------------------------
(***************************************************************************)
(* What the server's registry promises, without locks, threads or sockets: *)
(* a client joins once, leaves once, and is destroyed once, after it left; *)
(* and one that left is destroyed at some point.  Clients leave in any     *)
(* order.  When the server stops, all that are left go together.           *)
(***************************************************************************)
CONSTANT Conns

VARIABLE phase   \* of each client: "outside", "listed", "leaving", "gone"

TypeOK == phase \in [Conns -> {"outside", "listed", "leaving", "gone"}]

Init == phase = [c \in Conns |-> "outside"]

Move(c, from, to) ==
    /\ phase[c] = from
    /\ phase' = [phase EXCEPT ![c] = to]

Connect(c) == Move(c, "outside", "listed")

Disconnect(c) == Move(c, "listed", "leaving")

Destroy(c) == Move(c, "leaving", "gone")

(* Only when nothing is left to destroy one by one. *)
StopServing ==
    /\ \A c \in Conns : phase[c] # "leaving"
    /\ phase' = [c \in Conns |-> IF phase[c] = "listed" THEN "gone" ELSE phase[c]]

Next ==
    \/ \E c \in Conns : Connect(c) \/ Disconnect(c) \/ Destroy(c)
    \/ StopServing

Spec == Init /\ [][Next]_phase

FairSpec == Spec /\ \A c \in Conns : WF_phase(Destroy(c))

===============================================================================
