------------------------------- MODULE Mailbox --------------------------------
(***************************************************************************)
(* What a connection promises the application that owns it, without        *)
(* sockets, threads, queues or a handler: the messages of the peer are     *)
(* pending until the application takes them.  As long as it polls, it      *)
(* takes them in the order they were written; a handler gets each of them  *)
(* once, in whatever order.  The end of the stream is the last message.    *)
(* Only a stream that is broken loses any, and then the latest ones; a     *)
(* null pointer may be written in their place.                             *)
(***************************************************************************)
EXTENDS Naturals, Sequences, SequencesExt

CONSTANTS Conns, Messages, Closed

VARIABLES
    pending,   \* written by the peer and not taken yet, oldest first
    got,       \* what the application has taken
    polling,   \* the application polls
    broken,    \* the stream may have lost messages
    ended      \* the end of the stream is pending or was taken

vars == <<pending, got, polling, broken, ended>>

Init ==
    /\ pending = [c \in Conns |-> <<>>]
    /\ got = [c \in Conns |-> <<>>]
    /\ polling = [c \in Conns |-> TRUE]
    /\ broken = [c \in Conns |-> FALSE]
    /\ ended = [c \in Conns |-> FALSE]

Write(c, m) ==
    /\ ~ended[c]
    /\ pending' = [pending EXCEPT ![c] = Append(@, m)]
    /\ UNCHANGED <<got, polling, broken, ended>>

(* The latest messages are lost. *)
Lose(c) ==
    \E n \in 0..Len(pending[c]) :
        /\ ended[c] => n = Len(pending[c])
        /\ pending' = [pending EXCEPT ![c] = SubSeq(@, 1, n)]

Break(c) ==
    /\ Lose(c)
    /\ broken' = [broken EXCEPT ![c] = TRUE]
    /\ UNCHANGED <<got, polling, ended>>

End(c) ==
    /\ ~ended[c]
    /\ pending' = [pending EXCEPT ![c] = Append(@, Closed)]
    /\ ended' = [ended EXCEPT ![c] = TRUE]
    /\ UNCHANGED <<got, polling, broken>>

Poll(c) ==
    /\ polling[c]
    /\ pending[c] # <<>>
    /\ got' = [got EXCEPT ![c] = Append(@, Head(pending[c]))]
    /\ pending' = [pending EXCEPT ![c] = Tail(@)]
    /\ UNCHANGED <<polling, broken, ended>>

Attach(c) ==
    /\ polling' = [polling EXCEPT ![c] = FALSE]
    /\ UNCHANGED <<pending, got, broken, ended>>

Handle(c) ==
    /\ ~polling[c]
    /\ \E i \in 1..Len(pending[c]) :
          /\ got' = [got EXCEPT ![c] = Append(@, pending[c][i])]
          /\ pending' = [pending EXCEPT ![c] = RemoveAt(@, i)]
    /\ UNCHANGED <<polling, broken, ended>>

(* This end disconnects; a handler that is in a call may see more. *)
HangUp(c) ==
    /\ Lose(c)
    /\ polling' = [polling EXCEPT ![c] = FALSE]
    /\ broken' = [broken EXCEPT ![c] = TRUE]
    /\ UNCHANGED <<got, ended>>

Next ==
    \E c \in Conns :
        \/ \E m \in Messages : Write(c, m)
        \/ Break(c) \/ End(c) \/ Poll(c) \/ Attach(c) \/ Handle(c) \/ HangUp(c)

Spec == Init /\ [][Next]_vars

===============================================================================
