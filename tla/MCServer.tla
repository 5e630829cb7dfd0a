------------------------------- MODULE MCServer -------------------------------
(* Server for TLC: connections are interchangeable in the safety runs. *)
EXTENDS Server, TLC

Symmetry == Permutations(Conns)

===============================================================================
