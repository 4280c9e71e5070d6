------------------------------ MODULE MCSocket ------------------------------
(* Socket for TLC: sockets are alike, so one order of them stands for all. *)
EXTENDS Socket, TLC

Alike == Permutations(Sockets)
=============================================================================
