------------------------------ MODULE MCEmailQueue ------------------------------
(* An instance of EmailQueue for TLC: no symmetry, for it checks liveness. *)
EXTENDS EmailQueue, TLC

CONSTANTS k1, h1, h2, w1, w2

\* An application mail; one with credentials has 5, which no pass reaches.
Attempts == [k \in Keys |-> 3]
=============================================================================
