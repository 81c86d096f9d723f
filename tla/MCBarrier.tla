----------------------------- MODULE MCBarrier -----------------------------
(* An instance of Barrier for TLC. *)
EXTENDS Barrier, TLC

CONSTANTS w1, w2, w3, host

MCThreeWorkers == {w1, w2, w3}
MCHost == {host}

MCSymmetry == Permutations(Workers)
=============================================================================
