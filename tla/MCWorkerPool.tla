---------------------------- MODULE MCWorkerPool ----------------------------
(* Instances of WorkerPool for TLC. *)
EXTENDS WorkerPool, TLC

CONSTANTS w1, w2, w3

MCTwoWorkers == {w1, w2}
MCThreeWorkers == {w1, w2, w3}
MCHosts == {Host}

AutoOnly == {AnyCpu}
AnyCore == Cores \cup {AnyCpu}

MCSymmetry == Permutations(Workers)
=============================================================================
