------------------------------ MODULE MCSession ------------------------------
(* Instances of Session for TLC: requests, health loops and clients are     *)
(* interchangeable (symmetry is used without liveness).                     *)
EXTENDS Session, TLC

Interchangeable ==
    Permutations(Tasks) \cup Permutations(Watchers) \cup Permutations(Clients)
=============================================================================
