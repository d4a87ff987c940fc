---------------------------- MODULE MCMessageStore ----------------------------
(* Instance of MessageStore for TLC: two live messages, one with media, and a *)
(* backup of two records, one with media, one dated between the live ones.    *)
EXTENDS MessageStore, TLC

CONSTANTS m1, m2, b1, b2

Dates == b1 :> 0 @@ b2 :> 2

\* The two requests are interchangeable.
Interchangeable == Permutations(Loaders)
=============================================================================
