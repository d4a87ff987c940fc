----------------------------- MODULE MCAutoReply -----------------------------
(* Instances of AutoReply for TLC: the chat of every message, and symmetry. *)
EXTENDS AutoReply, TLC

CONSTANTS m1, m2, m3, a

\* Every message is about the one chat.
OneChat == [m \in Msgs |-> a]

\* Messages of one chat are interchangeable (used without liveness).
Interchangeable == Permutations(Msgs)
=============================================================================
