------------------------------ MODULE MCBuffer ------------------------------
(* Definitions for the TLC configurations of BufferManager.                 *)
EXTENDS BufferManager, TLC

AllPages == [c \in Clients |-> Pages]

(* Two clients that share no page; pages 0 and 2 share a bucket.            *)
CONSTANTS c1, c2
OwnPages == (c1 :> {0}) @@ (c2 :> {2})

Symmetry == Permutations(Clients)
=============================================================================
