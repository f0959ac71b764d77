---------------------------- MODULE MCLfsPartRpc ----------------------------
(* Small instances of LfsPartRpc for TLC: clients are interchangeable. *)
EXTENDS LfsPartRpc, TLC

Symmetric == Permutations(Clients)
=============================================================================
