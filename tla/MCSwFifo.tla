------------------------------ MODULE MCSwFifo ------------------------------
(* Small instances of SwFifo for TLC. *)
EXTENDS SwFifo, TLC

(* Tasks of one kind are interchangeable, and so are byte values: the fifo *)
(* only copies them.                                                       *)
Symmetric == Permutations(Writers) \cup Permutations(Byte)
=============================================================================
