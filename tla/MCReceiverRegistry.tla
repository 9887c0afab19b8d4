-------------------------- MODULE MCReceiverRegistry --------------------------
(* ReceiverRegistry with devnodes that are interchangeable.                 *)
EXTENDS ReceiverRegistry, TLC

Symmetry == Permutations(Devnodes)
===============================================================================
