------------------------------ MODULE MCJosIpc ------------------------------
(* JosIpc for TLC: the clients are interchangeable.                          *)
EXTENDS JosIpc, TLC

Symmetry == Permutations(Clients)
=============================================================================
