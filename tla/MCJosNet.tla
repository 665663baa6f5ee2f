------------------------------- MODULE MCJosNet -------------------------------
\* Clients are interchangeable in JosNet.
EXTENDS JosNet, TLC

Symmetry == Permutations(Clients)
===============================================================================
