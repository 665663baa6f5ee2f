-------------------------------- MODULE MCJosFs -------------------------------
(***************************************************************************)
(* JosFs for TLC: the files are interchangeable, and a disk that a crash   *)
(* has damaged, of which no property speaks, is not explored further.      *)
(***************************************************************************)
EXTENDS JosFs, TLC

Symmetry == Permutations(Files)

Undamaged == NoFile \notin cut
===============================================================================
