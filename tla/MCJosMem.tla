------------------------------- MODULE MCJosMem -------------------------------
(***************************************************************************)
(* JosMem for TLC.  Pages and environments are interchangeable: the free   *)
(* list is a set, and no page or environment is named in the specification.*)
(***************************************************************************)
EXTENDS JosMem, TLC

Symmetry == Permutations(Pages) \cup Permutations(Envs)
===============================================================================
