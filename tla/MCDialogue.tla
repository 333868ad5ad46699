----------------------------- MODULE MCDialogue -----------------------------
(* Values for model checking Dialogue.                                     *)
EXTENDS Dialogue, TLC

Symmetry == Permutations(Conns)
=============================================================================
