------------------------------ MODULE MCAIChat ------------------------------
(* Values for model checking AIChat.                                       *)
EXTENDS AIChat, TLC

\* The tabs and the buffers are interchangeable.
Symmetry == Permutations(Tabs) \union Permutations(Bufs)
=============================================================================
