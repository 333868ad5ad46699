--------------------------- MODULE MCUsersService ---------------------------
(* Values for model checking UsersService.                                 *)
EXTENDS UsersService, TLC

\* Both extremes move.
MCCounters == {-1, 1}

\* The calls are interchangeable.
Symmetry == Permutations(Requests)
=============================================================================
