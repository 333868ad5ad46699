--------------------------- MODULE MCTaskService ---------------------------
(* Values for model checking TaskService.                                  *)
EXTENDS TaskService, TLC

Symmetry == Permutations(Requests)

Row(level, task) == [level |-> level, task |-> task]

\* One level, one row at first; if it is deleted, another task can take its
\* place.
MCOneRow == [l \in Levels |-> 1]
MCOneBatch == {<<Row("A1", "b")>>}

MCNoRow == [l \in Levels |-> 0]

\* The only key that is read.
MCFirstKey == {<<"A1", 1>>}

\* Batches of one or two tasks of a level, and one of two levels.
MCBatches ==
  {<<Row("A1", "b")>>, <<Row("A1", "b"), Row("A1", "b")>>,
   <<Row("B2", "b"), Row("A1", "b")>>}
=============================================================================
