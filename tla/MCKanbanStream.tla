--------------------------- MODULE MCKanbanStream ---------------------------
(* KanbanStream on small instances. *)
EXTENDS KanbanStream, TLC

Symmetry == Permutations(Session)
=============================================================================
