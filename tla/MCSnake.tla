------------------------------- MODULE MCSnake -------------------------------
(* Snake on a board of eight cells, with times in units of a few seconds. *)
EXTENDS Snake
=============================================================================
