------------------------------- MODULE MCHeap -------------------------------
(* A heap of six blocks of the smallest size, and one that is too small to *)
(* be split.                                                                *)
EXTENDS Heap

MCSpans == {[start |-> 4, size |-> 52], [start |-> 8, size |-> 12]}
=============================================================================
