------------------------------ MODULE MCMemory ------------------------------
(* Small machines for Memory.                                              *)
EXTENDS Memory

\* Pages of 4 units.  The kernel, at page 20, and the modules begin and end
\* inside of pages.  The frames below the kernel are what is left for processes.
Layout(low, vga, kernelEnd, top, modules) ==
  [map |-> <<[start |-> 0, end |-> low], [start |-> 80, end |-> top]>>,
   kernel |-> [start |-> 80, end |-> kernelEnd], modules |-> modules, vga |-> vga]

MCLayouts == {
  Layout(62, 11, 97, 160, {[start |-> 104, end |-> 111]}),
  Layout(30, 18, 99, 126, {[start |-> 104, end |-> 105], [start |-> 112, end |-> 120]}),
  Layout(6, 18, 82, 89, {}) }

MCTasks == 1 .. 3
MCStoredTo == {"s1", "e1"}
MCTables == <<"elf", "stack">>
MCStackPages == <<"s1">>
MCElfPages == <<"e1", "e2">>
MCImages == {
  [valid |-> TRUE, pages |-> <<"e1">>, data |-> 1],
  [valid |-> TRUE, pages |-> <<"e1", "e2">>, data |-> 2],
  [valid |-> FALSE, pages |-> << >>, data |-> 0] }
=============================================================================
