----------------------------- MODULE MCContext -----------------------------
(* A small machine for Context.                                            *)
EXTENDS Context

MCTasks == {1, 2}
MCSignals == {11, 15}
=============================================================================
