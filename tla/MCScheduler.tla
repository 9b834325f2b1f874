---------------------------- MODULE MCScheduler ----------------------------
(* Small instances of Scheduler for TLC.                                   *)
EXTENDS Scheduler

\* Times are scaled down: a quantum of 2, a timer of at most 3 ms, and a
\* uint32_t that wraps at 4, so that sleeps are shorter than a quantum, longer
\* than the timer can be armed for, and longer than uint32_t can count.
MCSleepMs == {0, 1, 5}
MCPriorities == {0, 4}
=============================================================================
