------------------------------ MODULE TaskTable ------------------------------
(***************************************************************************)
(* The task table of the scheduler (kernel/kernel/Scheduler.cc), which the *)
(* modules Scheduler and Process work on: how a slot and the next task are *)
(* chosen, and what a switch makes of the states of the tasks.             *)
(***************************************************************************)
EXTENDS Integers

CONSTANT MaxTasks    \* MAX_TASKS, and MAX_SLEEPERS (8)

ASSUME MaxTasksAssumption == MaxTasks \in Nat /\ MaxTasks >= 2

VARIABLES
  state,           \* tasks_[i].state
  priority,        \* tasks_[i].priority
  taskCount,       \* taskCount_: the slots ever used
  current          \* currentIdx_

Slots == 0 .. MaxTasks - 1
PriorityIdle == 9
States == {"DEAD", "READY", "RUNNING", "BLOCKED"}

-----------------------------------------------------------------------------
(* The choice of a slot and of the next task.                              *)

\* s is the slot findSlot hands out: the first DEAD one, or a fresh one.
FindSlot(s) ==
  /\ \A r \in 0 .. s - 1 : state[r] # "DEAD"
  /\ \/ s < taskCount /\ state[s] = "DEAD"
     \/ s = taskCount

\* Distance from the running task to t along the ring of used slots.
Ring(t) == (t - current - 1) % taskCount

\* Mutant: among equals the lowest slot wins, whoever runs.
Wins_NoRing(t, u) ==
  \/ priority[t] < priority[u]
  \/ priority[t] = priority[u] /\ t <= u

\* Mutant: the first READY task wins.
Wins_AnyReady(t, u) == Ring(t) <= Ring(u)

\* The loop of findNext visits every used slot but the running one and keeps
\* the first READY task of the smallest priority number.
Wins(t, u) ==
  \/ priority[t] < priority[u]
  \/ priority[t] = priority[u] /\ Ring(t) <= Ring(u)

Contenders(st) ==
  {t \in 0 .. taskCount - 1 : t # current /\ st[t] = "READY"}

\* n is what findNext returns when the task states are st; idle if no task
\* but the running one can run.
FindNext(n, st) ==
  IF Contenders(st) = {}
    THEN n = 0
    ELSE n \in Contenders(st) /\ \A u \in Contenders(st) : Wins(n, u)

\* The task states after switchTo(next) from states st.
Switched(st, next) ==
  [t \in Slots |-> IF t = next THEN "RUNNING"
                   ELSE IF t = current /\ st[t] = "RUNNING" THEN "READY"
                   ELSE st[t]]

-----------------------------------------------------------------------------
(* What a switch relies on.                                                *)

\* The idle task can always be switched to, so that findNext's fallback to
\* slot 0 never meets switchTo's "target task is not READY" panic, not even
\* from a BLOCKED, READY or exiting current task.
NextIsReady ==
  \A n \in Slots : FindNext(n, state) /\ n # current => state[n] = "READY"

\* At most one task is RUNNING and it is the current one, and an unused or
\* exited slot is never the current one.
OnlyCurrentRuns ==
  /\ \A t \in Slots : state[t] = "RUNNING" => t = current
  /\ state[current] # "DEAD"
=============================================================================
